----------------------------- MODULE WizardProofs -----------------------------
(***************************************************************************)
(* Proofs about the wizards in the session of a device: the stack of their  *)
(* steps, the wallet they make and the passphrase they store.  A stack is   *)
(* the way to where a wizard is: each of its steps is there because of what *)
(* happened before, and the invariant keeps that for every step that a key  *)
(* back may return to.                                                      *)
(***************************************************************************)
EXTENDS DeviceSessionProofs

-----------------------------------------------------------------------------
(* The stack of steps                                                       *)

\* The steps in the order the wizards go through them: every way on leads to a higher one.
Level(step) ==
  CASE step \in {"LANG", "PASSPHRASE_TIPS", "VERIFY_TIPS"} -> 1
    [] step \in {"DEVICE_ACTIVE", "PASSPHRASE_DETAIL_TIPS"} -> 2
    [] step \in {"KEY_INSTRUCTION", "ACTION_DETECTION"} -> 3
    [] step \in {"GREET", "SELECT_PASSPHRASE_TYPE"} -> 4
    [] step = "ACCOUNT_OP_SELECT" -> 5
    [] step = "MNEMONICS_TIPS" -> 6
    [] step = "MNEMONICS_DETAIL_TIPS" -> 7
    [] step = "MNEMONICS_CNT" -> 8
    [] step = "CHECK_SECHIP" -> 9
    [] step \in {"MNEMONICS_GENERATE", "ACCOUNT_RECOVERY_TIPS"} -> 10
    [] step \in {"MNEMONICS_SHOW", "ACCOUNT_RECOVERY"} -> 11
    [] step = "MNEMONICS_CONFIRM_TIPS" -> 12
    [] step = "MNEMONICS_CONFIRM" -> 13
    [] step = "PASSWD_TIPS" -> 14
    [] step = "ENTER_PASSWD" -> 15
    [] step \in {"FIRST_USE_PASSPHRASE_TIPS", "ENTER_PASSPHRASE"} -> 16
    [] step \in {"SELECT_MNEMONIC_CNT", "SAVE_PASSPHRASE"} -> 17
    [] step \in {"VERIFY_MNEMONIC_TIPS", "WALLET_NAME_TIPS"} -> 18
    [] step \in {"VERIFY_MNEMONIC", "INPUT_WALLET_NAME"} -> 19
    [] step = "DOWNLOAD_APP_TIPS" -> 20
    [] OTHER -> 0

\* All of them, in no order
Steps ==
  {"LANG", "PASSPHRASE_TIPS", "VERIFY_TIPS", "DEVICE_ACTIVE", "PASSPHRASE_DETAIL_TIPS",
   "KEY_INSTRUCTION", "ACTION_DETECTION", "GREET", "SELECT_PASSPHRASE_TYPE",
   "ACCOUNT_OP_SELECT", "MNEMONICS_TIPS", "MNEMONICS_DETAIL_TIPS", "MNEMONICS_CNT",
   "CHECK_SECHIP", "MNEMONICS_GENERATE", "ACCOUNT_RECOVERY_TIPS", "MNEMONICS_SHOW",
   "ACCOUNT_RECOVERY", "MNEMONICS_CONFIRM_TIPS", "MNEMONICS_CONFIRM", "PASSWD_TIPS",
   "ENTER_PASSWD", "FIRST_USE_PASSPHRASE_TIPS", "ENTER_PASSPHRASE", "SELECT_MNEMONIC_CNT",
   "SAVE_PASSPHRASE", "VERIFY_MNEMONIC_TIPS", "WALLET_NAME_TIPS", "VERIFY_MNEMONIC",
   "INPUT_WALLET_NAME", "DOWNLOAD_APP_TIPS"}

\* A stack in that order; it holds at most one step of each level
Rising(s) ==
  /\ s \in Seq(Steps)
  /\ \A i \in DOMAIN s : i <= Level(s[i])
  /\ \A i, j \in DOMAIN s : i < j => Level(s[i]) < Level(s[j])

\* A dialog belongs to the step on the top of the stack.
Opener(kind) ==
  CASE kind = "show" -> "MNEMONICS_SHOW"  [] kind = "confirm" -> "MNEMONICS_CONFIRM"
    [] kind \in {"pin", "store", "check"} -> "ENTER_PASSWD"
    [] kind = "phrase" -> "ENTER_PASSPHRASE"

\* Which dialog is open, in which wizard and over which step
DialogPlace ==
  /\ dlg.kind \in {"none", "active", "show", "confirm", "words", "pin", "store", "check",
                   "phrase", "change"}
  /\ dlg.kind \in {"active", "show", "confirm", "pin", "store", "check"} => modal = "guide"
  /\ dlg.kind = "active" => Level(TopStep(steps)) <= 1
  /\ dlg.kind \in {"show", "confirm", "pin", "store", "check", "phrase"} =>
       TopStep(steps) = Opener(dlg.kind)
  /\ dlg.kind = "words" =>
       \/ modal = "guide" /\ TopStep(steps) = "ACCOUNT_RECOVERY"
       \/ modal \in Wizards /\ TopStep(steps) = "VERIFY_MNEMONIC"
  /\ dlg.kind = "phrase" => modal = "phrase"
  /\ dlg.kind = "change" => modal = "setting"

\* The locals of the wizards of a device with a wallet
WizardFields == {"pinOk", "type", "val", "mlen", "have", "typed"}

\* The stack, the dialog over it and the locals fit together.
StackInv ==
  /\ Rising(steps) /\ DialogPlace
  /\ modal \in Wizards => WizardFields \subseteq DOMAIN wiz /\ wiz.type \in {0, 1, 2}

-----------------------------------------------------------------------------
(* What is behind the windows and the steps                                 *)

\* The steps behind which the wallet of the guide is stored and compared
Named == {"WALLET_NAME_TIPS", "INPUT_WALLET_NAME", "DOWNLOAD_APP_TIPS"}
Made == In("check") \/ TopStep(steps) \in Named

\* A loop runs in its window; the guide also over the main panel, after a PIN that erased
\* the wallet.
LoopPlace ==
  /\ modal = "guide" => cur = "GUIDE" \/ (cur = "MAINPANEL" /\ strayed)
  /\ modal \in {"select", "tips"} => cur = "SIGN_HISTORY"
  /\ modal \in Wizards => cur \in {"PASSPHRASE", "VERIFY"}
  /\ modal \in {"setting", "reset"} => cur = "SETTING"

\* Which windows there are without a wallet.  The scan window goes back to where it was opened;
\* the code of an activation, and the guide between two runs, are of a device without one.
SeedBehind ==
  /\ account = Nothing /\ ~strayed => cur \in {"GUIDE", "SCAN", "QRPROC"} \/ modal = "reset"
  /\ cur = "SCAN" => from \in {"MAINPANEL", "GUIDE"}
  /\ cur # "SCAN" => from = Nothing
  /\ from = "MAINPANEL" => account # Nothing \/ strayed
  /\ (cur = "GUIDE" /\ modal # "guide") \/ from = "GUIDE" \/ qr = "active" => account = Nothing
  /\ qr # "none" => cur = "QRPROC"
  /\ (cur = "QRPROC" /\ qr = "none") \/ qr \in {"bind", "pubkey"} => account # Nothing
  /\ page # Nothing => req # Nothing
  /\ req # Nothing => Idle /\ cur = "SCAN" /\ account # Nothing

\* The guide has made the wallet at the step that compares it; the other wizards have one in
\* the secure element.
GuideSeed ==
  /\ modal = "guide" => (account # Nothing <=> Made)
  /\ modal \in Wizards /\ steps # << >> => chip # Nothing

\* What the secure element, the application and the guide have
ChipType == [words : Mnemonics, pass : Phrases \cup {Nothing}, pin : Pins, keeps : BOOLEAN]
AccountType == [words : Mnemonics, pass : Phrases \cup {Nothing}]
GuideType == [mlen : Counts \cup {0}, recovery : BOOLEAN, words : Mnemonics \cup {<< >>},
              text : Mnemonics \cup {<< >>}, seen : SUBSET Int, picked : Seq(Words),
              pins : Seq(Pins \cup {Nothing})]

\* The records of the wallet have their types, a passphrase goes with a mnemonic that is kept,
\* and the account is that of the chip.
SeedTypes ==
  /\ chip # Nothing => chip \in ChipType /\ PinOk(chip.pin)
  /\ account # Nothing => account \in AccountType
  /\ chip # Nothing /\ chip.pass # Nothing => chip.keeps
  /\ account # Nothing => /\ chip # Nothing /\ chip.words = account.words
                          /\ AccountOf(chip) = account \/ At("phrase", "SAVE_PASSPHRASE")

-----------------------------------------------------------------------------
(* What the steps of the guide have before them                             *)

\* The words, counted from 0, and the last one on a page
WordPlaces(w) == 0..w.mlen - 1
LastOn(p, w) == IF w.mlen - p * PageWords >= PageWords THEN p * PageWords + PageWords - 1
                ELSE w.mlen - 1

\* What must have happened before a step of the guide is reached
Earned(step, w) ==
  /\ step \in {"MNEMONICS_GENERATE", "MNEMONICS_SHOW", "MNEMONICS_CONFIRM_TIPS",
               "MNEMONICS_CONFIRM"} => ~w.recovery
  /\ step \in {"ACCOUNT_RECOVERY_TIPS", "ACCOUNT_RECOVERY"} => w.recovery
  /\ Level(step) >= 9 => w.mlen \in Counts
  /\ Level(step) >= 11 /\ ~w.recovery => /\ w.words \in Mnemonics /\ Len(w.words) = w.mlen
                                         /\ w.seen \subseteq WordPlaces(w)
  /\ Level(step) >= 12 /\ ~w.recovery => w.seen = WordPlaces(w)
  /\ Level(step) >= 14 => IF w.recovery THEN w.text \in {<< >>, w.picked}
                          ELSE w.picked = w.words

AllEarned == \A i \in DOMAIN steps : Earned(steps[i], wiz)

\* The pages up to the one shown were shown, the words before the one asked for were picked,
\* and what is about to be stored was typed twice.
GuideDialog ==
  /\ In("show") => /\ "page" \in DOMAIN dlg /\ dlg.page \in 0..Pages(wiz.mlen) - 1
                   /\ 0..LastOn(dlg.page, wiz) \subseteq wiz.seen
  /\ In("confirm") => /\ "idx" \in DOMAIN dlg /\ dlg.idx \in WordPlaces(wiz)
                      /\ wiz.picked = SubSeq(wiz.words, 1, dlg.idx)
  /\ In("pin") => /\ "first" \in DOMAIN dlg
                  /\ dlg.first # Nothing => dlg.first \in Pins /\ PinOk(dlg.first)
  /\ In("store") => /\ "pin" \in DOMAIN dlg /\ dlg.pin \in Pins /\ PinOk(dlg.pin)
                    /\ wiz.pins = <<dlg.pin, dlg.pin>>
                    /\ wiz.text \in Mnemonics /\ wiz.picked = wiz.text

\* The wallet the guide has made
GuideAccount == account # Nothing => /\ chip.pass = Nothing /\ wiz.pins = <<chip.pin, chip.pin>>
                                     /\ wiz.picked = chip.words

GuideInv ==
  modal = "guide" => wiz \in GuideType /\ AllEarned /\ GuideDialog /\ GuideAccount

-----------------------------------------------------------------------------
(* The wizard of a passphrase                                               *)

\* What may be stored: the standard account, or a passphrase that was typed twice
PhraseChosen(w) == \/ w.type = 1 /\ w.val = Nothing
                   \/ w.type = 2 /\ w.val \in Phrases /\ PhraseOk(w.val)
                      /\ w.typed = <<w.val, w.val>>

\* What must have happened before a step of the passphrase wizard is reached
Fits(step, w) ==
  /\ step = "SAVE_PASSPHRASE" => PhraseChosen(w)
  /\ step = "ENTER_PASSPHRASE" => w.type = 2
  /\ step = "SELECT_PASSPHRASE_TYPE" => w.have

AllFit == \A i \in DOMAIN steps : Fits(steps[i], wiz)

\* A chip asked for a passphrase keeps the words.
WordsKeptFor(w) == w.type = 2 \/ w.have => chip # Nothing /\ chip.keeps

\* The first passphrase is well formed.
PhraseDialog == In("phrase") => /\ "first" \in DOMAIN dlg
                                /\ dlg.first # Nothing => dlg.first \in Phrases /\ PhraseOk(dlg.first)

\* The passphrase wizard, and the change of the PIN
PhraseInv ==
  /\ modal = "phrase" => AllFit /\ WordsKeptFor(wiz) /\ PhraseDialog
  /\ In("change") => /\ {"old", "first"} \subseteq DOMAIN dlg /\ dlg.old \in BOOLEAN
                     /\ dlg.old => chip # Nothing
                     /\ dlg.first # Nothing => dlg.old /\ dlg.first \in Pins /\ PinOk(dlg.first)

\* The inductive invariant of the wizards; it holds along with SessionInv.
WizardInv == StackInv /\ LoopPlace /\ SeedBehind /\ GuideSeed /\ SeedTypes /\ GuideInv /\ PhraseInv

-----------------------------------------------------------------------------
(* The stack keeps its order                                                *)

\* Only steps have a level, and there are as many levels as the stack has places.
LEMMA LevelRange ==
  ASSUME NEW x
  PROVE  Level(x) \in 0..20 /\ (Level(x) > 0 => x \in Steps)
BY DEF Level, Steps

\* The levels of the steps one by one
LEMMA LowSteps ==
  /\ Level(NoStep) = 0
  /\ Level("LANG") = 1 /\ Level("PASSPHRASE_TIPS") = 1 /\ Level("VERIFY_TIPS") = 1
  /\ Level("DEVICE_ACTIVE") = 2 /\ Level("PASSPHRASE_DETAIL_TIPS") = 2
  /\ Level("KEY_INSTRUCTION") = 3 /\ Level("ACTION_DETECTION") = 3
  /\ Level("GREET") = 4 /\ Level("SELECT_PASSPHRASE_TYPE") = 4
  /\ Level("ACCOUNT_OP_SELECT") = 5 /\ Level("MNEMONICS_TIPS") = 6
  /\ Level("MNEMONICS_DETAIL_TIPS") = 7 /\ Level("MNEMONICS_CNT") = 8
BY DEF Level, NoStep

LEMMA WordSteps ==
  /\ Level("CHECK_SECHIP") = 9
  /\ Level("MNEMONICS_GENERATE") = 10 /\ Level("ACCOUNT_RECOVERY_TIPS") = 10
  /\ Level("MNEMONICS_SHOW") = 11 /\ Level("ACCOUNT_RECOVERY") = 11
  /\ Level("MNEMONICS_CONFIRM_TIPS") = 12 /\ Level("MNEMONICS_CONFIRM") = 13
  /\ Level("PASSWD_TIPS") = 14 /\ Level("ENTER_PASSWD") = 15
BY DEF Level

LEMMA HighSteps ==
  /\ Level("FIRST_USE_PASSPHRASE_TIPS") = 16 /\ Level("ENTER_PASSPHRASE") = 16
  /\ Level("SELECT_MNEMONIC_CNT") = 17 /\ Level("SAVE_PASSPHRASE") = 17
  /\ Level("VERIFY_MNEMONIC_TIPS") = 18 /\ Level("WALLET_NAME_TIPS") = 18
  /\ Level("VERIFY_MNEMONIC") = 19 /\ Level("INPUT_WALLET_NAME") = 19
  /\ Level("DOWNLOAD_APP_TIPS") = 20
BY DEF Level

\* A stack in order is no longer than the level of its top step.
LEMMA TopOf ==
  ASSUME NEW s, Rising(s)
  PROVE  /\ s = << >> => TopStep(s) = NoStep
         /\ s # << >> => /\ Len(s) \in DOMAIN s /\ TopStep(s) = s[Len(s)]
                         /\ Len(s) <= Level(TopStep(s))
BY DEF Rising, TopStep, Last

\* A higher step keeps the order, and there is room for it.
LEMMA Pushed ==
  ASSUME NEW s, NEW step, Rising(s), Level(TopStep(s)) < Level(step)
  PROVE  /\ Rising(Push(s, step)) /\ TopStep(Push(s, step)) = step
         /\ \A i \in DOMAIN Push(s, step) :
              Push(s, step)[i] = step \/ (i \in DOMAIN s /\ Push(s, step)[i] = s[i])
<1>1. step \in Steps /\ Level(step) \in 0..20 /\ Level(TopStep(s)) \in 0..20
  BY LevelRange
<1>2. s \in Seq(Steps) /\ Len(s) < 20 /\ Len(s) < Level(step)
  <2>1. CASE s = << >>
    BY <1>1, <2>1 DEF Rising
  <2>2. CASE s # << >>
    BY <1>1, <2>2, TopOf, SMTT(30) DEF Rising
  <2>. QED  BY <2>1, <2>2
<1>3. Push(s, step) = Append(s, step)
  BY <1>2 DEF Push, Capacity
<1>4. \A i \in DOMAIN s : Level(s[i]) < Level(step)
  <2> SUFFICES ASSUME NEW i \in DOMAIN s PROVE Level(s[i]) < Level(step)
    OBVIOUS
  <2>1. s # << >> /\ i \in 1..Len(s)
    BY <1>2
  <2>2. Level(s[i]) \in 0..20 /\ Level(s[Len(s)]) \in 0..20 /\ TopStep(s) = s[Len(s)]
    BY <2>1, LevelRange, TopOf
  <2>3. CASE i = Len(s)
    BY <2>2, <2>3
  <2>4. CASE i < Len(s)
    <3>1. Len(s) \in DOMAIN s
      BY <1>2, <2>1
    <3>2. Level(s[i]) < Level(s[Len(s)])
      BY <2>4, <3>1 DEF Rising
    <3>3. Level(s[Len(s)]) = Level(TopStep(s)) /\ Level(TopStep(s)) \in Int
          /\ Level(step) \in Int /\ Level(s[i]) \in Int
      BY <1>1, <2>2, SMTT(30)
    <3>. QED  BY <3>2, <3>3
  <2>. QED  BY <1>2, <2>1, <2>3, <2>4
<1>5. Append(s, step) \in Seq(Steps) /\ Len(Append(s, step)) = Len(s) + 1
  BY <1>1, <1>2
<1>6. \A i \in DOMAIN Append(s, step) :
        (i = Len(s) + 1 /\ Append(s, step)[i] = step) \/ (i \in DOMAIN s /\ Append(s, step)[i] = s[i])
  BY <1>1, <1>2, <1>5
<1>7. Rising(Append(s, step))
  <2>1. \A i \in DOMAIN Append(s, step) : i <= Level(Append(s, step)[i])
    BY <1>2, <1>1, <1>6, SMTT(30) DEF Rising
  <2>2. ASSUME NEW i \in DOMAIN Append(s, step), NEW j \in DOMAIN Append(s, step), i < j
        PROVE  Level(Append(s, step)[i]) < Level(Append(s, step)[j])
    <3>1. i \in DOMAIN s /\ Append(s, step)[i] = s[i]
      BY <1>2, <1>5, <1>6, <2>2
    <3>2. CASE j = Len(s) + 1
      BY <1>4, <1>6, <1>2, <3>1, <3>2
    <3>3. CASE j \in DOMAIN s
      BY <1>6, <1>2, <2>2, <3>1, <3>3 DEF Rising
    <3>. QED  BY <1>6, <3>2, <3>3
  <2>. QED  BY <1>5, <2>1, <2>2 DEF Rising
<1>8. TopStep(Append(s, step)) = step
  <2>1. Append(s, step) # << >> /\ Append(s, step)[Len(s) + 1] = step
    BY <1>1, <1>2, <1>5
  <2>. QED  BY <1>5, <2>1 DEF TopStep, Last
<1>. QED  BY <1>3, <1>6, <1>7, <1>8

\* So does taking a step back.
LEMMA Popped ==
  ASSUME NEW s, Rising(s)
  PROVE  /\ Rising(Pop(s))
         /\ s # << >> => Level(TopStep(Pop(s))) < Level(TopStep(s))
         /\ \A i \in DOMAIN Pop(s) : i \in DOMAIN s /\ Pop(s)[i] = s[i]
<1>1. CASE s = << >>
  BY <1>1 DEF Pop
<1>2. CASE s # << >>
  <2>1. s \in Seq(Steps) /\ Len(s) \in Nat \ {0} /\ DOMAIN s = 1..Len(s)
    BY <1>2 DEF Rising
  <2>2. Pop(s) = SubSeq(s, 1, Len(s) - 1)
    BY <1>2 DEF Pop, Front
  <2>3. Pop(s) \in Seq(Steps) /\ Len(Pop(s)) = Len(s) - 1 /\ DOMAIN Pop(s) = 1..(Len(s) - 1)
    BY <2>1, <2>2
  <2>4. \A i \in DOMAIN Pop(s) : i \in DOMAIN s /\ Pop(s)[i] = s[i]
    BY <2>1, <2>2, <2>3
  <2>5. Rising(Pop(s))
    BY <2>3, <2>4 DEF Rising
  <2>6. Level(TopStep(s)) >= Len(s) /\ TopStep(s) = s[Len(s)]
    BY <1>2, <2>1, TopOf, LevelRange
  <2>7. Level(TopStep(Pop(s))) < Level(TopStep(s))
    <3>1. CASE Pop(s) = << >>
      BY <2>1, <2>6, <3>1, TopOf, <2>5, LowSteps, LevelRange
    <3>2. CASE Pop(s) # << >>
      <4>1. TopStep(Pop(s)) = s[Len(s) - 1] /\ Len(s) - 1 \in DOMAIN s
        BY <2>3, <2>4, <2>5, <3>2, TopOf
      <4>. QED  BY <2>1, <2>6, <4>1 DEF Rising
    <3>. QED  BY <3>1, <3>2
  <2>. QED  BY <2>4, <2>5, <2>7
<1>. QED  BY <1>1, <1>2

\* What a step of a wizard does to the stack
Climbs ==
  \/ steps' = steps \/ steps' = Pop(steps)
  \/ \E step : Level(TopStep(steps)) < Level(step) /\ steps' = Push(steps, step)
  \/ \E step : /\ steps # << >> /\ Level(TopStep(steps)) <= Level(step)
               /\ steps' = Push(Pop(steps), step)

\* Replacing the top step by one that is not lower keeps it too.
LEMMA Swapped ==
  ASSUME NEW s, NEW step, Rising(s), s # << >>, Level(TopStep(s)) <= Level(step)
  PROVE  /\ Rising(Push(Pop(s), step)) /\ TopStep(Push(Pop(s), step)) = step
         /\ \A i \in DOMAIN Push(Pop(s), step) :
              \/ Push(Pop(s), step)[i] = step
              \/ i \in DOMAIN s /\ Push(Pop(s), step)[i] = s[i]
<1>1. /\ Rising(Pop(s)) /\ Level(TopStep(Pop(s))) < Level(TopStep(s))
      /\ \A i \in DOMAIN Pop(s) : i \in DOMAIN s /\ Pop(s)[i] = s[i]
  BY Popped
<1>2. /\ Level(TopStep(Pop(s))) \in 0..20 /\ Level(TopStep(s)) \in 0..20
      /\ Level(step) \in 0..20
  BY LevelRange
<1>3. Level(TopStep(Pop(s))) < Level(step)
  <2> DEFINE a == Level(TopStep(Pop(s)))
             b == Level(TopStep(s))
             c == Level(step)
  <2>1. a \in 0..20 /\ b \in 0..20 /\ c \in 0..20 /\ a < b /\ b <= c
    BY <1>1, <1>2
  <2> HIDE DEF a, b, c
  <2>2. a < c
    BY <2>1
  <2>. QED  BY <2>2 DEF a, c
<1>4. /\ Rising(Push(Pop(s), step)) /\ TopStep(Push(Pop(s), step)) = step
      /\ \A i \in DOMAIN Push(Pop(s), step) :
           \/ Push(Pop(s), step)[i] = step
           \/ i \in DOMAIN Pop(s) /\ Push(Pop(s), step)[i] = Pop(s)[i]
  <2> DEFINE r == Pop(s)
  <2>1. Rising(r) /\ Level(TopStep(r)) < Level(step)
    BY <1>1, <1>3
  <2> HIDE DEF r
  <2>2. /\ Rising(Push(r, step)) /\ TopStep(Push(r, step)) = step
        /\ \A i \in DOMAIN Push(r, step) :
             \/ Push(r, step)[i] = step
             \/ i \in DOMAIN r /\ Push(r, step)[i] = r[i]
    BY <2>1, Pushed
  <2>. QED  BY <2>2 DEF r
<1>. QED  BY <1>1, <1>4

LEMMA ClimbsRises ==
  ASSUME Rising(steps), Climbs
  PROVE  Rising(steps')
BY Pushed, Popped, Swapped DEF Climbs

-----------------------------------------------------------------------------
(* Every step of the wizards leads up, back or nowhere                      *)

\* With no dialog open there is nothing to fit.
LEMMA ClosedPlace ==
  ASSUME dlg' = NoDialog
  PROVE  DialogPlace'
BY DEF DialogPlace, NoDialog

LEMMA KeptClimbs ==
  ASSUME DialogPlace, UNCHANGED <<steps, modal>>, dlg'.kind = dlg.kind
  PROVE  Climbs /\ DialogPlace'
BY DEF DialogPlace, Climbs

\* The ways to change the stack and its dialog
LEMMA OntoClimbs ==
  ASSUME NEW step, Onto(step), Level(TopStep(steps)) < Level(step)
  PROVE  Climbs /\ DialogPlace'
BY ClosedPlace DEF Onto, Climbs

LEMMA OffClimbs ==
  ASSUME Off \/ Stays
  PROVE  Climbs /\ DialogPlace'
BY ClosedPlace DEF Off, Stays, Climbs

LEMMA SwapClimbs ==
  ASSUME NEW step, TopStep(steps) # NoStep, Level(TopStep(steps)) <= Level(step),
         steps' = Push(Pop(steps), step), dlg' = NoDialog
  PROVE  Climbs /\ DialogPlace'
<1>1. steps # << >>
  BY DEF TopStep
<1>. QED  BY <1>1, ClosedPlace DEF Climbs

\* The steps that only lead on lead up.
LEMMA LeadsUp ==
  ASSUME NEW top, NEW step, step \in LeadsTo(top) \/ step \in WizardLeadsTo(top)
  PROVE  Level(top) < Level(step)
<1>1. CASE step \in LeadsTo(top)
  BY <1>1, LowSteps, WordSteps, HighSteps DEF LeadsTo
<1>2. CASE step \in WizardLeadsTo(top)
  BY <1>2, LowSteps, WordSteps, HighSteps DEF WizardLeadsTo
<1>. QED  BY <1>1, <1>2

\* Every step of the guide leads up, back or nowhere.
LEMMA GuideClimbs ==
  ASSUME StackInv, WizardsAside, GuideStays
  PROVE  Climbs /\ DialogPlace'
<1>. DialogPlace /\ "kind" \in DOMAIN dlg
  BY DEF StackInv, WizardsAside
<1>1. CASE Language
  <2>1. PICK step \in {"KEY_INSTRUCTION", "DEVICE_ACTIVE"} : Onto(step)
    BY <1>1 DEF Language
  <2>2. Level(TopStep(steps)) = 1 /\ Level(step) \in {2, 3}
    BY <1>1, LowSteps DEF Language, At
  <2>. QED  BY <2>1, <2>2, OntoClimbs
<1>2. CASE ActiveStarts
  <2>1. TopStep(steps) = "DEVICE_ACTIVE" /\ modal' = "guide" /\ dlg = NoDialog
    BY <1>2 DEF ActiveStarts, At, OnlyWizard
  <2>2. CASE active.done
    <3>1. steps' = Push(Pop(steps), "KEY_INSTRUCTION") /\ dlg' = NoDialog
      BY <1>2, <2>1, <2>2 DEF ActiveStarts
    <3>. QED  BY <2>1, <3>1, SwapClimbs, LowSteps DEF NoStep
  <2>3. CASE ~active.done
    <3>1. steps' = Pop(steps) /\ dlg'.kind = "active"
      BY <1>2, <2>3 DEF ActiveStarts
    <3>2. Level(TopStep(steps')) <= 1
      <4>1. steps # << >>
        BY <2>1 DEF TopStep, NoStep
      <4>2. Level(TopStep(Pop(steps))) < 2
        BY <4>1, <2>1, Popped, LowSteps DEF StackInv
      <4>. QED  BY <3>1, <4>2, LevelRange
    <3>. QED  BY <2>1, <3>1, <3>2 DEF Climbs, DialogPlace
  <2>. QED  BY <2>2, <2>3
<1>3. CASE ActiveAnswer
  <2>1. UNCHANGED <<steps, modal>> /\ (dlg' = NoDialog \/ dlg'.kind = dlg.kind)
    BY <1>3 DEF ActiveAnswer, OnlyWizard
  <2>. QED  BY <2>1, KeptClimbs, ClosedPlace DEF Climbs
<1>4. CASE Onward
  BY <1>4, LeadsUp, OntoClimbs DEF Onward
<1>5. CASE Backward \/ WordsLeft \/ ConfirmLeft \/ PinLeft
  BY <1>5, OffClimbs DEF Backward, WordsLeft, ConfirmLeft, PinLeft
<1>6. CASE AccountSelect
  <2>1. PICK step \in {"MNEMONICS_CNT", "MNEMONICS_TIPS"} : Onto(step)
    BY <1>6 DEF AccountSelect
  <2>2. Level(TopStep(steps)) = 5 /\ Level(step) \in {6, 8}
    BY <1>6, LowSteps DEF AccountSelect, At
  <2>. QED  BY <2>1, <2>2, OntoClimbs
<1>7. CASE CountSelected
  <2>1. Level(TopStep(steps)) = 8 /\ (Onto("CHECK_SECHIP") \/ Stays)
    BY <1>7, LowSteps DEF CountSelected, At
  <2>. QED  BY <2>1, OntoClimbs, OffClimbs, WordSteps
<1>8. CASE SechipChecked
  <2>1. /\ TopStep(steps) = "CHECK_SECHIP" /\ dlg' = NoDialog
        /\ \E step \in {"ACCOUNT_RECOVERY_TIPS", "MNEMONICS_GENERATE"} :
             steps' = Push(Pop(steps), step)
    BY <1>8 DEF SechipChecked, At
  <2>. QED  BY <2>1, SwapClimbs, WordSteps DEF NoStep
<1>9. CASE Generated
  <2>1. /\ TopStep(steps) = "MNEMONICS_GENERATE" /\ dlg' = NoDialog
        /\ steps' = Push(Pop(steps), "MNEMONICS_SHOW")
    BY <1>9 DEF Generated, At
  <2>. QED  BY <2>1, SwapClimbs, WordSteps DEF NoStep
<1>10. CASE WordsShown \/ PageTurned
  <2>1. UNCHANGED <<steps, modal>> /\ dlg'.kind = "show"
    BY <1>10 DEF WordsShown, PageTurned, ShowsPage, OnlyWizard
  <2>2. modal = "guide" /\ TopStep(steps) = "MNEMONICS_SHOW"
    BY <1>10 DEF WordsShown, PageTurned, At, In, DialogPlace, Opener
  <2>. QED  BY <2>1, <2>2 DEF Climbs, DialogPlace, Opener
<1>11. CASE WordsRead
  <2>1. TopStep(steps) = "MNEMONICS_SHOW" /\ Onto("MNEMONICS_CONFIRM_TIPS")
    BY <1>11 DEF WordsRead, LastPage, In, DialogPlace, Opener
  <2>. QED  BY <2>1, OntoClimbs, WordSteps
<1>12. CASE ConfirmStarts
  <2>1. UNCHANGED <<steps, modal>> /\ dlg'.kind = "confirm"
    BY <1>12 DEF ConfirmStarts, Asks, OnlyWizard
  <2>2. modal = "guide" /\ TopStep(steps) = "MNEMONICS_CONFIRM"
    BY <1>12 DEF ConfirmStarts, At
  <2>. QED  BY <2>1, <2>2 DEF Climbs, DialogPlace, Opener
<1>13. CASE ConfirmMoves \/ ConfirmOk
  <2>1. UNCHANGED <<steps, modal>> /\ dlg'.kind = dlg.kind
    BY <1>13 DEF ConfirmMoves, ConfirmOk, OnlyWizard
  <2>. QED  BY <2>1, KeptClimbs
<1>14. CASE ConfirmTimer
  <2>1. In("confirm") /\ modal' = modal /\ TopStep(steps) = "MNEMONICS_CONFIRM"
    BY <1>14 DEF ConfirmTimer, In, OnlyWizard, DialogPlace, Opener
  <2>2. Onto("PASSWD_TIPS") \/ (UNCHANGED steps /\ dlg'.kind = "confirm")
    BY <1>14 DEF ConfirmTimer, Asks
  <2>. QED  BY <2>1, <2>2, OntoClimbs, KeptClimbs, WordSteps DEF In
<1>15. CASE RecoveryStarts
  <2>1. UNCHANGED <<steps, modal>> /\ dlg'.kind = "words"
    BY <1>15 DEF RecoveryStarts, WordsStart, Asking, OnlyWizard
  <2>2. modal = "guide" /\ TopStep(steps) = "ACCOUNT_RECOVERY"
    BY <1>15 DEF RecoveryStarts, At
  <2>. QED  BY <2>1, <2>2 DEF Climbs, DialogPlace
<1>16. CASE LetterTyped
  <2>1. UNCHANGED <<steps, modal>> /\ dlg'.kind = dlg.kind
    BY <1>16 DEF LetterTyped, OnlyWizard
  <2>. QED  BY <2>1, KeptClimbs
<1>17. CASE WordTyped \/ WordLeft
  <2>1. modal' = modal /\ (Off \/ (UNCHANGED steps /\ dlg'.kind = dlg.kind))
    BY <1>17 DEF WordTyped, WordLeft, In, Asking, OnlyWizard
  <2>. QED  BY <2>1, KeptClimbs, OffClimbs
<1>18. CASE RecoveryTyped
  <2>1. /\ modal' = modal /\ modal = "guide" /\ In("words")
        /\ Onto("PASSWD_TIPS") \/ (UNCHANGED steps /\ dlg'.kind = dlg.kind)
    BY <1>18 DEF RecoveryTyped, In, Asking, OnlyWizard
  <2>2. TopStep(steps) = "ACCOUNT_RECOVERY"
    BY <2>1 DEF In, DialogPlace, Wizards
  <2>. QED  BY <2>1, <2>2, KeptClimbs, OntoClimbs, WordSteps
<1>19. CASE PinStarts \/ PinTyped
  <2>1. UNCHANGED <<steps, modal>> /\ (dlg' = NoDialog \/ dlg'.kind \in {"pin", "store"})
    <3>1. CASE PinStarts
      BY <3>1 DEF PinStarts, OnlyWizard
    <3>2. CASE PinTyped
      <4>1. /\ UNCHANGED <<steps, modal>> /\ dlg.kind = "pin"
            /\ \/ \E p : dlg' = [dlg EXCEPT !.first = p] \/ dlg' = [kind |-> "store", pin |-> p]
               \/ dlg' = NoDialog
        BY <3>2 DEF PinTyped, In, OnlyWizard
      <4>. QED  BY <4>1
    <3>. QED  BY <1>19, <3>1, <3>2
  <2>2. modal = "guide" /\ TopStep(steps) = "ENTER_PASSWD"
    BY <1>19 DEF PinStarts, PinTyped, At, In, DialogPlace, Opener
  <2>. QED  BY <2>1, <2>2, ClosedPlace DEF Climbs, DialogPlace, Opener
<1>20. CASE Stored
  <2>1. UNCHANGED modal /\ (Stays \/ (UNCHANGED steps /\ dlg'.kind = "check"))
    BY <1>20 DEF Stored, OnlyWizard
  <2>2. modal = "guide" /\ TopStep(steps) = "ENTER_PASSWD"
    BY <1>20 DEF Stored, In, DialogPlace, Opener
  <2>. QED  BY <2>1, <2>2, OffClimbs DEF Climbs, DialogPlace, Opener
<1>21. CASE Verified
  <2>1. Onto("WALLET_NAME_TIPS") \/ Stays
    BY <1>21 DEF Verified
  <2>2. TopStep(steps) = "ENTER_PASSWD"
    BY <1>21 DEF Verified, In, DialogPlace, Opener
  <2>. QED  BY <2>1, <2>2, OntoClimbs, OffClimbs, WordSteps, HighSteps
<1>. QED  BY <1>1, <1>2, <1>3, <1>4, <1>5, <1>6, <1>7, <1>8, <1>9, <1>10, <1>11, <1>12, <1>13,
     <1>14, <1>15, <1>16, <1>17, <1>18, <1>19, <1>20, <1>21 DEF GuideStays

\* So does every step of the other wizards, but for the one that starts again with the words.
LEMMA WizardClimbs ==
  ASSUME StackInv, WizardsAside, WizardStays
  PROVE  (Climbs \/ Rising(steps')) /\ DialogPlace'
<1>. DialogPlace /\ "kind" \in DOMAIN dlg
  BY DEF StackInv, WizardsAside
<1>1. CASE WizardOnward
  BY <1>1, LeadsUp, OntoClimbs DEF WizardOnward
<1>2. CASE WizardBackward \/ PinRefused \/ PhraseLeft
  BY <1>2, OffClimbs DEF WizardBackward, PinRefused, PhraseLeft
<1>3. CASE ActionDetected
  <2>1. /\ TopStep(steps) = "ACTION_DETECTION" /\ dlg' = NoDialog
        /\ \E step \in {"SELECT_PASSPHRASE_TYPE", "ENTER_PASSWD"} : steps' = Push(Pop(steps), step)
    BY <1>3 DEF ActionDetected, Detected, InWizard, At
  <2>. QED  BY <2>1, SwapClimbs, LowSteps, WordSteps DEF NoStep
<1>4. CASE TypeSelected
  <2>1. TopStep(steps) = "SELECT_PASSPHRASE_TYPE" /\ Onto("ENTER_PASSWD")
    BY <1>4 DEF TypeSelected, InWizard, At
  <2>. QED  BY <2>1, OntoClimbs, LowSteps, WordSteps
<1>5. CASE PinPassed
  <2>1. TopStep(steps) = "ENTER_PASSWD" /\ dlg' = NoDialog /\ modal \in Wizards
        /\ steps' = Push(Pop(steps), AfterPin)
    BY <1>5 DEF PinPassed, InWizard, At
  <2>2. wiz.type \in {0, 1, 2}
    BY <2>1 DEF StackInv
  <2>3. AfterPin \in {"SELECT_MNEMONIC_CNT", "FIRST_USE_PASSPHRASE_TIPS", "SAVE_PASSPHRASE",
                      "ENTER_PASSPHRASE"}
    BY <2>2 DEF AfterPin
  <2>4. Level(TopStep(steps)) <= Level(AfterPin)
    BY <2>1, <2>3, WordSteps, HighSteps
  <2>. QED  BY <2>1, <2>4, SwapClimbs DEF NoStep
<1>6. CASE WizardCount
  <2>1. TopStep(steps) = "SELECT_MNEMONIC_CNT" /\ Onto("VERIFY_MNEMONIC_TIPS")
    BY <1>6 DEF WizardCount, InWizard, At
  <2>. QED  BY <2>1, OntoClimbs, HighSteps
<1>7. CASE VerifyStarts
  <2>1. UNCHANGED <<steps, modal>> /\ dlg'.kind = "words"
    BY <1>7 DEF VerifyStarts, WordsStart, Asking, OnlyWizard
  <2>2. modal \in Wizards /\ TopStep(steps) = "VERIFY_MNEMONIC"
    BY <1>7 DEF VerifyStarts, InWizard, At
  <2>. QED  BY <2>1, <2>2 DEF Climbs, DialogPlace
<1>8. CASE WordsDiffer
  <2>1. UNCHANGED <<steps, modal>> /\ dlg'.kind = dlg.kind
    BY <1>8 DEF WordsDiffer, Compared, In, Asking, OnlyWizard
  <2>. QED  BY <2>1, KeptClimbs
<1>9. CASE WordsKept
  <2>1. modal' = modal /\ \/ UNCHANGED steps /\ dlg'.kind = dlg.kind
                          \/ steps' = <<"PASSPHRASE_TIPS", "ENTER_PASSPHRASE">> /\ dlg' = NoDialog
    BY <1>9 DEF WordsKept, Compared, In, Asking, OnlyWizard
  <2>2. CASE UNCHANGED steps /\ dlg'.kind = dlg.kind
    BY <2>1, <2>2, KeptClimbs
  <2>3. CASE steps' = <<"PASSPHRASE_TIPS", "ENTER_PASSPHRASE">> /\ dlg' = NoDialog
    <3>1. /\ steps' \in Seq(Steps) /\ DOMAIN steps' = 1..2
          /\ steps'[1] = "PASSPHRASE_TIPS" /\ steps'[2] = "ENTER_PASSPHRASE"
      BY <2>3 DEF Steps
    <3>2. Rising(steps')
      BY <3>1, LowSteps, HighSteps DEF Rising
    <3>. QED  BY <2>3, <3>2, ClosedPlace
  <2>. QED  BY <2>1, <2>2, <2>3
<1>10. CASE PhraseStarts
  <2>1. UNCHANGED <<steps, modal>> /\ dlg'.kind = "phrase"
    BY <1>10 DEF PhraseStarts, OnlyWizard
  <2>2. modal = "phrase" /\ TopStep(steps) = "ENTER_PASSPHRASE"
    BY <1>10 DEF PhraseStarts, At
  <2>. QED  BY <2>1, <2>2 DEF Climbs, DialogPlace, Opener
<1>11. CASE PhraseTyped
  <2>1. UNCHANGED <<steps, modal>> /\ dlg'.kind = dlg.kind
    BY <1>11 DEF PhraseTyped, OnlyWizard
  <2>. QED  BY <2>1, KeptClimbs
<1>12. CASE PhraseConfirmed
  <2>1. TopStep(steps) = "ENTER_PASSPHRASE" /\ Onto("SAVE_PASSPHRASE")
    BY <1>12 DEF PhraseConfirmed, In, DialogPlace, Opener
  <2>. QED  BY <2>1, OntoClimbs, HighSteps
<1>13. CASE PhraseSaved
  <2>1. /\ TopStep(steps) = "SAVE_PASSPHRASE" /\ dlg = NoDialog
        /\ Off \/ (dlg' = dlg /\ (steps' = steps \/ steps' = Push(Pop(steps), "WALLET_NAME_TIPS")))
    BY <1>13 DEF PhraseSaved, At
  <2>2. CASE Off \/ (dlg' = dlg /\ steps' = steps)
    BY <2>1, <2>2, OffClimbs DEF Stays
  <2>3. CASE dlg' = dlg /\ steps' = Push(Pop(steps), "WALLET_NAME_TIPS")
    BY <2>1, <2>3, SwapClimbs, HighSteps DEF NoStep
  <2>. QED  BY <2>1, <2>2, <2>3
<1>. QED  BY <1>1, <1>2, <1>3, <1>4, <1>5, <1>6, <1>7, <1>8, <1>9, <1>10, <1>11, <1>12, <1>13
     DEF WizardStays

\* The locals of a wizard keep their fields.
LEMMA FieldsKept ==
  ASSUME StackInv, GuideStays \/ WizardStays, modal \in Wizards
  PROVE  WizardFields \subseteq DOMAIN wiz' /\ wiz'.type \in {0, 1, 2}
<1>. WizardFields \subseteq DOMAIN wiz /\ wiz.type \in {0, 1, 2}
  BY DEF StackInv
<1>1. CASE wiz' = wiz
  BY <1>1
<1>2. CASE GuideStays
  <2>1. CASE WordTyped \/ WordLeft
    BY <1>1, <2>1 DEF WordTyped, WordLeft
  <2>2. CASE ~(WordTyped \/ WordLeft)
    <3>1. modal = "guide" \/ dlg.kind \in {"active", "show", "confirm", "pin", "store", "check"}
      BY <1>2, <2>2 DEF GuideStays, Language, ActiveStarts, ActiveAnswer, Onward, Backward,
         AccountSelect, CountSelected, SechipChecked, Generated, WordsShown, PageTurned, WordsRead,
         WordsLeft, LastPage, ConfirmStarts, ConfirmMoves, SelectionFree, ConfirmOk, ConfirmTimer,
         ConfirmLeft, RecoveryStarts, LetterTyped, LettersShown, RecoveryTyped, PinStarts, PinTyped,
         PinLeft, Stored, Verified, At, In
    <3>. QED  BY <3>1 DEF StackInv, DialogPlace, Wizards
  <2>. QED  BY <2>1, <2>2
<1>3. CASE WizardStays
  <2>1. CASE WizardOnward \/ WizardBackward \/ PinRefused \/ VerifyStarts \/ WordsDiffer
             \/ PhraseLeft \/ PhraseSaved
    BY <1>1, <2>1 DEF WizardOnward, WizardBackward, PinRefused, VerifyStarts, WordsDiffer,
       PhraseLeft, PhraseSaved
  <2>2. CASE ActionDetected
    BY <2>2 DEF ActionDetected, WizardFields
  <2>3. CASE TypeSelected
    BY <2>3 DEF TypeSelected, WizardFields
  <2>4. CASE PinPassed
    BY <2>4 DEF PinPassed, WizardFields
  <2>5. CASE WizardCount
    BY <2>5 DEF WizardCount, WizardFields
  <2>6. CASE WordsKept
    BY <2>6 DEF WordsKept, WizardFields
  <2>7. CASE PhraseStarts \/ PhraseTyped \/ PhraseConfirmed
    BY <2>7 DEF PhraseStarts, PhraseTyped, PhraseConfirmed, WizardFields
  <2>. QED  BY <1>3, <2>1, <2>2, <2>3, <2>4, <2>5, <2>6, <2>7 DEF WizardStays
<1>. QED  BY <1>2, <1>3

LEMMA StaysKeepStack ==
  ASSUME StackInv, WizardsAside, GuideStays \/ WizardStays
  PROVE  StackInv'
<1>1. (Climbs \/ Rising(steps')) /\ DialogPlace'
  BY GuideClimbs, WizardClimbs
<1>2. Rising(steps')
  BY <1>1, ClimbsRises DEF StackInv
<1>3. modal' = modal
  BY GuideStaysAside, WizardStaysAside DEF OnlyWizard
<1>. QED  BY <1>1, <1>2, <1>3, FieldsKept DEF StackInv

-----------------------------------------------------------------------------
(* The other windows leave the wizards alone                                *)

\* The loops in which a dialog or the locals of a wizard matter
InLoop == {"guide", "phrase", "verify", "setting"}

LEMMA NoDialogOutside ==
  ASSUME DialogPlace, modal \notin InLoop
  PROVE  dlg.kind = "none"
BY DEF DialogPlace, InLoop, Wizards

\* What is outside the wizards leaves them as they are.
LEMMA OutsideWizards ==
  ASSUME WizardInv, UNCHANGED <<steps, wiz, dlg, chip, account>>,
         modal \notin InLoop, modal' \notin InLoop
  PROVE  StackInv' /\ GuideSeed' /\ SeedTypes' /\ GuideInv' /\ PhraseInv'
<1>1. dlg'.kind = "none" /\ modal' # "guide" /\ modal' \notin Wizards /\ modal' # "phrase"
  BY NoDialogOutside DEF WizardInv, StackInv, InLoop, Wizards
<1>2. StackInv' /\ GuideSeed'
  BY <1>1 DEF WizardInv, StackInv, DialogPlace, GuideSeed
<1>3. SeedTypes'
  <2>1. ~At("phrase", "SAVE_PASSPHRASE")
    BY DEF At, InLoop
  <2>. QED  BY <2>1 DEF WizardInv, SeedTypes
<1>4. GuideInv' /\ PhraseInv'
  BY <1>1 DEF GuideInv, PhraseInv, In
<1>. QED  BY <1>2, <1>3, <1>4

\* The loops the windows of a request go into
LEMMA OwnLoops ==
  ASSUME WindowsNext
  PROVE  modal' \in {"none", "select", "tips"} \cup RequestLoops
<1>1. CASE Posted \/ Plain \/ VerifyPause \/ VerifyCancel \/ VerifyDetails \/ ShowPause
           \/ ShowScroll \/ ShowBack \/ ShowRaw \/ RawPause \/ RawBack
  BY <1>1 DEF Posted, Plain, VerifyPause, VerifyCancel, VerifyDetails, ShowPause, ShowScroll,
     ShowBack, ShowRaw, RawPause, RawBack, Handles, Idle
<1>2. CASE VerifyResume \/ ShowResume \/ RawResume
  BY <1>2 DEF VerifyResume, VerifyOpens, ShowResume, RawResume, Handles, RequestLoops
<1>3. CASE SignKey \/ PinEntered \/ AnswerClosed \/ ErrorClosed
  BY <1>3 DEF SignKey, PinEntered, AnswerClosed, ErrorClosed, RequestLoops
<1>4. CASE BatchResume
  BY <1>4 DEF BatchResume, BatchParses, Handles, RequestLoops
<1>5. CASE BatchPause \/ BatchCancel \/ BatchSelect \/ BatchBack \/ BatchRaw
  BY <1>5 DEF BatchPause, BatchCancel, BatchSelect, BatchBack, BatchRaw, Handles, Idle
<1>6. CASE \E i \in Items : BatchDetail(i)
  BY <1>6 DEF BatchDetail, Idle, RequestLoops
<1>7. CASE BatchKey \/ BatchPin \/ BatchItem \/ BatchAnswer \/ BatchEnds
  BY <1>7 DEF BatchKey, BatchPin, BatchItem, BatchAnswer, BatchEnds, RequestLoops
<1>8. CASE HistoryResume \/ HistorySelect \/ HistoryTips \/ HistoryAgain
           \/ \E c \in txs : HistoryClick(c)
  BY <1>8 DEF HistoryResume, HistorySelect, HistoryTips, HistoryAgain, HistoryClick, Handles, Idle
<1>. QED  BY <1>1, <1>2, <1>3, <1>4, <1>5, <1>6, <1>7, <1>8 DEF WindowsNext

\* They lead from one of them to another or to the main panel.
LEMMA OwnMoves ==
  ASSUME WindowsInv, LoopPlace, WindowsNext
  PROVE  \/ cur' = cur
         \/ /\ cur \in Four \cup {"SIGN_HISTORY"}
            /\ cur' \in Four \cup {"MAINPANEL", "SIGN_HISTORY"}
<1>1. CASE \/ Plain \/ VerifyResume \/ VerifyPause \/ ShowResume \/ ShowPause \/ ShowScroll
           \/ RawResume \/ RawPause \/ SignKey \/ PinEntered \/ ErrorClosed \/ BatchResume
           \/ BatchPause \/ BatchSelect \/ BatchBack \/ BatchKey \/ BatchPin \/ BatchItem
           \/ BatchAnswer \/ HistoryResume \/ HistoryTips \/ HistoryAgain
           \/ \E i \in Items : BatchDetail(i)
  BY <1>1 DEF Plain, VerifyResume, VerifyPause, ShowResume, ShowPause, ShowScroll, RawResume,
     RawPause, SignKey, PinEntered, ErrorClosed, BatchResume, BatchPause, BatchSelect, BatchBack,
     BatchKey, BatchPin, BatchItem, BatchAnswer, HistoryResume, HistoryTips, HistoryAgain,
     BatchDetail, Handles
<1>2. CASE VerifyCancel \/ VerifyDetails \/ ShowBack \/ ShowRaw \/ BatchCancel \/ BatchRaw
           \/ BatchEnds
  BY <1>2 DEF VerifyCancel, VerifyDetails, ShowBack, ShowRaw, BatchCancel, BatchRaw, BatchEnds,
     ChangeWindow, Four
<1>3. CASE RawBack
  BY <1>3 DEF RawBack, ChangeWindow, Four, WindowsInv, WindowTypes, RawType
<1>4. CASE AnswerClosed
  <2>1. cur \in Four
    BY <1>4 DEF AnswerClosed, WindowsInv, QueueShape, RequestLoops
  <2>. QED  BY <1>4, <2>1 DEF AnswerClosed, ChangeWindow
<1>5. CASE HistorySelect \/ \E c \in txs : HistoryClick(c)
  BY <1>5 DEF HistorySelect, HistoryClick, LoopPlace, ChangeWindow, Four
<1>6. CASE Posted
  BY <1>6, QueueSends DEF WindowsInv, QueueShape, Four
<1>. QED  BY <1>1, <1>2, <1>3, <1>4, <1>5, <1>6 DEF WindowsNext

\* The list of the history is open in its window.
LEMMA OwnSelects ==
  ASSUME WindowsInv, WindowsNext, LoopPlace, modal' \in {"select", "tips"}
  PROVE  cur' = "SIGN_HISTORY"
<1>1. CASE HistoryResume \/ HistorySelect \/ HistoryTips \/ HistoryAgain
  <2>1. CASE HistoryResume
    BY <2>1, QueueResumes DEF HistoryResume, WindowsInv
  <2>2. CASE HistorySelect
    BY <2>2 DEF HistorySelect, LoopPlace
  <2>3. CASE HistoryTips \/ HistoryAgain
    BY <2>3 DEF HistoryTips, HistoryAgain, LoopPlace, Idle
  <2>. QED  BY <1>1, <2>1, <2>2, <2>3
<1>2. CASE Posted \/ Plain \/ VerifyPause \/ VerifyCancel \/ VerifyDetails \/ ShowPause
           \/ ShowScroll \/ ShowBack \/ ShowRaw \/ RawPause \/ RawBack
           \/ \E c \in txs : HistoryClick(c)
  BY <1>2 DEF Posted, Plain, VerifyPause, VerifyCancel, VerifyDetails, ShowPause, ShowScroll,
     ShowBack, ShowRaw, RawPause, RawBack, HistoryClick, Handles, Idle
<1>3. CASE VerifyResume \/ ShowResume \/ RawResume
  BY <1>3 DEF VerifyResume, VerifyOpens, ShowResume, RawResume, Handles
<1>4. CASE SignKey \/ PinEntered \/ AnswerClosed \/ ErrorClosed
  BY <1>4 DEF SignKey, PinEntered, AnswerClosed, ErrorClosed
<1>5. CASE BatchResume
  BY <1>5 DEF BatchResume, BatchParses, Handles
<1>6. CASE BatchPause \/ BatchCancel \/ BatchSelect \/ BatchBack \/ BatchRaw
           \/ \E i \in Items : BatchDetail(i)
  BY <1>6 DEF BatchPause, BatchCancel, BatchSelect, BatchBack, BatchRaw, BatchDetail, Handles, Idle
<1>7. CASE BatchKey \/ BatchPin \/ BatchItem \/ BatchAnswer \/ BatchEnds
  BY <1>7 DEF BatchKey, BatchPin, BatchItem, BatchAnswer, BatchEnds
<1>. QED  BY <1>1, <1>2, <1>3, <1>4, <1>5, <1>6, <1>7 DEF WindowsNext

\* The windows of a request
LEMMA WindowsBeside ==
  ASSUME WizardInv, SessionInv, Windows, UNCHANGED gvars
  PROVE  WizardInv'
<1>1. WindowsNext /\ WindowsInv /\ LoopPlace /\ req = Nothing /\ UNCHANGED <<req, page>>
  BY DEF Windows, WizardInv, SessionInv
<1>2. /\ modal \in {"none", "select", "tips"} \cup RequestLoops
      /\ modal' \in {"none", "select", "tips"} \cup RequestLoops
  BY <1>1, OwnDialogs, OwnLoops
<1>3. UNCHANGED <<steps, wiz, dlg, chip, account, from, qr, strayed>>
  BY DEF gvars
<1>4. StackInv' /\ GuideSeed' /\ SeedTypes' /\ GuideInv' /\ PhraseInv'
  BY <1>2, <1>3, OutsideWizards DEF InLoop, RequestLoops
<1>5. \/ cur' = cur
      \/ /\ cur \in Four \cup {"SIGN_HISTORY"}
         /\ cur' \in Four \cup {"MAINPANEL", "SIGN_HISTORY"}
  BY <1>1, OwnMoves
<1>6. LoopPlace'
  <2>1. modal' \in {"select", "tips"} => cur' = "SIGN_HISTORY"
    BY <1>1, OwnSelects
  <2>. QED  BY <1>2, <2>1 DEF LoopPlace, RequestLoops, Wizards
<1>7. SeedBehind'
  <2>1. modal # "reset" /\ modal # "guide" /\ modal' # "guide" /\ SeedBehind
    BY <1>2 DEF RequestLoops, WizardInv
  <2>2. CASE cur' = cur
    BY <1>1, <1>3, <2>1, <2>2 DEF SeedBehind
  <2>3. CASE cur \in Four \cup {"SIGN_HISTORY"} /\ cur' \in Four \cup {"MAINPANEL", "SIGN_HISTORY"}
    BY <1>1, <1>3, <2>1, <2>3 DEF SeedBehind, Four
  <2>. QED  BY <1>5, <2>2, <2>3
<1>. QED  BY <1>4, <1>6, <1>7 DEF WizardInv

\* The wallet a device may be started with, and its account, have their types.
LEMMA FirstChipType ==
  ASSUME NEW k \in BOOLEAN
  PROVE  FirstChip(k) \in ChipType /\ PinOk(FirstChip(k).pin) /\ FirstChip(k).pass = Nothing
<1>1. (CHOOSE m \in Mnemonics : TRUE) \in Mnemonics
  BY FirstAssumption
<1>2. (CHOOSE p \in Pins : PinOk(p)) \in Pins /\ PinOk(CHOOSE p \in Pins : PinOk(p))
  BY FirstAssumption
<1>. QED  BY <1>1, <1>2 DEF FirstChip, ChipType

LEMMA ChipsAreRecords ==
  /\ \A c \in ChipType : c # Nothing /\ AccountOf(c) \in AccountType /\ AccountOf(c) # Nothing
  /\ \A a \in AccountType : a # Nothing
<1>1. \A w \in Mnemonics, p \in Phrases \cup {Nothing}, pin \in Pins, k \in BOOLEAN :
        [words |-> w, pass |-> p, pin |-> pin, keeps |-> k] # Nothing
  BY RecordsAssumption
<1>2. \A w \in Mnemonics, p \in Phrases \cup {Nothing} : [words |-> w, pass |-> p] # Nothing
  BY RecordsAssumption
<1>3. \A c \in ChipType :
        /\ c = [words |-> c.words, pass |-> c.pass, pin |-> c.pin, keeps |-> c.keeps]
        /\ c.words \in Mnemonics /\ c.pass \in Phrases \cup {Nothing} /\ c.pin \in Pins
        /\ c.keeps \in BOOLEAN
  BY DEF ChipType
<1>4. \A a \in AccountType : /\ a = [words |-> a.words, pass |-> a.pass]
                             /\ a.words \in Mnemonics /\ a.pass \in Phrases \cup {Nothing}
  BY DEF AccountType
<1>5. \A c \in ChipType : c # Nothing
  BY <1>1, <1>3
<1>6. \A a \in AccountType : a # Nothing
  BY <1>2, <1>4
<1>7. \A c \in ChipType : AccountOf(c) \in AccountType
  BY <1>3 DEF AccountOf, AccountType
<1>. QED  BY <1>5, <1>6, <1>7

\* A device that signs has a wallet.
LEMMA SignableHas ==
  ASSUME Signable
  PROVE  account # Nothing
<1>1. chip \in ChipType
  BY FirstChipType DEF Signable
<1>. QED  BY <1>1, ChipsAreRecords DEF Signable

\* Nothing of the wizards runs while no dialog is open.
LEMMA Outside ==
  ASSUME Idle
  PROVE  modal = "none" /\ todo = << >> /\ modal \notin InLoop
BY DEF Idle, InLoop

LEMMA NothingIsNoPlace ==
  Nothing \notin {"MAINPANEL", "GUIDE"}
BY RecordsAssumption

\* The main panel
LEMMA PanelBeside ==
  ASSUME WizardInv, PanelScan \/ PanelHistory \/ PanelSetting
  PROVE  WizardInv'
<1>1. /\ Idle /\ cur = "MAINPANEL" /\ modal' = modal
      /\ UNCHANGED <<steps, wiz, dlg, chip, account, qr, strayed, req, page>>
      /\ req = Nothing
      /\ \/ cur' = "SCAN" /\ from' = "MAINPANEL"
         \/ cur' \in {"SIGN_HISTORY", "SETTING"} /\ from' = from
  <2>1. CASE PanelScan
    BY <2>1 DEF PanelScan, Scan, ChangeWindow
  <2>2. CASE PanelHistory
    BY <2>2 DEF PanelHistory, HistoryKey, ChangeWindow, gvars
  <2>3. CASE PanelSetting
    BY <2>3 DEF PanelSetting, Unscanned, ChangeWindow, gvars
  <2>. QED  BY <2>1, <2>2, <2>3
<1>2. StackInv' /\ GuideSeed' /\ SeedTypes' /\ GuideInv' /\ PhraseInv'
  BY <1>1, Outside, OutsideWizards
<1>3. LoopPlace'
  BY <1>1, Outside DEF LoopPlace, Wizards
<1>4. SeedBehind'
  BY <1>1, Outside DEF WizardInv, SeedBehind
<1>. QED  BY <1>2, <1>3, <1>4 DEF WizardInv

\* The scan window
LEMMA ScanBeside ==
  ASSUME WizardInv,
         ScanLeaves \/ ScanRequest \/ FirstGoes \/ ScanBad \/ ScanActivation \/ ScanPairing
  PROVE  WizardInv'
<1>1. /\ Idle /\ cur = "SCAN" /\ modal' = modal /\ from' = Nothing
      /\ UNCHANGED <<steps, wiz, dlg, chip, account, strayed>>
      /\ \/ cur' = from /\ UNCHANGED <<qr, req, page>> /\ req = Nothing
         \/ /\ cur' \in Four /\ qr' = qr /\ account # Nothing
            /\ req' = Nothing /\ (page' = Nothing \/ (page' = page /\ req = Nothing))
         \/ /\ cur' = "QRPROC" /\ (qr' = "active" => account = Nothing) /\ UNCHANGED <<req, page>>
            /\ req = Nothing /\ qr' # "none" /\ (qr' \in {"bind", "pubkey"} => account # Nothing)
  <2>1. CASE ScanLeaves
    BY <2>1 DEF ScanLeaves, ScanLeft, BackFrom, ChangeWindow
  <2>2. CASE ScanRequest
    <3>1. /\ Idle /\ cur = "SCAN" /\ modal' = modal /\ cur' \in Four
      BY <2>2 DEF ScanRequest, ScanSingle, ScanBatch, ChangeWindow, Four
    <3>. QED  BY <2>2, <3>1, SignableHas DEF ScanRequest
  <2>3. CASE FirstGoes
    <3>1. /\ Idle /\ cur = "SCAN" /\ modal' = modal /\ cur' \in Four
          /\ req' = Nothing /\ page' = Nothing
          /\ page # Nothing
      BY <2>3 DEF FirstGoes, Goes, ScanSingle, ChangeWindow, Four
    <3>. QED  BY <2>3, <3>1 DEF FirstGoes, WizardInv, SeedBehind
  <2>4. CASE ScanBad \/ ScanActivation \/ ScanPairing
    BY <2>4 DEF ScanBad, ScanActivation, ScanPairing, Unscanned, ChangeWindow
  <2>. QED  BY <2>1, <2>2, <2>3, <2>4
<1>2. StackInv' /\ GuideSeed' /\ SeedTypes' /\ GuideInv' /\ PhraseInv'
  BY <1>1, Outside, OutsideWizards
<1>3. LoopPlace'
  BY <1>1, Outside DEF LoopPlace, Wizards
<1>4. SeedBehind'
  <2>1. from \in {"MAINPANEL", "GUIDE"} /\ Nothing \notin {"MAINPANEL", "GUIDE"}
    BY <1>1, NothingIsNoPlace DEF WizardInv, SeedBehind
  <2>2. modal = "none" /\ SeedBehind
    BY <1>1, Outside DEF WizardInv
  <2>. QED  BY <1>1, <2>1, <2>2 DEF SeedBehind, Four
<1>. QED  BY <1>2, <1>3, <1>4 DEF WizardInv

\* The views of a request
LEMMA ViewBeside ==
  ASSUME WizardInv, ScanFirst \/ ViewRuns \/ UNCHANGED vars
  PROVE  WizardInv'
<1>1. /\ UNCHANGED <<cur, todo, modal>> /\ UNCHANGED gvars
      /\ \/ UNCHANGED <<req, page>>
         \/ page' = page /\ req = Nothing /\ page = Nothing /\ Idle /\ cur = "SCAN" /\ account # Nothing
         \/ req' = req /\ req # Nothing
  <2>1. CASE ScanFirst
    <3>1. account # Nothing /\ req = Nothing /\ Idle /\ cur = "SCAN"
      BY <2>1, SignableHas DEF ScanFirst, First
    <3>2. page = Nothing
      BY <3>1 DEF WizardInv, SeedBehind
    <3>. QED  BY <2>1, <3>1, <3>2 DEF ScanFirst, Called, wvars
  <2>2. CASE ViewRuns
    BY <2>2 DEF ViewRuns, Sums, Returns, Running, wvars
  <2>3. CASE UNCHANGED vars
    BY <2>3 DEF vars, svars, wvars
  <2>. QED  BY <2>1, <2>2, <2>3
<1>2. UNCHANGED <<steps, wiz, dlg, chip, account, from, qr, strayed>>
  BY <1>1 DEF gvars
<1>3. Idle' <=> Idle
  BY <1>1 DEF Idle
<1>4. StackInv' /\ GuideSeed' /\ LoopPlace'
  BY <1>1, <1>2 DEF WizardInv, StackInv, DialogPlace, GuideSeed, Made, In, LoopPlace
<1>5. SeedTypes' /\ PhraseInv'
  BY <1>1, <1>2 DEF WizardInv, SeedTypes, At, PhraseInv, AllFit, WordsKeptFor, PhraseDialog, In
<1>6. GuideInv'
  BY <1>1, <1>2 DEF WizardInv, GuideInv, AllEarned, GuideDialog, GuideAccount, In
<1>7. SeedBehind'
  BY <1>1, <1>2, <1>3 DEF WizardInv, SeedBehind
<1>. QED  BY <1>4, <1>5, <1>6, <1>7 DEF WizardInv

\* The window of what is not a request
LEMMA QrBeside ==
  ASSUME WizardInv, SessionInv,
         QrResumes \/ QrErrorClosed \/ QrActivates \/ QuietHandler
  PROVE  WizardInv'
<1>1. /\ UNCHANGED <<steps, wiz, dlg, chip, account, from, req, page>>
      /\ modal \in {"none", "qr"} /\ modal' \in {"none", "qr"} /\ ~Idle
      /\ \/ cur' = cur /\ UNCHANGED <<qr, strayed>>
         \/ /\ cur = "QRPROC" /\ cur' = "MAINPANEL"
            /\ strayed' = (strayed \/ account = Nothing) /\ qr' = "none"
         \/ cur = "QRPROC" /\ cur' = "GUIDE" /\ qr = "active" /\ qr' = "none" /\ strayed' = strayed
  <2>1. CASE QrResumes
    <3>1. cur = "QRPROC"
      BY <2>1, QueueResumes DEF QrResumes, SessionInv, WindowsInv
    <3>. QED  BY <2>1, <3>1 DEF QrResumes, Handles, gvars, Idle
  <2>2. CASE QrErrorClosed \/ QrActivates
    <3>1. modal = "qr" /\ qr # "none"
      BY <2>2 DEF QrErrorClosed, QrActivates
    <3>2. cur = "QRPROC" /\ ~Idle
      BY <3>1 DEF WizardInv, SeedBehind, Idle
    <3>. QED  BY <2>2, <3>2 DEF QrErrorClosed, QrActivates, ChangeWindow
  <2>3. CASE QuietHandler
    BY <2>3 DEF QuietHandler, Handles, gvars, Idle
  <2>. QED  BY <2>1, <2>2, <2>3
<1>2. StackInv' /\ GuideSeed' /\ SeedTypes' /\ GuideInv' /\ PhraseInv'
  BY <1>1, OutsideWizards DEF InLoop
<1>3. LoopPlace'
  BY <1>1 DEF LoopPlace, Wizards
<1>4. SeedBehind'
  <2>1. SeedBehind /\ req = Nothing /\ page = Nothing /\ req' = Nothing /\ page' = Nothing
    BY <1>1 DEF WizardInv, SeedBehind
  <2>2. CASE cur' = cur /\ UNCHANGED <<qr, strayed>>
    BY <1>1, <2>1, <2>2 DEF SeedBehind
  <2>3. CASE cur = "QRPROC" /\ cur' = "MAINPANEL" /\ strayed' = (strayed \/ account = Nothing)
             /\ qr' = "none"
    BY <1>1, <2>1, <2>3, NothingIsNoPlace DEF SeedBehind
  <2>4. CASE cur = "QRPROC" /\ cur' = "GUIDE" /\ qr = "active" /\ qr' = "none" /\ strayed' = strayed
    BY <1>1, <2>1, <2>4, NothingIsNoPlace DEF SeedBehind
  <2>. QED  BY <1>1, <2>2, <2>3, <2>4
<1>. QED  BY <1>2, <1>3, <1>4 DEF WizardInv

\* A power loss
LEMMA RestartBeside ==
  ASSUME WizardInv, Restart
  PROVE  WizardInv'
<1>1. /\ req = Nothing /\ UNCHANGED <<req, page>> /\ UNCHANGED chip
      /\ account' = IF chip # Nothing /\ account = AccountOf(chip) THEN account ELSE Nothing
      /\ cur' = BootWindow(account') /\ modal' = "none" /\ steps' = << >> /\ dlg' = NoDialog
      /\ from' = Nothing /\ qr' = "none" /\ strayed' = FALSE
  BY DEF Restart, Unscanned
<1>2. dlg'.kind = "none" /\ modal' # "guide" /\ modal' \notin Wizards /\ modal' # "phrase"
  BY <1>1 DEF NoDialog, Wizards
<1>3. StackInv'
  <2>1. Rising(steps')
    BY <1>1 DEF Rising
  <2>. QED  BY <1>1, <1>2, <2>1, ClosedPlace DEF StackInv
<1>4. SeedTypes'
  BY <1>1 DEF WizardInv, SeedTypes, AccountOf
<1>5. GuideInv' /\ PhraseInv' /\ GuideSeed'
  BY <1>2 DEF GuideInv, PhraseInv, GuideSeed, In
<1>6. LoopPlace' /\ SeedBehind'
  BY <1>1, <1>2, NothingIsNoPlace DEF LoopPlace, WizardInv, SeedBehind, BootWindow
<1>. QED  BY <1>3, <1>4, <1>5, <1>6 DEF WizardInv

-----------------------------------------------------------------------------
(* Wizards that begin and end                                               *)

\* A loop is over.
LEMMA LoopOver ==
  ASSUME Rising(steps'), modal' \in {"none", "reset"}, dlg'.kind = "none",
         modal' = "reset" => cur' = "SETTING"
  PROVE  StackInv' /\ LoopPlace' /\ GuideSeed' /\ GuideInv' /\ PhraseInv'
<1>1. StackInv'
  BY DEF StackInv, DialogPlace, Wizards
<1>. QED  BY <1>1 DEF LoopPlace, GuideSeed, GuideInv, PhraseInv, In, Wizards

\* An empty stack is in order.
LEMMA EmptyRises ==
  ASSUME NEW s, s = << >>
  PROVE  Rising(s)
BY DEF Rising

\* The records stay as they are outside the step that stores a passphrase.
LEMMA TypesKept ==
  ASSUME SeedTypes, UNCHANGED <<chip, account>>, ~At("phrase", "SAVE_PASSPHRASE")
  PROVE  SeedTypes'
BY DEF SeedTypes

\* The guide ends: the wallet is made, or the scan window is opened before it is.
LEMMA GuideOver ==
  ASSUME WizardInv, UNCHANGED <<req, page>>, ActiveScans \/ GuideDone
  PROVE  WizardInv'
<1>1. /\ modal = "guide" /\ steps' = << >> /\ modal' = "none" /\ dlg' = NoDialog
      /\ cur = "GUIDE" \/ (cur = "MAINPANEL" /\ strayed)
      /\ UNCHANGED <<chip, account, qr>>
  BY DEF ActiveScans, GuideDone, In, At, Ends, WizardInv, StackInv, DialogPlace, LoopPlace
<1>2. SeedTypes'
  BY <1>1, TypesKept DEF WizardInv, At
<1>3. SeedBehind /\ req = Nothing /\ page = Nothing /\ from = Nothing /\ qr = "none"
  BY <1>1 DEF WizardInv, SeedBehind
<1>4. SeedBehind'
  <2>1. CASE ActiveScans
    <3>1. cur' = "SCAN" /\ from' = cur /\ dlg.kind = "active" /\ strayed' = strayed
      BY <1>1, <2>1 DEF ActiveScans, ChangeWindow, In
    <3>2. account = Nothing
      <4>1. Level(TopStep(steps)) <= 1
        BY <3>1 DEF WizardInv, StackInv, DialogPlace
      <4>2. TopStep(steps) \notin Named
        BY <4>1, HighSteps DEF Named
      <4>3. ~Made
        BY <3>1, <4>2 DEF Made, In
      <4>. QED  BY <1>1, <4>3 DEF WizardInv, GuideSeed
    <3>. QED  BY <1>1, <1>3, <3>1, <3>2, NothingIsNoPlace DEF SeedBehind
  <2>2. CASE GuideDone
    <3>1. cur' = "MAINPANEL" /\ from' = from /\ TopStep(steps) \in Named
      BY <1>1, <2>2 DEF GuideDone, ChangeWindow, At, Named
    <3>2. account # Nothing
      BY <1>1, <3>1 DEF WizardInv, GuideSeed, Made
    <3>. QED  BY <1>1, <1>3, <3>1, <3>2, NothingIsNoPlace DEF SeedBehind
  <2>. QED  BY <2>1, <2>2
<1>5. Rising(steps') /\ dlg'.kind = "none"
  BY <1>1, EmptyRises DEF NoDialog
<1>6. StackInv' /\ LoopPlace' /\ GuideSeed' /\ GuideInv' /\ PhraseInv'
  BY <1>1, <1>5, LoopOver
<1>. QED  BY <1>2, <1>4, <1>6 DEF WizardInv

\* The stack a wizard starts with
LEMMA FirstSteps ==
  /\ TopStep(<<"LANG">>) = "LANG" /\ Rising(<<"LANG">>)
  /\ TopStep(<<"LANG", "DEVICE_ACTIVE">>) = "DEVICE_ACTIVE" /\ Rising(<<"LANG", "DEVICE_ACTIVE">>)
  /\ TopStep(<<"LANG", "KEY_INSTRUCTION">>) = "KEY_INSTRUCTION"
  /\ Rising(<<"LANG", "KEY_INSTRUCTION">>)
  /\ \A first \in {"PASSPHRASE_TIPS", "VERIFY_TIPS"} : Rising(<<first>>) /\ TopStep(<<first>>) = first
<1>1. \A x, y : /\ TopStep(<<x>>) = x /\ TopStep(<<x, y>>) = y
  BY DEF TopStep, Last
<1>2. \A x \in Steps : Level(x) = 1 => Rising(<<x>>)
  <2> SUFFICES ASSUME NEW x \in Steps, Level(x) = 1 PROVE Rising(<<x>>)
    OBVIOUS
  <2>1. <<x>> \in Seq(Steps) /\ DOMAIN <<x>> = 1..1 /\ <<x>>[1] = x
    OBVIOUS
  <2>. QED  BY <2>1 DEF Rising
<1>3. \A x, y \in Steps : Level(x) = 1 /\ Level(y) \in {2, 3} => Rising(<<x, y>>)
  <2> SUFFICES ASSUME NEW x \in Steps, NEW y \in Steps, Level(x) = 1, Level(y) \in {2, 3}
               PROVE Rising(<<x, y>>)
    OBVIOUS
  <2>1. <<x, y>> \in Seq(Steps) /\ DOMAIN <<x, y>> = 1..2 /\ <<x, y>>[1] = x /\ <<x, y>>[2] = y
    OBVIOUS
  <2>. QED  BY <2>1 DEF Rising
<1>4. /\ "LANG" \in Steps /\ "DEVICE_ACTIVE" \in Steps /\ "KEY_INSTRUCTION" \in Steps
      /\ "PASSPHRASE_TIPS" \in Steps /\ "VERIFY_TIPS" \in Steps
  BY DEF Steps
<1>. QED  BY <1>1, <1>2, <1>3, <1>4, LowSteps

\* The guide opens on a device without a wallet.
LEMMA GuideFresh ==
  ASSUME GuideOpens, dlg'.kind = "none", account' = Nothing
  PROVE  StackInv' /\ GuideSeed' /\ GuideInv' /\ PhraseInv'
<1>1. /\ modal' = "guide" /\ wiz' = GuideLocals
      /\ steps' \in {<<"LANG">>, <<"LANG", "DEVICE_ACTIVE">>, <<"LANG", "KEY_INSTRUCTION">>}
  BY DEF GuideOpens
<1>2. Rising(steps') /\ TopStep(steps') \in {"LANG", "DEVICE_ACTIVE", "KEY_INSTRUCTION"}
  BY <1>1, FirstSteps
<1>3. StackInv'
  BY <1>1, <1>2 DEF StackInv, DialogPlace, Wizards
<1>4. GuideSeed'
  BY <1>1, <1>2 DEF GuideSeed, Made, Named, In, Wizards
<1>5. GuideInv'
  <2>1. wiz' \in GuideType
    BY <1>1 DEF GuideLocals, GuideType
  <2>2. \A i \in DOMAIN steps' : steps'[i] \in {"LANG", "DEVICE_ACTIVE", "KEY_INSTRUCTION"}
    BY <1>1
  <2>3. AllEarned'
    BY <2>2, LowSteps DEF AllEarned, Earned
  <2>4. GuideDialog'
    BY DEF GuideDialog, In
  <2>. QED  BY <1>1, <2>1, <2>3, <2>4 DEF GuideInv, GuideAccount
<1>6. PhraseInv'
  BY <1>1 DEF PhraseInv, In
<1>. QED  BY <1>3, <1>4, <1>5, <1>6

\* It begins when its window is shown.
LEMMA GuideBegins ==
  ASSUME WizardInv, SessionInv, GuideStarts, UNCHANGED <<req, page>>
  PROVE  WizardInv'
<1>1. /\ cur = "GUIDE" /\ cur' = "GUIDE" /\ modal = "none" /\ modal' = "guide"
      /\ GuideOpens /\ strayed' = FALSE /\ UNCHANGED <<dlg, chip, account, from, qr>> /\ ~Idle
  <2>1. cur = "GUIDE" /\ cur' = "GUIDE"
    BY QueueResumes DEF GuideStarts, SessionInv, WindowsInv
  <2>2. modal = "none" /\ todo # << >>
    BY DEF GuideStarts, Handles
  <2>. QED  BY <2>1, <2>2 DEF GuideStarts, GuideOpens, Idle
<1>2. dlg'.kind = "none"
  BY <1>1, NoDialogOutside DEF WizardInv, StackInv, InLoop
<1>3. account = Nothing /\ req = Nothing /\ page = Nothing /\ SeedBehind
  BY <1>1 DEF WizardInv, SeedBehind
<1>4. StackInv' /\ GuideSeed' /\ GuideInv' /\ PhraseInv'
  BY <1>1, <1>2, <1>3, GuideFresh
<1>5. LoopPlace'
  BY <1>1 DEF LoopPlace, Wizards
<1>6. SeedBehind'
  BY <1>1, <1>3, NothingIsNoPlace DEF SeedBehind
<1>7. SeedTypes'
  BY <1>1, TypesKept DEF WizardInv, At
<1>. QED  BY <1>4, <1>5, <1>6, <1>7 DEF WizardInv

\* A PIN wrong too often outside of the wizards: the guide opens over the main panel.
LEMMA PanelAnywayBeside ==
  ASSUME WizardInv, HistoryErases \/ BindErases
  PROVE  WizardInv'
<1>1. /\ modal \in {"select", "qr"} /\ modal' = "guide" /\ cur' = "MAINPANEL" /\ GuideOpens
      /\ chip' = Nothing /\ account' = Nothing /\ strayed' = TRUE
      /\ UNCHANGED <<dlg, from, req, page>> /\ ~Idle
      /\ cur # "SCAN" /\ qr' = "none"
  <2>1. CASE HistoryErases
    <3>1. cur = "SIGN_HISTORY" /\ qr = "none"
      BY <2>1 DEF HistoryErases, WizardInv, LoopPlace, SeedBehind
    <3>. QED  BY <2>1, <3>1 DEF HistoryErases, PanelAnyway, Erased, GuideOpens, Idle
  <2>2. CASE BindErases
    <3>1. cur = "QRPROC"
      BY <2>2 DEF BindErases, Pairing, WizardInv, SeedBehind
    <3>. QED  BY <2>2, <3>1 DEF BindErases, Pairing, PanelAnyway, Erased, GuideOpens, Idle
  <2>. QED  BY <2>1, <2>2
<1>2. dlg'.kind = "none"
  BY <1>1, NoDialogOutside DEF WizardInv, StackInv, InLoop
<1>3. from = Nothing /\ req = Nothing /\ page = Nothing
  BY <1>1 DEF WizardInv, SeedBehind
<1>4. StackInv' /\ GuideSeed' /\ GuideInv' /\ PhraseInv'
  BY <1>1, <1>2, GuideFresh
<1>5. LoopPlace'
  BY <1>1 DEF LoopPlace, Wizards
<1>6. SeedBehind'
  BY <1>1, <1>3, NothingIsNoPlace DEF SeedBehind
<1>7. SeedTypes'
  BY <1>1 DEF SeedTypes
<1>. QED  BY <1>4, <1>5, <1>6, <1>7 DEF WizardInv

\* The same while a phone asks for public keys, and what pairing ends with otherwise
LEMMA PairingBeside ==
  ASSUME WizardInv, QrAnswers \/ QrLeft \/ PubkeyErases
  PROVE  WizardInv'
<1>1. /\ modal \in {"none", "qr"} /\ modal' = "none" /\ cur = "QRPROC" /\ qr' = "none"
      /\ UNCHANGED <<steps, dlg, from, strayed, req, page>> /\ req = Nothing
      /\ \/ UNCHANGED <<wiz, chip, account>> /\ account # Nothing /\ cur' \in {"MAINPANEL", "QRPROC"}
         \/ chip' = Nothing /\ account' = Nothing /\ cur' = "GUIDE"
  <2>1. CASE QrAnswers \/ PubkeyErases
    <3>1. modal = "qr" /\ qr \in {"bind", "pubkey"} /\ ~Idle
      BY <2>1 DEF QrAnswers, PubkeyErases, Pairing, Idle
    <3>2. cur = "QRPROC" /\ account # Nothing /\ req = Nothing
      BY <3>1 DEF WizardInv, SeedBehind
    <3>. QED  BY <2>1, <3>1, <3>2 DEF QrAnswers, PubkeyErases, Erased, ChangeWindow
  <2>2. CASE QrLeft
    <3>1. cur = "QRPROC" /\ qr = "none" /\ modal = "none" /\ req = Nothing
      BY <2>2 DEF QrLeft, Idle
    <3>2. account # Nothing
      BY <3>1 DEF WizardInv, SeedBehind
    <3>. QED  BY <2>2, <3>1, <3>2 DEF QrLeft, ChangeWindow, gvars
  <2>. QED  BY <2>1, <2>2
<1>2. Rising(steps') /\ dlg'.kind = "none"
  BY <1>1, NoDialogOutside DEF WizardInv, StackInv, InLoop
<1>3. StackInv' /\ LoopPlace' /\ GuideSeed' /\ GuideInv' /\ PhraseInv'
  BY <1>1, <1>2, LoopOver
<1>4. SeedTypes'
  <2>1. CASE chip' = Nothing /\ account' = Nothing
    BY <2>1 DEF SeedTypes
  <2>. QED  BY <1>1, <2>1, TypesKept DEF WizardInv, At
<1>5. SeedBehind'
  <2>1. from = Nothing /\ page = Nothing
    BY <1>1 DEF WizardInv, SeedBehind
  <2>. QED  BY <1>1, <2>1, NothingIsNoPlace DEF SeedBehind
<1>. QED  BY <1>3, <1>4, <1>5 DEF WizardInv

LEMMA WizardBegins ==
  ASSUME WizardInv, SessionInv, UNCHANGED <<req, page>>, NEW window, NEW wizard, NEW first,
         WizardStarts(window, wizard, first), window \in {"PASSPHRASE", "VERIFY"},
         wizard \in Wizards, first \in {"PASSPHRASE_TIPS", "VERIFY_TIPS"}
  PROVE  WizardInv'
<1>1. /\ cur \in {"PASSPHRASE", "VERIFY"} /\ cur' = cur /\ modal = "none" /\ modal' \in Wizards
      /\ UNCHANGED <<dlg, chip, account, from, qr, strayed>> /\ ~Idle
  <2>1. cur = window /\ cur' = cur
    BY QueueResumes DEF WizardStarts, SessionInv, WindowsInv
  <2>2. modal = "none" /\ todo # << >>
    BY DEF WizardStarts, Handles
  <2>. QED  BY <2>1, <2>2 DEF WizardStarts, Idle
<1>2. dlg.kind = "none" /\ dlg'.kind = "none"
  BY <1>1, NoDialogOutside DEF WizardInv, StackInv, InLoop
<1>3. req = Nothing /\ page = Nothing /\ SeedBehind
  BY <1>1 DEF WizardInv, SeedBehind
<1>4. PICK have \in BOOLEAN : /\ wiz' = WizardLocals(have)
                              /\ \/ steps' = << >> /\ have = FALSE
                                 \/ /\ steps' = <<first>> /\ have = chip.keeps
                                    /\ chip # Nothing
  <2>1. chip # Nothing => chip.keeps \in BOOLEAN
    BY DEF WizardInv, SeedTypes, ChipType
  <2>. QED  BY <2>1 DEF WizardStarts
<1>5. /\ WizardFields \subseteq DOMAIN wiz' /\ wiz'.type = 0 /\ wiz'.have = have
  BY <1>4 DEF WizardLocals, WizardFields
<1>6. Rising(steps')
  BY <1>4, EmptyRises, FirstSteps
<1>7. StackInv' /\ LoopPlace'
  BY <1>1, <1>2, <1>5, <1>6 DEF StackInv, DialogPlace, LoopPlace, Wizards
<1>8. SeedBehind'
  BY <1>1, <1>3 DEF SeedBehind
<1>9. GuideSeed' /\ GuideInv'
  BY <1>1, <1>4 DEF GuideSeed, GuideInv, Wizards
<1>10. SeedTypes'
  BY <1>1, TypesKept DEF WizardInv, At
<1>11. PhraseInv'
  <2>1. \A i \in DOMAIN steps' : steps'[i] \in {"PASSPHRASE_TIPS", "VERIFY_TIPS"}
    BY <1>4
  <2>2. wiz'.type = 2 \/ wiz'.have => chip' # Nothing /\ chip'.keeps
    <3>1. wiz'.type # 2 /\ (wiz'.have => have)
      BY <1>5
    <3>2. have => chip # Nothing /\ chip.keeps
      BY <1>4
    <3>. QED  BY <1>1, <3>1, <3>2
  <2>. QED  BY <1>2, <2>1, <2>2 DEF PhraseInv, AllFit, Fits, WordsKeptFor, PhraseDialog, In
<1>. QED  BY <1>7, <1>8, <1>9, <1>10, <1>11 DEF WizardInv

\* The wizards of a device with a wallet end.
LEMMA WizardOver ==
  ASSUME WizardInv, UNCHANGED <<req, page>>, WizardLeft \/ PinErases \/ WordsVerified \/ PhraseDone
  PROVE  WizardInv'
<1>1. /\ modal \in Wizards /\ steps' = << >> /\ modal' = "none" /\ dlg' = NoDialog
      /\ UNCHANGED <<from, qr, strayed>> /\ ~Idle
      /\ ~At("phrase", "SAVE_PASSPHRASE")
      /\ \/ cur' = "GUIDE" /\ chip' = Nothing /\ account' = Nothing
         \/ cur' \in {"SETTING", "MAINPANEL"} /\ UNCHANGED <<chip, account>>
  <2>1. CASE WizardLeft
    BY <2>1 DEF WizardLeft, InWizard, At, Ends, ChangeWindow, Idle, Wizards, NoStep
  <2>2. CASE PinErases
    BY <2>2 DEF PinErases, InWizard, At, Ends, ChangeWindow, Idle, Wizards, Erased
  <2>3. CASE WordsVerified
    BY <2>3 DEF WordsVerified, Compared, At, In, Ends, ChangeWindow, Idle, Wizards, NoDialog
  <2>4. CASE PhraseDone
    BY <2>4 DEF PhraseDone, At, Ends, ChangeWindow, Idle, Wizards
  <2>. QED  BY <2>1, <2>2, <2>3, <2>4
<1>2. SeedTypes'
  <2>1. CASE chip' = Nothing /\ account' = Nothing
    BY <2>1 DEF SeedTypes
  <2>. QED  BY <1>1, <2>1, TypesKept DEF WizardInv
<1>3. SeedBehind /\ req = Nothing /\ page = Nothing /\ cur \in {"PASSPHRASE", "VERIFY"}
  BY <1>1 DEF WizardInv, SeedBehind, LoopPlace
<1>4. SeedBehind'
  <2>1. from = Nothing /\ qr = "none" /\ (account # Nothing \/ strayed)
    BY <1>1, <1>3 DEF SeedBehind, Wizards
  <2>. QED  BY <1>1, <1>3, <2>1, NothingIsNoPlace DEF SeedBehind
<1>5. Rising(steps') /\ dlg'.kind = "none"
  BY <1>1, EmptyRises DEF NoDialog
<1>6. StackInv' /\ LoopPlace' /\ GuideSeed' /\ GuideInv' /\ PhraseInv'
  BY <1>1, <1>5, LoopOver
<1>. QED  BY <1>2, <1>4, <1>6 DEF WizardInv

-----------------------------------------------------------------------------
(* The settings                                                             *)

\* The settings, a reset, and the last wrong PIN
LEMMA SettingsOver ==
  ASSUME WizardInv, UNCHANGED <<req, page>>,
         SettingLeft \/ ResetStarts \/ ResetDone \/ ResetLeft \/ ChangeErases
  PROVE  WizardInv'
<1>1. /\ cur = "SETTING" /\ modal \in {"none", "reset", "setting"} /\ UNCHANGED <<steps, from, qr>>
      /\ dlg'.kind = "none" /\ modal' \in {"none", "reset"} /\ (modal' = "reset" => cur' = "SETTING")
      /\ \/ UNCHANGED <<chip, account, strayed>> /\ modal # "reset"
         \/ UNCHANGED <<chip, account>> /\ strayed' = (strayed \/ account = Nothing)
         \/ chip' = Nothing /\ account' = Nothing /\ strayed' = strayed
            /\ (cur' = "GUIDE" \/ modal' = "reset")
      /\ \/ cur' = cur
         \/ cur' \in {"MAINPANEL", "PASSPHRASE", "VERIFY"} /\ UNCHANGED <<chip, account, strayed>>
            /\ modal # "reset"
         \/ cur' = "GUIDE" /\ account' = Nothing
  <2>1. CASE SettingLeft
    <3>1. cur = "SETTING" /\ modal = "none" /\ dlg.kind = "none"
      BY <2>1, NoDialogOutside DEF SettingLeft, Settings, Idle, InLoop, WizardInv, StackInv
    <3>. QED  BY <2>1, <3>1 DEF SettingLeft, ChangeWindow, gvars
  <2>2. CASE ResetStarts
    <3>1. cur = "SETTING" /\ modal = "none" /\ dlg.kind = "none"
      BY <2>2, NoDialogOutside DEF ResetStarts, Settings, Idle, InLoop, WizardInv, StackInv
    <3>. QED  BY <2>2, <3>1 DEF ResetStarts, gvars
  <2>3. CASE ResetDone \/ ResetLeft
    <3>1. modal = "reset" /\ cur = "SETTING" /\ dlg.kind = "none"
      BY <2>3, NoDialogOutside DEF ResetDone, ResetLeft, InLoop, WizardInv, StackInv, LoopPlace
    <3>2. CASE ResetDone
      BY <3>1, <3>2 DEF ResetDone, Erased, ChangeWindow
    <3>3. CASE ResetLeft
      BY <3>1, <3>3 DEF ResetLeft
    <3>. QED  BY <2>3, <3>2, <3>3
  <2>4. CASE ChangeErases
    <3>1. modal = "setting" /\ cur = "SETTING"
      BY <2>4 DEF ChangeErases, In, WizardInv, StackInv, DialogPlace, LoopPlace
    <3>. QED  BY <2>4, <3>1 DEF ChangeErases, Erased, ChangeWindow, NoDialog
  <2>. QED  BY <2>1, <2>2, <2>3, <2>4
<1>2. Rising(steps')
  BY <1>1 DEF WizardInv, StackInv
<1>3. StackInv' /\ LoopPlace' /\ GuideSeed' /\ GuideInv' /\ PhraseInv'
  BY <1>1, <1>2, LoopOver
<1>4. SeedTypes'
  <2>1. CASE chip' = Nothing /\ account' = Nothing
    BY <2>1 DEF SeedTypes
  <2>. QED  BY <1>1, <2>1, TypesKept DEF WizardInv, At
<1>5. SeedBehind'
  <2>1. SeedBehind /\ req = Nothing /\ page = Nothing /\ from = Nothing /\ qr = "none"
    BY <1>1 DEF WizardInv, SeedBehind
  <2>2. account' = Nothing /\ ~strayed' => cur' = "GUIDE" \/ modal' = "reset"
    BY <1>1, <2>1 DEF SeedBehind
  <2>3. cur' = "GUIDE" => account' = Nothing
    BY <1>1
  <2>4. cur' # "SCAN" /\ req' = Nothing /\ page' = Nothing
    BY <1>1, <2>1
  <2>. QED  BY <1>1, <2>1, <2>2, <2>3, <2>4, NothingIsNoPlace DEF SeedBehind
<1>. QED  BY <1>3, <1>4, <1>5 DEF WizardInv

\* The change of the PIN
LEMMA ChangeGoesOn ==
  ASSUME WizardInv, SessionInv, UNCHANGED <<req, page>>, ChangeStarts \/ ChangeTyped \/ ChangeEnds
  PROVE  WizardInv'
<1>1. /\ cur = "SETTING" /\ cur' = cur /\ UNCHANGED <<steps, account, from, qr, strayed>>
      /\ modal \in {"none", "setting"} /\ modal' \in {"none", "setting"}
      /\ dlg'.kind \in {"none", "change"} /\ (dlg'.kind = "change" => modal' = "setting")
  <2>1. CASE ChangeStarts
    BY <2>1 DEF ChangeStarts, Settings, Idle
  <2>2. CASE ChangeTyped
    <3>1. modal = "setting" /\ cur = "SETTING"
      BY <2>2 DEF ChangeTyped, In, WizardInv, StackInv, DialogPlace, LoopPlace
    <3>2. dlg.kind = "change" /\ dlg'.kind = dlg.kind
      <4>1. dlg.kind = "change" /\ \/ dlg' = [dlg EXCEPT !.old = TRUE]
                                   \/ \E x : dlg' = [dlg EXCEPT !.first = x]
        BY <2>2 DEF ChangeTyped, In
      <4>2. "kind" \in DOMAIN dlg
        BY DEF SessionInv, WizardsAside
      <4>. QED  BY <4>1, <4>2
    <3>. QED  BY <2>2, <3>1, <3>2 DEF ChangeTyped
  <2>3. CASE ChangeEnds
    <3>1. modal = "setting" /\ cur = "SETTING"
      BY <2>3 DEF ChangeEnds, In, WizardInv, StackInv, DialogPlace, LoopPlace
    <3>. QED  BY <2>3, <3>1 DEF ChangeEnds, NoDialog
  <2>. QED  BY <2>1, <2>2, <2>3
<1>2. StackInv' /\ LoopPlace' /\ GuideSeed' /\ GuideInv'
  BY <1>1 DEF WizardInv, StackInv, DialogPlace, LoopPlace, GuideSeed, GuideInv, Wizards
<1>3. SeedBehind'
  <2>1. SeedBehind /\ page = Nothing /\ req = Nothing
    <3>1. req = Nothing
      BY <1>1 DEF WizardInv, SeedBehind
    <3>. QED  BY <3>1 DEF WizardInv, SeedBehind
  <2>. QED  BY <1>1, <2>1 DEF SeedBehind
<1>4. SeedTypes' /\ (modal' = "setting" => UNCHANGED chip)
  <2>1. CASE UNCHANGED chip
    BY <1>1, <2>1, TypesKept DEF WizardInv, At
  <2>2. CASE chip' # chip
    <3>1. ChangeEnds /\ dlg.first # Nothing /\ chip' = [chip EXCEPT !.pin = dlg.first] /\ In("change")
      BY <2>2 DEF ChangeStarts, ChangeTyped, ChangeEnds
    <3>2. chip # Nothing /\ dlg.first \in Pins /\ PinOk(dlg.first)
      BY <3>1 DEF WizardInv, PhraseInv
    <3>3. chip \in ChipType
      BY <3>2 DEF WizardInv, SeedTypes
    <3>4. /\ chip' \in ChipType /\ chip'.pin = dlg.first /\ chip'.words = chip.words
          /\ chip'.pass = chip.pass /\ chip'.keeps = chip.keeps
      BY <3>1, <3>2, <3>3 DEF ChipType
    <3>5. AccountOf(chip)' = AccountOf(chip)
      BY <3>4 DEF AccountOf
    <3>6. ~At("phrase", "SAVE_PASSPHRASE") /\ modal' = "none"
      BY <1>1, <3>1 DEF At, ChangeEnds
    <3>7. SeedTypes'
      <4>1. chip' # Nothing /\ PinOk(chip'.pin) /\ account' = account /\ SeedTypes
        BY <1>1, <3>2, <3>4, ChipsAreRecords DEF WizardInv
      <4>2. account # Nothing => chip.words = account.words /\ AccountOf(chip) = account
        BY <3>6, <4>1 DEF SeedTypes
      <4>. QED  BY <3>2, <3>4, <3>5, <4>1, <4>2 DEF SeedTypes
    <3>. QED  BY <3>6, <3>7
  <2>. QED  BY <2>1, <2>2
<1>5. PhraseInv'
  <2>1. modal' # "phrase"
    BY <1>1
  <2>2. CASE ChangeStarts
    <3>1. /\ dlg' = [kind |-> "change", old |-> FALSE, first |-> Nothing]
      BY <2>2 DEF ChangeStarts
    <3>. QED  BY <2>1, <3>1 DEF PhraseInv
  <2>3. CASE ChangeTyped
    <3>1. /\ {"old", "first"} \subseteq DOMAIN dlg /\ dlg.old \in BOOLEAN /\ (dlg.old => chip # Nothing)
          /\ dlg.first # Nothing => dlg.old /\ dlg.first \in Pins /\ PinOk(dlg.first)
      BY <2>3 DEF ChangeTyped, WizardInv, PhraseInv
    <3>2. chip' = chip
      BY <2>3 DEF ChangeTyped
    <3>3. CASE ~dlg.old /\ chip # Nothing /\ dlg' = [dlg EXCEPT !.old = TRUE]
      <4>1. dlg'.old = TRUE /\ dlg'.first = dlg.first /\ DOMAIN dlg' = DOMAIN dlg
        BY <3>1, <3>3
      <4>. QED  BY <2>1, <3>1, <3>2, <3>3, <4>1 DEF PhraseInv
    <3>4. CASE /\ dlg.old
               /\ \E p \in Pins : /\ NewPin(p) /\ p # dlg.first
                                  /\ dlg' = [dlg EXCEPT !.first = IF @ = Nothing THEN p ELSE Nothing]
      <4>1. PICK p \in Pins : /\ NewPin(p)
                              /\ dlg' = [dlg EXCEPT !.first = IF @ = Nothing THEN p ELSE Nothing]
        BY <3>4
      <4>2. PinOk(p)
        BY <4>1 DEF NewPin
      <4>3. dlg'.old = dlg.old /\ dlg'.first \in {p, Nothing} /\ DOMAIN dlg' = DOMAIN dlg
        BY <3>1, <4>1
      <4>. QED  BY <2>1, <3>1, <3>2, <3>4, <4>2, <4>3 DEF PhraseInv
    <3>. QED  BY <2>3, <3>3, <3>4 DEF ChangeTyped
  <2>4. CASE ChangeEnds
    BY <2>1, <2>4 DEF ChangeEnds, NoDialog, PhraseInv, In
  <2>. QED  BY <2>2, <2>3, <2>4
<1>. QED  BY <1>2, <1>3, <1>4, <1>5 DEF WizardInv

-----------------------------------------------------------------------------
(* The steps of the guide before the wallet is made                         *)

\* A step of the guide is in the guide, but for the typing of words, which the wizards share.
LEMMA GuidePlace ==
  ASSUME StackInv, GuideStays
  PROVE  modal = "guide" \/ (modal \in Wizards /\ In("words"))
<1>1. CASE WordTyped \/ WordLeft
  BY <1>1 DEF WordTyped, WordLeft, In, StackInv, DialogPlace
<1>2. CASE ~(WordTyped \/ WordLeft)
  <2>1. modal = "guide" \/ dlg.kind \in {"active", "show", "confirm", "pin", "store", "check"}
    BY <1>2 DEF GuideStays, Language, ActiveStarts, ActiveAnswer, Onward, Backward,
       AccountSelect, CountSelected, SechipChecked, Generated, WordsShown, PageTurned, WordsRead,
       WordsLeft, LastPage, ConfirmStarts, ConfirmMoves, SelectionFree, ConfirmOk, ConfirmTimer,
       ConfirmLeft, RecoveryStarts, LetterTyped, LettersShown, RecoveryTyped, PinStarts, PinTyped,
       PinLeft, Stored, Verified, At, In
  <2>. QED  BY <2>1 DEF StackInv, DialogPlace
<1>. QED  BY <1>1, <1>2

\* The steps of the other wizards are in them.
LEMMA WizardPlace ==
  ASSUME StackInv, WizardStays
  PROVE  modal \in Wizards
BY DEF WizardStays, WizardOnward, WizardBackward, ActionDetected, TypeSelected, PinPassed,
   PinRefused, WizardCount, VerifyStarts, WordsDiffer, WordsKept, Compared, PhraseStarts,
   PhraseTyped, PhraseConfirmed, PhraseLeft, PhraseSaved, InWizard, At, In, Wizards, StackInv,
   DialogPlace

\* None of them is about the scan window or its codes.
LEMMA StaysQuiet ==
  ASSUME GuideStays \/ WizardStays
  PROVE  UNCHANGED <<from, qr, strayed>>
<1>1. CASE Language \/ ActiveStarts \/ ActiveAnswer \/ Onward \/ Backward \/ AccountSelect
           \/ CountSelected \/ SechipChecked \/ Generated \/ WordsShown \/ PageTurned \/ WordsRead
           \/ WordsLeft
  BY <1>1 DEF Language, ActiveStarts, ActiveAnswer, Onward, Backward, AccountSelect,
     CountSelected, SechipChecked, Generated, WordsShown, PageTurned, WordsRead, WordsLeft
<1>2. CASE ConfirmStarts \/ ConfirmMoves \/ ConfirmOk \/ ConfirmTimer \/ ConfirmLeft
           \/ RecoveryStarts \/ LetterTyped \/ WordTyped \/ WordLeft \/ RecoveryTyped
           \/ PinStarts \/ PinTyped \/ PinLeft \/ Stored \/ Verified
  BY <1>2 DEF ConfirmStarts, ConfirmMoves, ConfirmOk, ConfirmTimer, ConfirmLeft, RecoveryStarts,
     LetterTyped, WordTyped, WordLeft, RecoveryTyped, PinStarts, PinTyped, PinLeft, Stored, Verified
<1>3. CASE WizardStays
  BY <1>3 DEF WizardStays, WizardOnward, WizardBackward, ActionDetected, TypeSelected, PinPassed,
     PinRefused, WizardCount, VerifyStarts, WordsDiffer, WordsKept, PhraseStarts, PhraseTyped,
     PhraseConfirmed, PhraseLeft, PhraseSaved
<1>. QED  BY <1>1, <1>2, <1>3 DEF GuideStays

\* The steps of the guide that only lead to a wallet leave it alone.
GuideMoves == GuideStays /\ ~Stored /\ ~Verified

LEMMA MovesKeepSeed ==
  ASSUME GuideMoves
  PROVE  UNCHANGED <<chip, account>>
<1>1. CASE Language \/ ActiveStarts \/ ActiveAnswer \/ Onward \/ Backward \/ AccountSelect
           \/ CountSelected \/ SechipChecked \/ Generated \/ WordsShown \/ PageTurned \/ WordsRead
           \/ WordsLeft
  BY <1>1 DEF Language, ActiveStarts, ActiveAnswer, Onward, Backward, AccountSelect,
     CountSelected, SechipChecked, Generated, WordsShown, PageTurned, WordsRead, WordsLeft
<1>2. CASE ConfirmStarts \/ ConfirmMoves \/ ConfirmOk \/ ConfirmTimer \/ ConfirmLeft
           \/ RecoveryStarts \/ LetterTyped \/ WordTyped \/ WordLeft \/ RecoveryTyped
           \/ PinStarts \/ PinTyped \/ PinLeft
  BY <1>2 DEF ConfirmStarts, ConfirmMoves, ConfirmOk, ConfirmTimer, ConfirmLeft, RecoveryStarts,
     LetterTyped, WordTyped, WordLeft, RecoveryTyped, PinStarts, PinTyped, PinLeft
<1>. QED  BY <1>1, <1>2 DEF GuideMoves, GuideStays

\* Before the wallet is stored: the steps up to the PIN, and no check of what was stored
Before == Level(TopStep(steps)) <= 15 /\ dlg.kind # "check"

\* Before it is stored there is no wallet; on the way there, it stays so.
LEMMA BeforeMade ==
  ASSUME Before
  PROVE  ~Made
<1>1. TopStep(steps) \notin Named
  BY HighSteps DEF Before, Named
<1>. QED  BY <1>1 DEF Made, Before, In

LEMMA BeforeOff ==
  ASSUME Rising(steps), Before, Off \/ Stays \/ (steps' = Pop(steps) /\ dlg'.kind # "check")
  PROVE  Before'
<1>1. Level(TopStep(Pop(steps))) <= 15
  <2>1. CASE steps = << >>
    BY <2>1 DEF Pop, Before
  <2>2. CASE steps # << >>
    BY <2>2, Popped, LevelRange, SMTT(30) DEF Before
  <2>. QED  BY <2>1, <2>2
<1>. QED  BY <1>1 DEF Before, Off, Stays, NoDialog

LEMMA BeforeOnto ==
  ASSUME Rising(steps), NEW step, Onto(step), Level(TopStep(steps)) < Level(step), Level(step) <= 15
  PROVE  Before'
<1>1. TopStep(Push(steps, step)) = step
  BY Pushed
<1>. QED  BY <1>1 DEF Before, Onto, NoDialog

LEMMA BeforeSwap ==
  ASSUME Rising(steps), NEW step, TopStep(steps) # NoStep, Level(TopStep(steps)) <= Level(step),
         Level(step) <= 15, steps' = Push(Pop(steps), step), dlg' = NoDialog
  PROVE  Before'
<1>1. steps # << >>
  BY DEF TopStep
<1>2. TopStep(Push(Pop(steps), step)) = step
  BY <1>1, Swapped
<1>. QED  BY <1>2 DEF Before, NoDialog

LEMMA BeforeSame ==
  ASSUME Before, UNCHANGED steps, dlg'.kind # "check"
  PROVE  Before'
BY DEF Before

\* All moves but those that only lead on happen before the wallet is stored.
LEMMA MovesBefore ==
  ASSUME StackInv, WizardsAside, modal = "guide", GuideMoves, ~Onward
  PROVE  Before /\ Before'
<1>. DialogPlace /\ "kind" \in DOMAIN dlg /\ Rising(steps)
  BY DEF StackInv, WizardsAside
<1>1. CASE Language
  <2>1. PICK step \in {"KEY_INSTRUCTION", "DEVICE_ACTIVE"} : Onto(step)
    BY <1>1 DEF Language
  <2>2. Level(TopStep(steps)) = 1 /\ Level(step) \in {2, 3} /\ dlg.kind = "none"
    BY <1>1, LowSteps DEF Language, At, NoDialog
  <2>. QED  BY <2>1, <2>2, BeforeOnto DEF Before
<1>2. CASE ActiveStarts
  <2>1. TopStep(steps) = "DEVICE_ACTIVE" /\ dlg = NoDialog
    BY <1>2 DEF ActiveStarts, At
  <2>2. Before
    BY <2>1, LowSteps DEF Before, NoDialog
  <2>3. \/ steps' = Push(Pop(steps), "KEY_INSTRUCTION") /\ dlg' = NoDialog
        \/ steps' = Pop(steps) /\ dlg'.kind # "check"
    BY <1>2, <2>1 DEF ActiveStarts
  <2>4. CASE steps' = Push(Pop(steps), "KEY_INSTRUCTION") /\ dlg' = NoDialog
    <3>1. Level(TopStep(steps)) = 2 /\ Level("KEY_INSTRUCTION") = 3 /\ TopStep(steps) # NoStep
      BY <2>1, LowSteps DEF NoStep
    <3>. QED  BY <2>2, <2>4, <3>1, BeforeSwap
  <2>. QED  BY <2>2, <2>3, <2>4, BeforeOff
<1>3. CASE ActiveAnswer
  <2>1. UNCHANGED steps /\ (dlg' = NoDialog \/ dlg'.kind = "active") /\ dlg.kind = "active"
    BY <1>3 DEF ActiveAnswer, In
  <2>2. Before
    BY <2>1, LevelRange DEF Before, DialogPlace
  <2>. QED  BY <2>1, <2>2, BeforeSame DEF NoDialog
<1>4. CASE Backward
  <2>1. TopStep(steps) \in LeadsBack /\ dlg = NoDialog /\ Off
    BY <1>4 DEF Backward
  <2>2. Before
    BY <2>1, LowSteps, WordSteps DEF Before, LeadsBack, NoDialog
  <2>. QED  BY <2>1, <2>2, BeforeOff
<1>5. CASE WordsLeft \/ ConfirmLeft \/ PinLeft
  <2>1. dlg.kind \in {"show", "confirm", "pin"} /\ (Off \/ Stays)
    BY <1>5 DEF WordsLeft, ConfirmLeft, PinLeft, In
  <2>2. Before
    BY <2>1, WordSteps DEF Before, DialogPlace, Opener
  <2>. QED  BY <2>1, <2>2, BeforeOff
<1>6. CASE AccountSelect
  <2>1. PICK step \in {"MNEMONICS_CNT", "MNEMONICS_TIPS"} : Onto(step)
    BY <1>6 DEF AccountSelect
  <2>2. Level(TopStep(steps)) = 5 /\ Level(step) \in {6, 8} /\ dlg.kind = "none"
    BY <1>6, LowSteps DEF AccountSelect, At, NoDialog
  <2>. QED  BY <2>1, <2>2, BeforeOnto DEF Before
<1>7. CASE CountSelected
  <2>1. Level(TopStep(steps)) = 8 /\ (Onto("CHECK_SECHIP") \/ Stays) /\ dlg.kind = "none"
    BY <1>7, LowSteps DEF CountSelected, At, NoDialog
  <2>. QED  BY <2>1, BeforeOnto, BeforeOff, WordSteps DEF Before
<1>8. CASE SechipChecked
  <2>1. /\ TopStep(steps) = "CHECK_SECHIP" /\ dlg = NoDialog /\ dlg' = NoDialog
        /\ \E step \in {"ACCOUNT_RECOVERY_TIPS", "MNEMONICS_GENERATE"} :
             steps' = Push(Pop(steps), step)
    BY <1>8 DEF SechipChecked, At
  <2>2. Before
    BY <2>1, WordSteps DEF Before, NoDialog
  <2>. QED  BY <2>1, <2>2, BeforeSwap, WordSteps DEF NoStep
<1>9. CASE Generated
  <2>1. /\ TopStep(steps) = "MNEMONICS_GENERATE" /\ dlg = NoDialog /\ dlg' = NoDialog
        /\ steps' = Push(Pop(steps), "MNEMONICS_SHOW")
    BY <1>9 DEF Generated, At
  <2>2. Before
    BY <2>1, WordSteps DEF Before, NoDialog
  <2>. QED  BY <2>1, <2>2, BeforeSwap, WordSteps DEF NoStep
<1>10. CASE WordsShown \/ PageTurned
  <2>1. UNCHANGED steps /\ dlg'.kind = "show" /\ dlg.kind \in {"none", "show"}
    BY <1>10 DEF WordsShown, PageTurned, ShowsPage, At, In, NoDialog
  <2>2. TopStep(steps) = "MNEMONICS_SHOW"
    BY <1>10 DEF WordsShown, PageTurned, At, In, DialogPlace, Opener
  <2>. QED  BY <2>1, <2>2, WordSteps DEF Before
<1>11. CASE WordsRead
  <2>1. TopStep(steps) = "MNEMONICS_SHOW" /\ Onto("MNEMONICS_CONFIRM_TIPS") /\ dlg.kind = "show"
    BY <1>11 DEF WordsRead, LastPage, In, DialogPlace, Opener
  <2>. QED  BY <2>1, BeforeOnto, WordSteps DEF Before
<1>12. CASE ConfirmStarts
  <2>1. UNCHANGED steps /\ dlg'.kind = "confirm" /\ dlg.kind = "none"
    BY <1>12 DEF ConfirmStarts, Asks, At, NoDialog
  <2>2. TopStep(steps) = "MNEMONICS_CONFIRM"
    BY <1>12 DEF ConfirmStarts, At
  <2>. QED  BY <2>1, <2>2, WordSteps DEF Before
<1>13. CASE ConfirmMoves \/ ConfirmOk
  <2>1. UNCHANGED steps /\ dlg'.kind = dlg.kind /\ dlg.kind = "confirm"
    BY <1>13 DEF ConfirmMoves, SelectionFree, ConfirmOk, In
  <2>. QED  BY <2>1, WordSteps DEF Before, DialogPlace, Opener
<1>14. CASE ConfirmTimer
  <2>1. dlg.kind = "confirm" /\ TopStep(steps) = "MNEMONICS_CONFIRM"
    BY <1>14 DEF ConfirmTimer, In, DialogPlace, Opener
  <2>2. Onto("PASSWD_TIPS") \/ (UNCHANGED steps /\ dlg'.kind = "confirm")
    BY <1>14 DEF ConfirmTimer, Asks
  <2>. QED  BY <2>1, <2>2, BeforeOnto, BeforeSame, WordSteps DEF Before
<1>15. CASE RecoveryStarts
  <2>1. UNCHANGED steps /\ dlg'.kind = "words" /\ TopStep(steps) = "ACCOUNT_RECOVERY"
        /\ dlg.kind = "none"
    BY <1>15 DEF RecoveryStarts, WordsStart, Asking, At, NoDialog
  <2>. QED  BY <2>1, WordSteps DEF Before
<1>16. CASE LetterTyped \/ WordTyped \/ WordLeft \/ RecoveryTyped
  <2>1. dlg.kind = "words"
    BY <1>16 DEF LetterTyped, LettersShown, WordTyped, WordLeft, RecoveryTyped, In
  <2>2. Off \/ Onto("PASSWD_TIPS") \/ (UNCHANGED steps /\ dlg'.kind = dlg.kind)
    <3>1. CASE LetterTyped
      BY <3>1 DEF LetterTyped
    <3>2. CASE WordTyped
      BY <2>1, <3>2 DEF WordTyped, Asking, OnlyWizard
    <3>3. CASE WordLeft
      BY <2>1, <3>3 DEF WordLeft, Asking
    <3>4. CASE RecoveryTyped
      BY <2>1, <3>4 DEF RecoveryTyped, Asking
    <3>. QED  BY <1>16, <3>1, <3>2, <3>3, <3>4
  <2>3. TopStep(steps) = "ACCOUNT_RECOVERY"
    BY <2>1 DEF DialogPlace, Wizards
  <2>. QED  BY <2>1, <2>2, <2>3, BeforeOnto, BeforeSame, BeforeOff, WordSteps DEF Before
<1>17. CASE PinStarts \/ PinTyped
  <2>1. UNCHANGED steps /\ (dlg' = NoDialog \/ dlg'.kind \in {"pin", "store"})
        /\ dlg.kind \in {"none", "pin"}
    <3>1. CASE PinStarts
      BY <3>1 DEF PinStarts, At, NoDialog
    <3>2. CASE PinTyped
      <4>1. /\ UNCHANGED steps /\ dlg.kind = "pin"
            /\ \/ \E p : dlg' = [dlg EXCEPT !.first = p] \/ dlg' = [kind |-> "store", pin |-> p]
               \/ dlg' = NoDialog
        BY <3>2 DEF PinTyped, In
      <4>. QED  BY <4>1
    <3>. QED  BY <1>17, <3>1, <3>2
  <2>2. TopStep(steps) = "ENTER_PASSWD"
    BY <1>17 DEF PinStarts, PinTyped, At, In, DialogPlace, Opener
  <2>. QED  BY <2>1, <2>2, WordSteps DEF Before, NoDialog
<1>. QED  BY <1>1, <1>2, <1>3, <1>4, <1>5, <1>6, <1>7, <1>8, <1>9, <1>10, <1>11, <1>12, <1>13,
     <1>14, <1>15, <1>16, <1>17 DEF GuideMoves, GuideStays

\* Steps that only lead on stay on their side of the wallet.
LEMMA OnwardMade ==
  ASSUME StackInv, Onward
  PROVE  Made' <=> Made
<1>1. PICK step \in LeadsTo(TopStep(steps)) : Onto(step)
  BY DEF Onward
<1>2. TopStep(steps') = step
  BY <1>1, LeadsUp, Pushed DEF StackInv, Onto
<1>3. step \in Named <=> TopStep(steps) \in Named
  BY <1>1 DEF LeadsTo, Named
<1>. QED  BY <1>1, <1>2, <1>3 DEF Onward, Made, In, NoDialog, Onto

-----------------------------------------------------------------------------
(* The steps of the guide are earned                                        *)

\* What keeps a step earned
LEMMA EarnedSoon ==
  ASSUME NEW step, NEW w, Level(step) < 9
  PROVE  Earned(step, w)
BY WordSteps, LevelRange DEF Earned

\* A step stays earned while the locals it is about stay the same: those up to its level.
LEMMA EarnedCounted ==
  ASSUME NEW step, NEW w, NEW v, Earned(step, w), Level(step) <= 10,
         v.recovery = w.recovery, v.mlen = w.mlen
  PROVE  Earned(step, v)
BY WordSteps, LevelRange DEF Earned

LEMMA EarnedShown ==
  ASSUME NEW step, NEW w, NEW v, Earned(step, w), Level(step) <= 11,
         v.recovery = w.recovery, v.mlen = w.mlen,
         w.recovery \/ (v.words = w.words /\ v.seen \subseteq WordPlaces(v))
  PROVE  Earned(step, v)
BY WordSteps, LevelRange, SMTT(30) DEF Earned

LEMMA EarnedPicked ==
  ASSUME NEW step, NEW w, NEW v, Earned(step, w), Level(step) <= 13,
         v.recovery = w.recovery, v.mlen = w.mlen, v.words = w.words, v.seen = w.seen
  PROVE  Earned(step, v)
BY WordSteps, LevelRange DEF Earned, WordPlaces

LEMMA EarnedTyped ==
  ASSUME NEW step, NEW w, NEW v, Earned(step, w),
         v.recovery = w.recovery, v.mlen = w.mlen, v.words = w.words, v.seen = w.seen,
         v.picked = w.picked, w.recovery => v.text \in {<< >>, w.text}
  PROVE  Earned(step, v)
BY DEF Earned, WordPlaces

\* All steps of the stack stay earned while it changes at the top.
LEMMA LowerSteps ==
  ASSUME Rising(steps), NEW i \in DOMAIN steps
  PROVE  Level(steps[i]) <= Level(TopStep(steps)) /\ Level(steps[i]) \in Int
<1>1. steps \in Seq(Steps) /\ steps # << >> /\ i \in 1..Len(steps)
  BY DEF Rising
<1>2. TopStep(steps) = steps[Len(steps)] /\ Len(steps) \in DOMAIN steps
  BY <1>1, TopOf
<1>3. Level(steps[i]) \in Int /\ Level(TopStep(steps)) \in Int
  BY LevelRange
<1>4. CASE i = Len(steps)
  BY <1>2, <1>3, <1>4
<1>5. CASE i < Len(steps)
  <2>1. Level(steps[i]) < Level(steps[Len(steps)])
    BY <1>2, <1>5 DEF Rising
  <2>. QED  BY <1>2, <1>3, <2>1
<1>. QED  BY <1>1, <1>4, <1>5

\* A step is taken back, or none;
LEMMA EarnedOff ==
  ASSUME Rising(steps), AllEarned, steps' = steps \/ steps' = Pop(steps),
         \A step : Level(step) <= Level(TopStep(steps)) /\ Earned(step, wiz) => Earned(step, wiz')
  PROVE  AllEarned'
<1>1. \A i \in DOMAIN steps : Earned(steps[i], wiz')
  BY LowerSteps DEF AllEarned
<1>2. \A i \in DOMAIN steps' : i \in DOMAIN steps /\ steps'[i] = steps[i]
  BY Popped
<1>. QED  BY <1>1, <1>2 DEF AllEarned

\* a step that is earned comes onto the stack;
LEMMA EarnedOnto ==
  ASSUME Rising(steps), AllEarned, NEW new, Earned(new, wiz'),
         \/ Level(TopStep(steps)) < Level(new) /\ steps' = Push(steps, new)
         \/ /\ TopStep(steps) # NoStep /\ Level(TopStep(steps)) <= Level(new)
            /\ steps' = Push(Pop(steps), new),
         \A step : Level(step) <= Level(TopStep(steps)) /\ Earned(step, wiz) => Earned(step, wiz')
  PROVE  AllEarned'
<1>1. \A i \in DOMAIN steps : Earned(steps[i], wiz')
  BY LowerSteps DEF AllEarned
<1>2. TopStep(steps) # NoStep => steps # << >>
  BY DEF TopStep
<1>3. \A i \in DOMAIN steps' : steps'[i] = new \/ (i \in DOMAIN steps /\ steps'[i] = steps[i])
  BY <1>2, Pushed, Swapped
<1>. QED  BY <1>1, <1>3 DEF AllEarned

\* and the step on the top is earned.
LEMMA EarnedTop ==
  ASSUME Rising(steps), AllEarned, TopStep(steps) # NoStep
  PROVE  Earned(TopStep(steps), wiz)
<1>1. steps # << >>
  BY DEF TopStep
<1>. QED  BY <1>1, TopOf DEF AllEarned

\* Where the wizard goes on, what was earned is enough.
LEMMA EarnedOnward ==
  ASSUME NEW w, NEW top, Earned(top, w), NEW step \in LeadsTo(top)
  PROVE  Earned(step, w)
<1>1. CASE Level(step) < 9
  BY <1>1, EarnedSoon
<1>2. CASE Level(step) >= 9
  <2>1. \/ top = "ACCOUNT_RECOVERY_TIPS" /\ step = "ACCOUNT_RECOVERY"
        \/ top = "MNEMONICS_CONFIRM_TIPS" /\ step = "MNEMONICS_CONFIRM"
        \/ top = "PASSWD_TIPS" /\ step = "ENTER_PASSWD"
        \/ top = "WALLET_NAME_TIPS" /\ step = "INPUT_WALLET_NAME"
        \/ top = "INPUT_WALLET_NAME" /\ step = "DOWNLOAD_APP_TIPS"
    BY <1>2, LowSteps DEF LeadsTo
  <2>2. CASE top = "ACCOUNT_RECOVERY_TIPS" /\ step = "ACCOUNT_RECOVERY"
    BY <2>2, WordSteps DEF Earned
  <2>3. CASE top = "MNEMONICS_CONFIRM_TIPS" /\ step = "MNEMONICS_CONFIRM"
    BY <2>3, WordSteps DEF Earned
  <2>4. CASE top = "PASSWD_TIPS" /\ step = "ENTER_PASSWD"
    BY <2>4, WordSteps DEF Earned
  <2>5. CASE top = "WALLET_NAME_TIPS" /\ step = "INPUT_WALLET_NAME"
    BY <2>5, HighSteps DEF Earned
  <2>6. CASE top = "INPUT_WALLET_NAME" /\ step = "DOWNLOAD_APP_TIPS"
    BY <2>6, HighSteps DEF Earned
  <2>. QED  BY <2>1, <2>2, <2>3, <2>4, <2>5, <2>6
<1>. QED  BY <1>1, <1>2, LevelRange

-----------------------------------------------------------------------------
(* The dialogs of the guide                                                 *)

\* What the guide has before the wallet is stored
GuideCore == wiz \in GuideType /\ AllEarned /\ GuideDialog

\* Most dialogs rely on nothing.
LEMMA PlainDialog ==
  ASSUME dlg'.kind \notin {"show", "confirm", "pin", "store"}
  PROVE  GuideDialog'
BY DEF GuideDialog, In

\* The locals stay as they are and a step is taken back, or reached.
LEMMA CoreOff ==
  ASSUME Rising(steps), GuideCore, wiz' = wiz, steps' = steps \/ steps' = Pop(steps),
         dlg'.kind \notin {"show", "confirm", "pin", "store"}
  PROVE  GuideCore'
<1>1. AllEarned'
  BY EarnedOff DEF GuideCore
<1>. QED  BY <1>1, PlainDialog DEF GuideCore

LEMMA CoreOnto ==
  ASSUME Rising(steps), GuideCore, wiz' = wiz, NEW new, Earned(new, wiz),
         \/ Level(TopStep(steps)) < Level(new) /\ steps' = Push(steps, new)
         \/ /\ TopStep(steps) # NoStep /\ Level(TopStep(steps)) <= Level(new)
            /\ steps' = Push(Pop(steps), new),
         dlg'.kind = "none"
  PROVE  GuideCore'
<1>1. AllEarned'
  BY EarnedOnto DEF GuideCore
<1>. QED  BY <1>1, PlainDialog DEF GuideCore

\* What counts of words and pages are
LEMMA PositiveCounts ==
  \A n \in Counts : n \in Nat \ {0}
<1>1. \A n \in Counts : n \in Nat \ {0} /\ PoolMax <= n
  BY WizardAssumption
<1>. QED  BY <1>1

\* Pages and their words: the pages cover all words, each begins behind the one before.
LEMMA TimesGrows ==
  ASSUME NEW a \in Int, NEW b \in Int, NEW c \in Nat, a <= b
  PROVE  a * c <= b * c
OBVIOUS

LEMMA PageStarts ==
  ASSUME NEW n \in Nat \ {0}
  PROVE  /\ Pages(n) \in Nat \ {0}
         /\ \A p \in 0..Pages(n) - 1 : p * PageWords \in 0..n - 1
         /\ Pages(n) * PageWords >= n
<1>. PageWords \in Nat \ {0}
  BY WizardAssumption
<1>. DEFINE q == n \div PageWords
            r == n % PageWords
<1>1. q \in Nat /\ r \in 0..PageWords - 1 /\ n = PageWords * q + r
  OBVIOUS
<1>2. q * PageWords + r = n /\ (q + 1) * PageWords = q * PageWords + PageWords
  BY <1>1
<1>3. q * PageWords \in Nat
  BY <1>1
<1>4. /\ r # 0 => Pages(n) = q + 1
      /\ r = 0 => Pages(n) = q
  BY DEF Pages
<1>. HIDE DEF q, r
<1>5. CASE r # 0
  <2>1. ASSUME NEW p \in 0..Pages(n) - 1 PROVE p * PageWords \in 0..n - 1
    <3>1. p \in Int /\ p <= q /\ 0 <= p
      BY <1>1, <1>4, <1>5
    <3>2. p * PageWords <= q * PageWords /\ p * PageWords \in Nat
      BY <1>1, <3>1, TimesGrows
    <3>. QED  BY <1>1, <1>2, <1>3, <1>5, <3>2
  <2>2. Pages(n) * PageWords >= n
    BY <1>1, <1>2, <1>3, <1>4, <1>5
  <2>. QED  BY <1>1, <1>4, <1>5, <2>1, <2>2
<1>6. CASE r = 0
  <2>1. q # 0
    BY <1>2, <1>6
  <2>2. (q - 1) * PageWords = q * PageWords - PageWords
    BY <1>1
  <2>3. ASSUME NEW p \in 0..Pages(n) - 1 PROVE p * PageWords \in 0..n - 1
    <3>1. p \in Int /\ p <= q - 1 /\ 0 <= p
      BY <1>1, <1>4, <1>6
    <3>2. p * PageWords <= (q - 1) * PageWords /\ p * PageWords \in Nat
      BY <1>1, <3>1, TimesGrows
    <3>. QED  BY <1>1, <1>2, <1>3, <1>6, <2>2, <3>2
  <2>4. Pages(n) * PageWords >= n
    BY <1>1, <1>2, <1>3, <1>4, <1>6
  <2>. QED  BY <1>1, <1>4, <1>6, <2>1, <2>3, <2>4
<1>. QED  BY <1>1, <1>5, <1>6

LEMMA PageEnds ==
  ASSUME NEW w, w.mlen \in Nat \ {0}, NEW p \in 0..Pages(w.mlen) - 1
  PROVE  /\ LastOn(p, w) \in 0..w.mlen - 1 /\ p * PageWords \in 0..w.mlen - 1
         /\ p + 1 \in 0..Pages(w.mlen) - 1 => LastOn(p, w) + 1 = (p + 1) * PageWords
         /\ p - 1 \in 0..Pages(w.mlen) - 1 => LastOn(p - 1, w) <= LastOn(p, w)
         /\ p = Pages(w.mlen) - 1 => LastOn(p, w) = w.mlen - 1
<1>. DEFINE n == w.mlen
<1>. PageWords \in Nat \ {0} /\ n \in Nat \ {0}
  BY WizardAssumption
<1>1. /\ Pages(n) \in Nat \ {0} /\ Pages(n) * PageWords >= n
      /\ \A k \in 0..Pages(n) - 1 : k * PageWords \in 0..n - 1
  BY PageStarts
<1>2. p * PageWords \in 0..n - 1
  BY <1>1
<1>3. (p + 1) * PageWords = p * PageWords + PageWords
  BY <1>1
<1>4. (p - 1) * PageWords = p * PageWords - PageWords
  BY <1>1
<1>5. \A k : LastOn(k, w) = IF n - k * PageWords >= PageWords THEN k * PageWords + PageWords - 1
                            ELSE n - 1
  BY DEF LastOn
<1>. HIDE DEF n
<1>6. LastOn(p, w) \in 0..n - 1
  BY <1>2, <1>5
<1>7. p + 1 \in 0..Pages(n) - 1 => LastOn(p, w) + 1 = (p + 1) * PageWords
  <2> SUFFICES ASSUME p + 1 \in 0..Pages(n) - 1 PROVE LastOn(p, w) + 1 = (p + 1) * PageWords
    OBVIOUS
  <2>1. (p + 1) * PageWords \in 0..n - 1
    BY <1>1
  <2>2. p * PageWords + PageWords <= n - 1
    BY <1>2, <1>3, <2>1
  <2>3. LastOn(p, w) = p * PageWords + PageWords - 1
    BY <1>2, <1>5, <2>2
  <2>. QED  BY <1>2, <1>3, <2>3
<1>8. p - 1 \in 0..Pages(n) - 1 => LastOn(p - 1, w) <= LastOn(p, w)
  <2> SUFFICES ASSUME p - 1 \in 0..Pages(n) - 1 PROVE LastOn(p - 1, w) <= LastOn(p, w)
    OBVIOUS
  <2>1. n - (p - 1) * PageWords >= PageWords
    BY <1>2, <1>4
  <2>2. LastOn(p - 1, w) = (p - 1) * PageWords + PageWords - 1
    BY <1>5, <2>1
  <2>3. LastOn(p - 1, w) = p * PageWords - 1
    BY <1>2, <1>4, <2>2
  <2>. QED  BY <1>2, <1>5, <2>3
<1>9. p = Pages(n) - 1 => LastOn(p, w) = n - 1
  <2> SUFFICES ASSUME p = Pages(n) - 1 PROVE LastOn(p, w) = n - 1
    OBVIOUS
  <2>1. (p + 1) * PageWords >= n
    <3>1. p + 1 = Pages(n)
      BY <1>1
    <3>. QED  BY <1>1, <3>1
  <2>2. p * PageWords + PageWords >= n
    BY <1>3, <2>1
  <2>. QED  BY <1>2, <1>5, <2>2
<1>. QED  BY <1>2, <1>6, <1>7, <1>8, <1>9 DEF n

\* The moves of the guide that leave its locals alone
LEMMA PlainMoves ==
  ASSUME StackInv, WizardsAside, GuideCore, modal = "guide",
         \/ Language \/ ActiveStarts \/ ActiveAnswer \/ Onward \/ Backward \/ SechipChecked
         \/ WordsLeft \/ ConfirmLeft \/ LetterTyped \/ WordTyped \/ WordLeft
  PROVE  GuideCore'
<1>. DialogPlace /\ "kind" \in DOMAIN dlg /\ Rising(steps) /\ AllEarned
  BY DEF StackInv, WizardsAside, GuideCore
<1>1. CASE Language
  <2>1. PICK step \in {"KEY_INSTRUCTION", "DEVICE_ACTIVE"} : Onto(step)
    BY <1>1 DEF Language
  <2>2. Level(TopStep(steps)) = 1 /\ Level(step) \in {2, 3} /\ wiz' = wiz
    BY <1>1, LowSteps DEF Language, At
  <2>3. Earned(step, wiz)
    BY <2>2, EarnedSoon
  <2>4. dlg'.kind = "none" /\ steps' = Push(steps, step)
    BY <2>1 DEF Onto, NoDialog
  <2>. QED  BY <2>2, <2>3, <2>4, CoreOnto
<1>2. CASE ActiveStarts
  <2>1. TopStep(steps) = "DEVICE_ACTIVE" /\ dlg = NoDialog /\ wiz' = wiz
    BY <1>2 DEF ActiveStarts, At
  <2>2. \/ steps' = Push(Pop(steps), "KEY_INSTRUCTION") /\ dlg' = NoDialog
        \/ steps' = Pop(steps) /\ dlg'.kind = "active"
    BY <1>2, <2>1 DEF ActiveStarts
  <2>3. CASE steps' = Push(Pop(steps), "KEY_INSTRUCTION") /\ dlg' = NoDialog
    <3>1. Level(TopStep(steps)) = 2 /\ Level("KEY_INSTRUCTION") = 3 /\ TopStep(steps) # NoStep
      BY <2>1, LowSteps DEF NoStep
    <3>2. Earned("KEY_INSTRUCTION", wiz) /\ dlg'.kind = "none"
      BY <2>3, <3>1, EarnedSoon DEF NoDialog
    <3>. QED  BY <2>1, <2>3, <3>1, <3>2, CoreOnto
  <2>. QED  BY <2>1, <2>2, <2>3, CoreOff
<1>3. CASE ActiveAnswer
  <2>1. UNCHANGED <<steps, wiz>> /\ dlg'.kind \in {"none", "active"}
    BY <1>3 DEF ActiveAnswer, In, NoDialog
  <2>. QED  BY <2>1, CoreOff
<1>4. CASE Onward
  <2>1. PICK step \in LeadsTo(TopStep(steps)) : Onto(step)
    BY <1>4 DEF Onward
  <2>2. Level(TopStep(steps)) < Level(step) /\ TopStep(steps) # NoStep
    BY <2>1, LeadsUp DEF LeadsTo, NoStep
  <2>3. Earned(step, wiz)
    BY <2>1, <2>2, EarnedTop, EarnedOnward
  <2>4. dlg'.kind = "none" /\ steps' = Push(steps, step) /\ wiz' = wiz
    BY <1>4, <2>1 DEF Onto, NoDialog, Onward
  <2>. QED  BY <2>2, <2>3, <2>4, CoreOnto
<1>5. CASE Backward \/ WordsLeft \/ ConfirmLeft
  <2>1. (Off \/ Stays) /\ wiz' = wiz
    BY <1>5 DEF Backward, WordsLeft, ConfirmLeft
  <2>2. dlg'.kind = "none" /\ (steps' = steps \/ steps' = Pop(steps))
    BY <2>1 DEF Off, Stays, NoDialog
  <2>. QED  BY <2>1, <2>2, CoreOff
<1>6. CASE SechipChecked
  <2>1. /\ TopStep(steps) = "CHECK_SECHIP" /\ dlg' = NoDialog /\ wiz' = wiz
    BY <1>6 DEF SechipChecked, At
  <2>2. Earned("CHECK_SECHIP", wiz) /\ TopStep(steps) # NoStep
    BY <2>1, EarnedTop DEF NoStep
  <2>3. PICK step \in {"ACCOUNT_RECOVERY_TIPS", "MNEMONICS_GENERATE"} :
          /\ steps' = Push(Pop(steps), step)
          /\ step = "ACCOUNT_RECOVERY_TIPS" => wiz.recovery
          /\ step = "MNEMONICS_GENERATE" => ~wiz.recovery
    BY <1>6 DEF SechipChecked
  <2>4. Earned(step, wiz)
    BY <2>2, <2>3, WordSteps DEF Earned
  <2>5. Level(TopStep(steps)) <= Level(step) /\ dlg'.kind = "none"
    BY <2>1, <2>3, WordSteps DEF NoDialog
  <2>. QED  BY <2>1, <2>2, <2>3, <2>4, <2>5, CoreOnto
<1>7. CASE LetterTyped \/ WordTyped \/ WordLeft
  <2>1. dlg.kind = "words" /\ wiz' = wiz
    BY <1>7 DEF LetterTyped, LettersShown, WordTyped, WordLeft, In
  <2>2. Off \/ (UNCHANGED steps /\ dlg'.kind = "words")
    <3>1. CASE LetterTyped
      BY <2>1, <3>1 DEF LetterTyped
    <3>2. CASE WordTyped
      BY <3>2 DEF WordTyped, Asking
    <3>3. CASE WordLeft
      BY <3>3 DEF WordLeft, Asking
    <3>. QED  BY <1>7, <3>1, <3>2, <3>3
  <2>3. dlg'.kind \in {"none", "words"} /\ (steps' = steps \/ steps' = Pop(steps))
    BY <2>2 DEF Off, NoDialog
  <2>. QED  BY <2>1, <2>3, CoreOff
<1>. QED  BY <1>1, <1>2, <1>3, <1>4, <1>5, <1>6, <1>7

\* The beginning: the kind of wallet, the number of words, the words
LEMMA FirstMoves ==
  ASSUME StackInv, WizardsAside, GuideCore, modal = "guide",
         AccountSelect \/ CountSelected \/ Generated \/ RecoveryStarts
  PROVE  GuideCore'
<1>. DialogPlace /\ "kind" \in DOMAIN dlg /\ Rising(steps) /\ AllEarned /\ wiz \in GuideType
  BY DEF StackInv, WizardsAside, GuideCore
<1>1. CASE AccountSelect
  <2>1. PICK recovery \in BOOLEAN : /\ wiz' = [wiz EXCEPT !.recovery = recovery]
                                    /\ Onto(IF recovery THEN "MNEMONICS_CNT" ELSE "MNEMONICS_TIPS")
    BY <1>1 DEF AccountSelect
  <2>2. PICK step \in {"MNEMONICS_CNT", "MNEMONICS_TIPS"} : Onto(step)
    BY <2>1
  <2>3. Level(TopStep(steps)) = 5 /\ Level(step) \in {6, 8}
    BY <1>1, LowSteps DEF AccountSelect, At
  <2>4. dlg'.kind = "none" /\ steps' = Push(steps, step)
    BY <2>2 DEF Onto, NoDialog
  <2>5. \A s : Level(s) <= Level(TopStep(steps)) => Earned(s, wiz')
    BY <2>3, EarnedSoon, LevelRange
  <2>6. Earned(step, wiz')
    BY <2>3, EarnedSoon
  <2>7. AllEarned'
    BY <2>3, <2>4, <2>5, <2>6, EarnedOnto
  <2>8. wiz' \in GuideType
    BY <2>1 DEF GuideType
  <2>. QED  BY <2>4, <2>7, <2>8, PlainDialog DEF GuideCore
<1>2. CASE CountSelected
  <2>1. PICK n \in Counts : wiz' = [GuideLocals EXCEPT !.mlen = n, !.recovery = wiz.recovery]
    BY <1>2 DEF CountSelected
  <2>2. wiz' \in GuideType /\ wiz'.mlen = n
    <3>1. wiz' = [mlen |-> n, recovery |-> wiz.recovery, words |-> << >>, text |-> << >>,
                  seen |-> {}, picked |-> << >>, pins |-> << >>]
      BY <2>1 DEF GuideLocals
    <3>2. wiz.recovery \in BOOLEAN
      BY DEF GuideType
    <3>. QED  BY <3>1, <3>2 DEF GuideType
  <2>3. Level(TopStep(steps)) = 8 /\ (Onto("CHECK_SECHIP") \/ Stays)
    BY <1>2, LowSteps DEF CountSelected, At
  <2>4. \A s : Level(s) <= Level(TopStep(steps)) => Earned(s, wiz')
    BY <2>3, EarnedSoon, LevelRange
  <2>5. Earned("CHECK_SECHIP", wiz') /\ Level("CHECK_SECHIP") = 9
    BY <2>2, WordSteps DEF Earned
  <2>6. AllEarned' /\ dlg'.kind = "none"
    <3>1. CASE Onto("CHECK_SECHIP")
      <4>1. steps' = Push(steps, "CHECK_SECHIP") /\ dlg'.kind = "none"
        BY <3>1 DEF Onto, NoDialog
      <4>. QED  BY <2>3, <2>4, <2>5, <4>1, EarnedOnto
    <3>2. CASE Stays
      <4>1. steps' = steps /\ dlg'.kind = "none"
        BY <3>2 DEF Stays, NoDialog
      <4>. QED  BY <2>4, <4>1, EarnedOff
    <3>. QED  BY <2>3, <3>1, <3>2
  <2>. QED  BY <2>2, <2>6, PlainDialog DEF GuideCore
<1>3. CASE Generated
  <2>1. /\ TopStep(steps) = "MNEMONICS_GENERATE" /\ dlg'.kind = "none"
        /\ steps' = Push(Pop(steps), "MNEMONICS_SHOW")
    BY <1>3 DEF Generated, At, NoDialog
  <2>2. PICK m \in Mnemonics :
          /\ Len(m) = wiz.mlen
          /\ wiz' = [wiz EXCEPT !.words = m, !.text = << >>, !.seen = {}, !.picked = << >>]
    BY <1>3 DEF Generated
  <2>3. wiz' \in GuideType
    <3>1. wiz' = [mlen |-> wiz.mlen, recovery |-> wiz.recovery, words |-> m, text |-> << >>,
                  seen |-> {}, picked |-> << >>, pins |-> wiz.pins]
      BY <2>2 DEF GuideType
    <3>2. /\ wiz.mlen \in Counts \cup {0} /\ wiz.recovery \in BOOLEAN
          /\ wiz.pins \in Seq(Pins \cup {Nothing})
      BY DEF GuideType
    <3>. QED  BY <3>1, <3>2 DEF GuideType
  <2>4. wiz'.mlen = wiz.mlen /\ wiz'.recovery = wiz.recovery /\ wiz'.words = m /\ wiz'.seen = {}
    BY <2>2 DEF GuideType
  <2>5. Earned("MNEMONICS_GENERATE", wiz)
    BY <2>1, EarnedTop DEF NoStep
  <2>6. Earned("MNEMONICS_SHOW", wiz')
    BY <2>2, <2>4, <2>5, WordSteps DEF Earned
  <2>7. \A s : Level(s) <= Level(TopStep(steps)) /\ Earned(s, wiz) => Earned(s, wiz')
    BY <2>1, <2>4, WordSteps, EarnedCounted
  <2>8. TopStep(steps) # NoStep /\ Level(TopStep(steps)) <= Level("MNEMONICS_SHOW")
    BY <2>1, WordSteps DEF NoStep
  <2>9. AllEarned'
    BY <2>1, <2>6, <2>7, <2>8, EarnedOnto
  <2>. QED  BY <2>1, <2>3, <2>9, PlainDialog DEF GuideCore
<1>4. CASE RecoveryStarts
  <2>1. TopStep(steps) = "ACCOUNT_RECOVERY" /\ steps' = steps /\ dlg'.kind = "words"
        /\ wiz' = [wiz EXCEPT !.words = << >>, !.text = << >>]
    BY <1>4 DEF RecoveryStarts, At, WordsStart, Asking
  <2>2. wiz' \in GuideType /\ wiz'.mlen = wiz.mlen /\ wiz'.recovery = wiz.recovery
    BY <2>1 DEF GuideType
  <2>3. wiz.recovery
    BY <2>1, EarnedTop DEF NoStep, Earned
  <2>4. \A s : Level(s) <= Level(TopStep(steps)) /\ Earned(s, wiz) => Earned(s, wiz')
    BY <2>1, <2>2, <2>3, WordSteps, EarnedShown
  <2>5. AllEarned'
    BY <2>1, <2>4, EarnedOff
  <2>. QED  BY <2>1, <2>2, <2>5, PlainDialog DEF GuideCore
<1>. QED  BY <1>1, <1>2, <1>3, <1>4

\* The words of a new wallet are shown and asked back.
LEMMA ShowMoves ==
  ASSUME StackInv, WizardsAside, GuideCore, modal = "guide",
         WordsShown \/ PageTurned \/ WordsRead
  PROVE  GuideCore'
<1>. DialogPlace /\ "kind" \in DOMAIN dlg /\ Rising(steps) /\ AllEarned /\ wiz \in GuideType
     /\ GuideDialog
  BY DEF StackInv, WizardsAside, GuideCore
<1>1. TopStep(steps) = "MNEMONICS_SHOW" /\ TopStep(steps) # NoStep
  BY DEF WordsShown, PageTurned, WordsRead, LastPage, At, In, DialogPlace, Opener, NoStep
<1>2. Earned("MNEMONICS_SHOW", wiz)
  BY <1>1, EarnedTop
<1>3. ~wiz.recovery /\ wiz.mlen \in Counts /\ wiz.words \in Mnemonics /\ Len(wiz.words) = wiz.mlen
  BY <1>2, WordSteps DEF Earned
<1>4. wiz.mlen \in Nat \ {0} /\ PageWords \in Nat \ {0} /\ wiz.seen \in SUBSET Int
  BY <1>3, PositiveCounts, WizardAssumption DEF GuideType
<1>5. \A p : OnPage(p) = p * PageWords .. LastOn(p, wiz)
  BY DEF OnPage, LastOn
<1>6. wiz.seen \subseteq WordPlaces(wiz) /\ WordPlaces(wiz) = 0..wiz.mlen - 1
  BY <1>2, <1>3, WordSteps DEF Earned, WordPlaces
<1>7. ASSUME NEW p \in 0..Pages(wiz.mlen) - 1, ShowsPage(p), UNCHANGED steps,
             0..LastOn(p, wiz) \subseteq wiz.seen \cup OnPage(p)
      PROVE  GuideCore'
  <2>1. wiz' = [wiz EXCEPT !.seen = wiz.seen \cup OnPage(p)] /\ dlg' = [kind |-> "show", page |-> p]
    BY <1>7 DEF ShowsPage
  <2>2. LastOn(p, wiz) \in 0..wiz.mlen - 1 /\ p * PageWords \in 0..wiz.mlen - 1
    BY <1>4, <1>7, PageEnds
  <2>3. OnPage(p) \subseteq 0..wiz.mlen - 1
    BY <1>4, <1>5, <2>2
  <2>4. /\ wiz'.mlen = wiz.mlen /\ wiz'.recovery = wiz.recovery /\ wiz'.words = wiz.words
        /\ wiz'.seen = wiz.seen \cup OnPage(p)
    BY <2>1 DEF GuideType
  <2>5. wiz' \in GuideType
    <3>1. wiz.seen \cup OnPage(p) \in SUBSET Int
      BY <1>4, <2>3
    <3>. QED  BY <2>1, <3>1 DEF GuideType
  <2>6. LastOn(p, wiz') = LastOn(p, wiz) /\ WordPlaces(wiz') = WordPlaces(wiz)
    BY <2>4 DEF LastOn, WordPlaces
  <2>7. wiz'.seen \subseteq WordPlaces(wiz')
    BY <1>6, <2>3, <2>4, <2>6
  <2>8. \A s : Level(s) <= Level(TopStep(steps)) /\ Earned(s, wiz) => Earned(s, wiz')
    BY <1>1, <2>4, <2>7, WordSteps, EarnedShown
  <2>9. AllEarned'
    BY <1>7, <2>8, EarnedOff
  <2>10. GuideDialog'
    <3>1. "page" \in DOMAIN dlg' /\ dlg'.page = p /\ dlg'.kind = "show"
      BY <2>1
    <3>2. 0..LastOn(p, wiz') \subseteq wiz'.seen
      BY <1>7, <2>4, <2>6
    <3>. QED  BY <1>7, <2>4, <3>1, <3>2 DEF GuideDialog, In
  <2>. QED  BY <2>5, <2>9, <2>10 DEF GuideCore
<1>8. CASE WordsShown
  <2>1. ShowsPage(0) /\ UNCHANGED steps
    BY <1>8 DEF WordsShown
  <2>2. Pages(wiz.mlen) \in Nat \ {0}
    BY <1>4, PageStarts
  <2>3. 0 \in 0..Pages(wiz.mlen) - 1 /\ 0 * PageWords = 0
    BY <1>4, <2>2
  <2>4. 0..LastOn(0, wiz) \subseteq wiz.seen \cup OnPage(0)
    BY <1>5, <2>3
  <2>. QED  BY <1>7, <2>1, <2>3, <2>4
<1>9. CASE PageTurned
  <2>1. PICK d \in {-1, 1} : dlg.page + d \in 0..Pages(wiz.mlen) - 1 /\ ShowsPage(dlg.page + d)
    BY <1>9 DEF PageTurned
  <2>2. dlg.page \in 0..Pages(wiz.mlen) - 1 /\ 0..LastOn(dlg.page, wiz) \subseteq wiz.seen
    BY <1>9 DEF PageTurned, GuideDialog
  <2>3. 0..LastOn(dlg.page + d, wiz) \subseteq wiz.seen \cup OnPage(dlg.page + d)
    <3>. DEFINE p == dlg.page
    <3>1. LastOn(p, wiz) \in Int /\ LastOn(p + d, wiz) \in Int
      BY <1>4, <2>1, <2>2, PageEnds
    <3>2. CASE d = 1
      <4>1. LastOn(p, wiz) + 1 = (p + 1) * PageWords
        BY <1>4, <2>1, <2>2, <3>2, PageEnds
      <4>2. OnPage(p + 1) = (LastOn(p, wiz) + 1)..LastOn(p + 1, wiz)
        BY <1>5, <4>1
      <4>. QED  BY <2>2, <3>1, <3>2, <4>2
    <3>3. CASE d = -1
      <4>1. p - 1 \in 0..Pages(wiz.mlen) - 1 /\ p + d = p - 1
        BY <2>1, <2>2, <3>3
      <4>2. LastOn(p - 1, wiz) <= LastOn(p, wiz)
        BY <1>4, <2>2, <4>1, PageEnds
      <4>. QED  BY <2>2, <3>1, <4>1, <4>2
    <3>. QED  BY <3>2, <3>3
  <2>. QED  BY <1>7, <1>9, <2>1, <2>3 DEF PageTurned
<1>10. CASE WordsRead
  <2>1. Onto("MNEMONICS_CONFIRM_TIPS") /\ wiz' = wiz /\ dlg.page = Pages(wiz.mlen) - 1 /\ In("show")
    BY <1>10 DEF WordsRead, LastPage
  <2>2. dlg.page \in 0..Pages(wiz.mlen) - 1 /\ 0..LastOn(dlg.page, wiz) \subseteq wiz.seen
    BY <2>1 DEF GuideDialog
  <2>3. LastOn(dlg.page, wiz) = wiz.mlen - 1
    BY <1>4, <2>1, <2>2, PageEnds
  <2>4. wiz.seen = WordPlaces(wiz)
    BY <1>6, <2>2, <2>3
  <2>5. Earned("MNEMONICS_CONFIRM_TIPS", wiz)
    BY <1>3, <2>4, WordSteps DEF Earned
  <2>6. steps' = Push(steps, "MNEMONICS_CONFIRM_TIPS") /\ dlg'.kind = "none"
    BY <2>1 DEF Onto, NoDialog
  <2>7. Level(TopStep(steps)) < Level("MNEMONICS_CONFIRM_TIPS")
    BY <1>1, WordSteps
  <2>. QED  BY <2>1, <2>5, <2>6, <2>7, CoreOnto
<1>. QED  BY <1>8, <1>9, <1>10

\* The words picked so far, and one more
LEMMA NextPrefix ==
  ASSUME NEW S, NEW s \in Seq(S), NEW i \in 0..Len(s) - 1
  PROVE  /\ Append(SubSeq(s, 1, i), s[i + 1]) = SubSeq(s, 1, i + 1) /\ s[i + 1] \in S
         /\ SubSeq(s, 1, i + 1) \in Seq(S)
         /\ SubSeq(s, 1, 0) = << >>
         /\ i + 1 = Len(s) => SubSeq(s, 1, i + 1) = s
<1>1. i + 1 \in 1..Len(s) /\ s[i + 1] \in S
  OBVIOUS
<1>2. /\ SubSeq(s, 1, i) \in Seq(S) /\ Len(SubSeq(s, 1, i)) = i
      /\ \A k \in 1..i : SubSeq(s, 1, i)[k] = s[k]
  OBVIOUS
<1>3. /\ SubSeq(s, 1, i + 1) \in Seq(S) /\ Len(SubSeq(s, 1, i + 1)) = i + 1
      /\ \A k \in 1..i + 1 : SubSeq(s, 1, i + 1)[k] = s[k]
  BY <1>1
<1>. DEFINE a == Append(SubSeq(s, 1, i), s[i + 1])
            b == SubSeq(s, 1, i + 1)
<1>4. a \in Seq(S) /\ Len(a) = i + 1 /\ \A k \in 1..i + 1 : a[k] = s[k]
  BY <1>1, <1>2
<1>5. b \in Seq(S) /\ Len(b) = i + 1 /\ \A k \in 1..i + 1 : b[k] = s[k]
  BY <1>3
<1>. HIDE DEF a, b
<1>6. a = b
  BY <1>4, <1>5
<1>7. i + 1 = Len(s) => b = s
  BY <1>5
<1>8. SubSeq(s, 1, 0) = << >>
  OBVIOUS
<1>. QED  BY <1>1, <1>5, <1>6, <1>7, <1>8 DEF a, b

\* The words are asked back.
LEMMA ConfirmMovesOn ==
  ASSUME StackInv, WizardsAside, GuideCore, modal = "guide",
         ConfirmStarts \/ ConfirmMoves \/ ConfirmOk \/ ConfirmTimer
  PROVE  GuideCore'
<1>. DialogPlace /\ "kind" \in DOMAIN dlg /\ Rising(steps) /\ AllEarned /\ wiz \in GuideType
     /\ GuideDialog
  BY DEF StackInv, WizardsAside, GuideCore
<1>1. TopStep(steps) = "MNEMONICS_CONFIRM" /\ TopStep(steps) # NoStep /\ Level(TopStep(steps)) = 13
  BY WordSteps DEF ConfirmStarts, ConfirmMoves, ConfirmOk, ConfirmTimer, SelectionFree, At, In,
     DialogPlace, Opener, NoStep
<1>2. Earned("MNEMONICS_CONFIRM", wiz)
  BY <1>1, EarnedTop
<1>3. /\ ~wiz.recovery /\ wiz.mlen \in Counts /\ wiz.words \in Mnemonics /\ Len(wiz.words) = wiz.mlen
      /\ wiz.seen = WordPlaces(wiz) /\ wiz.seen \subseteq WordPlaces(wiz)
  BY <1>2, WordSteps DEF Earned
<1>4. wiz.mlen \in Nat \ {0} /\ wiz.words \in Seq(Words)
  BY <1>3, PositiveCounts, WizardAssumption
<1>5. ASSUME NEW n, n \in WordPlaces(wiz), Asks(n), UNCHANGED steps,
             wiz' = [wiz EXCEPT !.picked = SubSeq(wiz.words, 1, n)]
      PROVE  GuideCore'
  <2>1. dlg'.kind = "confirm" /\ "idx" \in DOMAIN dlg' /\ dlg'.idx = n
    BY <1>5 DEF Asks
  <2>2. /\ wiz'.mlen = wiz.mlen /\ wiz'.recovery = wiz.recovery /\ wiz'.words = wiz.words
        /\ wiz'.seen = wiz.seen /\ wiz'.picked = SubSeq(wiz.words, 1, n)
    BY <1>5 DEF GuideType
  <2>3. wiz' \in GuideType
    <3>1. SubSeq(wiz.words, 1, n) \in Seq(Words)
      BY <1>3, <1>4, <1>5 DEF WordPlaces
    <3>. QED  BY <1>5, <3>1 DEF GuideType
  <2>4. \A s : Level(s) <= Level(TopStep(steps)) /\ Earned(s, wiz) => Earned(s, wiz')
    BY <1>1, <2>2, EarnedPicked
  <2>5. AllEarned'
    BY <1>5, <2>4, EarnedOff
  <2>6. GuideDialog'
    BY <1>5, <2>1, <2>2 DEF GuideDialog, In, WordPlaces
  <2>. QED  BY <2>3, <2>5, <2>6 DEF GuideCore
<1>6. CASE ConfirmStarts
  <2>1. Asks(0) /\ wiz' = [wiz EXCEPT !.picked = << >>] /\ UNCHANGED steps
    BY <1>6 DEF ConfirmStarts
  <2>2. 0 \in WordPlaces(wiz) /\ SubSeq(wiz.words, 1, 0) = << >>
    BY <1>4 DEF WordPlaces
  <2>. QED  BY <1>5, <2>1, <2>2
<1>7. CASE ConfirmMoves \/ ConfirmOk
  <2>1. /\ dlg.kind = "confirm" /\ UNCHANGED <<steps, wiz>>
        /\ \/ \E x : dlg' = [dlg EXCEPT !.sel = x]
           \/ \E x : dlg' = [dlg EXCEPT !.mark = x]
    BY <1>7 DEF ConfirmMoves, SelectionFree, ConfirmOk, In
  <2>2. /\ "idx" \in DOMAIN dlg /\ dlg.idx \in WordPlaces(wiz)
        /\ wiz.picked = SubSeq(wiz.words, 1, dlg.idx)
    BY <2>1 DEF GuideDialog, In
  <2>3. dlg'.kind = "confirm" /\ "idx" \in DOMAIN dlg' /\ dlg'.idx = dlg.idx
    BY <2>1, <2>2
  <2>4. AllEarned'
    BY <2>1, EarnedOff
  <2>5. GuideDialog'
    BY <2>1, <2>2, <2>3 DEF GuideDialog, In
  <2>. QED  BY <2>1, <2>4, <2>5 DEF GuideCore
<1>8. CASE ConfirmTimer
  <2>. DEFINE n == dlg.idx
  <2>1. "idx" \in DOMAIN dlg /\ n \in WordPlaces(wiz) /\ wiz.picked = SubSeq(wiz.words, 1, n)
    BY <1>8 DEF ConfirmTimer, GuideDialog
  <2>2. n \in 0..Len(wiz.words) - 1
    BY <1>3, <2>1 DEF WordPlaces
  <2>3. CASE ~Right
    <3>1. Asks(n) /\ UNCHANGED <<steps, wiz>>
      BY <1>8, <2>3 DEF ConfirmTimer
    <3>2. wiz' = [wiz EXCEPT !.picked = SubSeq(wiz.words, 1, n)]
      BY <2>1, <3>1 DEF GuideType
    <3>. QED  BY <1>5, <2>1, <3>1, <3>2
  <2>4. CASE Right
    <3>1. /\ wiz' = [wiz EXCEPT !.picked = Append(wiz.picked, dlg.items[dlg.sel])]
          /\ \/ n + 1 = wiz.mlen /\ Onto("PASSWD_TIPS")
             \/ n + 1 # wiz.mlen /\ Asks(n + 1) /\ UNCHANGED steps
      BY <1>8, <2>4 DEF ConfirmTimer
    <3>2. dlg.items[dlg.sel] = wiz.words[n + 1]
      BY <2>4 DEF Right
    <3>3. /\ Append(SubSeq(wiz.words, 1, n), wiz.words[n + 1]) = SubSeq(wiz.words, 1, n + 1)
          /\ n + 1 = Len(wiz.words) => SubSeq(wiz.words, 1, n + 1) = wiz.words
          /\ SubSeq(wiz.words, 1, n + 1) \in Seq(Words)
      BY <1>4, <2>2, NextPrefix
    <3>4. wiz' = [wiz EXCEPT !.picked = SubSeq(wiz.words, 1, n + 1)]
      BY <2>1, <3>1, <3>2, <3>3
    <3>5. CASE n + 1 = wiz.mlen /\ Onto("PASSWD_TIPS")
      <4>1. wiz' = [wiz EXCEPT !.picked = wiz.words]
        BY <1>3, <3>3, <3>4, <3>5
      <4>2. wiz' \in GuideType
        BY <1>4, <4>1 DEF GuideType
      <4>3. /\ wiz'.mlen = wiz.mlen /\ wiz'.recovery = wiz.recovery /\ wiz'.words = wiz.words
            /\ wiz'.seen = wiz.seen /\ wiz'.picked = wiz.words
        BY <4>1 DEF GuideType
      <4>4. \A s : Level(s) <= Level(TopStep(steps)) /\ Earned(s, wiz) => Earned(s, wiz')
        BY <1>1, <4>3, EarnedPicked
      <4>5. Earned("PASSWD_TIPS", wiz')
        BY <1>3, <4>3, WordSteps DEF Earned, WordPlaces
      <4>6. steps' = Push(steps, "PASSWD_TIPS") /\ dlg'.kind = "none"
        BY <3>5 DEF Onto, NoDialog
      <4>7. Level(TopStep(steps)) < Level("PASSWD_TIPS")
        BY <1>1, WordSteps
      <4>8. AllEarned'
        BY <4>4, <4>5, <4>6, <4>7, EarnedOnto
      <4>. QED  BY <4>2, <4>6, <4>8, PlainDialog DEF GuideCore
    <3>6. CASE n + 1 # wiz.mlen /\ Asks(n + 1) /\ UNCHANGED steps
      <4>1. n + 1 \in WordPlaces(wiz)
        BY <1>3, <1>4, <2>1, <3>6 DEF WordPlaces
      <4>. QED  BY <1>5, <3>4, <3>6, <4>1
    <3>. QED  BY <3>1, <3>5, <3>6
  <2>. QED  BY <2>3, <2>4
<1>. QED  BY <1>6, <1>7, <1>8

\* The words of a recovery are typed.
LEMMA RecoveryMoves ==
  ASSUME StackInv, WizardsAside, GuideCore, modal = "guide", RecoveryTyped
  PROVE  GuideCore'
<1>. DialogPlace /\ "kind" \in DOMAIN dlg /\ Rising(steps) /\ AllEarned /\ wiz \in GuideType
  BY DEF StackInv, WizardsAside, GuideCore
<1>1. TopStep(steps) = "ACCOUNT_RECOVERY" /\ TopStep(steps) # NoStep /\ Level(TopStep(steps)) = 11
  BY WordSteps DEF RecoveryTyped, In, DialogPlace, Wizards, NoStep
<1>2. wiz.recovery /\ wiz.mlen \in Counts
  BY <1>1, EarnedTop, WordSteps DEF Earned
<1>3. PICK w \in Words :
        \/ /\ Placed(w) \in Mnemonics /\ Onto("PASSWD_TIPS")
           /\ wiz' = [wiz EXCEPT !.text = Placed(w), !.picked = Placed(w)]
        \/ dlg' = Asking(Placed(w), dlg.at) /\ UNCHANGED <<wiz, steps>>
  BY DEF RecoveryTyped
<1>4. CASE dlg' = Asking(Placed(w), dlg.at) /\ UNCHANGED <<wiz, steps>>
  <2>1. dlg'.kind = "words"
    BY <1>4 DEF Asking
  <2>. QED  BY <1>4, <2>1, CoreOff
<1>5. ASSUME NEW m \in Mnemonics, Onto("PASSWD_TIPS"), wiz' = [wiz EXCEPT !.text = m, !.picked = m]
      PROVE  GuideCore'
  <2>1. m \in Seq(Words)
    BY WizardAssumption
  <2>2. wiz' \in GuideType
    BY <1>5, <2>1 DEF GuideType
  <2>3. wiz'.mlen = wiz.mlen /\ wiz'.recovery = wiz.recovery /\ wiz'.picked = m /\ wiz'.text = m
    BY <1>5 DEF GuideType
  <2>4. \A s : Level(s) <= Level(TopStep(steps)) /\ Earned(s, wiz) => Earned(s, wiz')
    BY <1>1, <1>2, <2>3, EarnedShown
  <2>5. Earned("PASSWD_TIPS", wiz')
    BY <1>2, <2>3, WordSteps DEF Earned
  <2>6. steps' = Push(steps, "PASSWD_TIPS") /\ dlg'.kind = "none"
    BY <1>5 DEF Onto, NoDialog
  <2>7. Level(TopStep(steps)) < Level("PASSWD_TIPS")
    BY <1>1, WordSteps
  <2>8. AllEarned'
    BY <2>4, <2>5, <2>6, <2>7, EarnedOnto
  <2>. QED  BY <2>2, <2>6, <2>8, PlainDialog DEF GuideCore
<1>. QED  BY <1>3, <1>4, <1>5

\* The PIN is typed twice.
LEMMA PinMoves ==
  ASSUME StackInv, WizardsAside, GuideCore, modal = "guide", PinStarts \/ PinTyped \/ PinLeft
  PROVE  GuideCore'
<1>. DialogPlace /\ "kind" \in DOMAIN dlg /\ Rising(steps) /\ AllEarned /\ wiz \in GuideType
     /\ GuideDialog
  BY DEF StackInv, WizardsAside, GuideCore
<1>1. TopStep(steps) = "ENTER_PASSWD" /\ TopStep(steps) # NoStep
  BY DEF PinStarts, PinTyped, PinLeft, At, In, DialogPlace, Opener, NoStep
<1>2. /\ Level("ENTER_PASSWD") = 15 /\ Earned("ENTER_PASSWD", wiz)
  BY <1>1, EarnedTop, WordSteps
<1>3. /\ wiz.recovery => wiz.text \in {<< >>, wiz.picked}
      /\ ~wiz.recovery => wiz.picked = wiz.words /\ wiz.words \in Mnemonics
  BY <1>2 DEF Earned
<1>4. CASE PinStarts
  <2>1. UNCHANGED <<steps, wiz>> /\ dlg'.kind = "pin" /\ "first" \in DOMAIN dlg' /\ dlg'.first = Nothing
    BY <1>4 DEF PinStarts
  <2>2. AllEarned'
    BY <2>1, EarnedOff
  <2>3. GuideDialog'
    BY <2>1 DEF GuideDialog, In
  <2>. QED  BY <2>1, <2>2, <2>3 DEF GuideCore
<1>5. CASE PinLeft
  <2>1. wiz' = [wiz EXCEPT !.pins = << >>] /\ (Off \/ Stays)
    BY <1>5 DEF PinLeft
  <2>2. wiz' \in GuideType
    <3>1. << >> \in Seq(Pins \cup {Nothing})
      OBVIOUS
    <3>. QED  BY <2>1, <3>1 DEF GuideType
  <2>3. /\ wiz'.mlen = wiz.mlen /\ wiz'.recovery = wiz.recovery /\ wiz'.words = wiz.words
        /\ wiz'.seen = wiz.seen /\ wiz'.picked = wiz.picked /\ wiz'.text = wiz.text
    BY <2>1 DEF GuideType
  <2>4. \A s : Level(s) <= Level(TopStep(steps)) /\ Earned(s, wiz) => Earned(s, wiz')
    BY <2>3, EarnedTyped
  <2>5. dlg'.kind = "none" /\ (steps' = steps \/ steps' = Pop(steps))
    BY <2>1 DEF Off, Stays, NoDialog
  <2>6. AllEarned'
    BY <2>4, <2>5, EarnedOff
  <2>. QED  BY <2>2, <2>5, <2>6, PlainDialog DEF GuideCore
<1>6. CASE PinTyped
  <2>1. /\ "first" \in DOMAIN dlg /\ dlg.kind = "pin"
        /\ dlg.first # Nothing => dlg.first \in Pins /\ PinOk(dlg.first)
    BY <1>6 DEF PinTyped, GuideDialog, In
  <2>2. PICK p \in Pins :
          /\ PinOk(p) /\ UNCHANGED steps
          /\ wiz' = [wiz EXCEPT !.pins = <<dlg.first, p>>,
                                !.text = IF SecondPin(p) THEN TextOf ELSE @]
          /\ dlg' = IF dlg.first = Nothing THEN [dlg EXCEPT !.first = p]
                    ELSE IF ~SecondPin(p) THEN [dlg EXCEPT !.first = Nothing]
                    ELSE IF TextOf \in Mnemonics THEN [kind |-> "store", pin |-> p] ELSE NoDialog
    BY <1>6 DEF PinTyped
  <2>3. PICK text \in {wiz.text, TextOf} :
          /\ wiz' = [wiz EXCEPT !.pins = <<dlg.first, p>>, !.text = text]
          /\ SecondPin(p) => text = TextOf
    <3>1. CASE SecondPin(p)
      BY <2>2, <3>1
    <3>2. CASE ~SecondPin(p)
      <4>1. wiz' = [wiz EXCEPT !.pins = <<dlg.first, p>>, !.text = wiz.text]
        BY <2>2, <3>2
      <4>. QED  BY <3>2, <4>1
    <3>. QED  BY <3>1, <3>2
  <2>4. text \in Mnemonics \cup {<< >>} /\ (wiz.recovery => text = wiz.text)
    BY <1>3 DEF TextOf, GuideType
  <2>5. wiz' \in GuideType
    <3>1. <<dlg.first, p>> \in Seq(Pins \cup {Nothing})
      BY <2>1
    <3>. QED  BY <2>3, <2>4, <3>1 DEF GuideType
  <2>6. /\ wiz'.mlen = wiz.mlen /\ wiz'.recovery = wiz.recovery /\ wiz'.words = wiz.words
        /\ wiz'.seen = wiz.seen /\ wiz'.picked = wiz.picked /\ wiz'.text = text
        /\ wiz'.pins = <<dlg.first, p>>
    BY <2>3 DEF GuideType
  <2>7. \A s : Level(s) <= Level(TopStep(steps)) /\ Earned(s, wiz) => Earned(s, wiz')
    BY <2>4, <2>6, EarnedTyped
  <2>8. AllEarned'
    BY <2>2, <2>7, EarnedOff
  <2>9. GuideDialog'
    <3>1. CASE dlg.first = Nothing
      <4>1. dlg'.kind = "pin" /\ dlg'.first = p /\ "first" \in DOMAIN dlg'
        BY <2>1, <2>2, <3>1
      <4>. QED  BY <2>2, <4>1 DEF GuideDialog, In
    <3>2. CASE dlg.first # Nothing /\ ~SecondPin(p)
      <4>1. dlg'.kind = "pin" /\ dlg'.first = Nothing /\ "first" \in DOMAIN dlg'
        BY <2>1, <2>2, <3>2
      <4>. QED  BY <4>1 DEF GuideDialog, In
    <3>3. CASE dlg.first # Nothing /\ SecondPin(p) /\ TextOf \in Mnemonics
      <4>1. dlg' = [kind |-> "store", pin |-> p]
        BY <2>2, <3>3
      <4>2. text \in Mnemonics /\ wiz.picked = text
        <5>1. text = TextOf
          BY <2>3, <3>3
        <5>2. CASE wiz.recovery
          <6>1. text # << >>
            BY <3>3, <5>1, PositiveCounts, WizardAssumption
          <6>. QED  BY <1>3, <2>4, <3>3, <5>1, <5>2, <6>1
        <5>3. CASE ~wiz.recovery
          BY <1>3, <3>3, <5>1, <5>3 DEF TextOf
        <5>. QED  BY <5>2, <5>3
      <4>3. wiz'.pins = <<p, p>>
        BY <2>6, <3>3 DEF SecondPin
      <4>. QED  BY <2>2, <2>6, <4>1, <4>2, <4>3 DEF GuideDialog, In
    <3>4. CASE dlg.first # Nothing /\ SecondPin(p) /\ TextOf \notin Mnemonics
      <4>1. dlg'.kind = "none"
        BY <2>2, <3>4 DEF NoDialog
      <4>. QED  BY <4>1, PlainDialog
    <3>. QED  BY <3>1, <3>2, <3>3, <3>4
  <2>. QED  BY <2>5, <2>8, <2>9 DEF GuideCore
<1>. QED  BY <1>4, <1>5, <1>6

\* All moves of the guide
LEMMA MovesKeepCore ==
  ASSUME StackInv, WizardsAside, GuideCore, modal = "guide", GuideMoves
  PROVE  GuideCore'
BY PlainMoves, FirstMoves, ShowMoves, ConfirmMovesOn, RecoveryMoves, PinMoves
   DEF GuideMoves, GuideStays

-----------------------------------------------------------------------------
(* The guide stores and compares the wallet                                 *)

\* What the guide's moves have before them
LEMMA MovesUnmade ==
  ASSUME WizardInv, WizardsAside, modal = "guide", GuideMoves
  PROVE  /\ UNCHANGED <<chip, account>> /\ (Made' <=> Made)
         /\ Onward \/ (account = Nothing /\ account' = Nothing)
<1>1. UNCHANGED <<chip, account>>
  BY MovesKeepSeed
<1>2. CASE Onward
  BY <1>1, <1>2, OnwardMade DEF WizardInv
<1>3. CASE ~Onward
  <2>1. Before /\ Before'
    BY <1>3, MovesBefore DEF WizardInv
  <2>2. ~Made
    BY <2>1, BeforeMade
  <2>3. ~Made'
    <3>1. TopStep(steps') \notin Named
      BY <2>1, HighSteps DEF Before, Named
    <3>. QED  BY <2>1, <3>1 DEF Made, Before, In
  <2>4. account = Nothing
    BY <2>2 DEF WizardInv, GuideSeed
  <2>. QED  BY <1>1, <2>2, <2>3, <2>4
<1>. QED  BY <1>2, <1>3

\* They keep the invariant of the guide.
LEMMA MovesKeep ==
  ASSUME WizardInv, WizardsAside, modal = "guide", modal' = modal, GuideMoves
  PROVE  GuideSeed' /\ SeedTypes' /\ GuideInv'
<1>1. /\ UNCHANGED <<chip, account>> /\ (Made' <=> Made)
      /\ Onward \/ (account = Nothing /\ account' = Nothing)
  BY MovesUnmade
<1>2. GuideSeed'
  BY <1>1 DEF WizardInv, GuideSeed, Wizards
<1>3. SeedTypes'
  BY <1>1, TypesKept DEF WizardInv, At
<1>4. GuideCore'
  BY MovesKeepCore DEF WizardInv, GuideInv, GuideCore
<1>5. GuideAccount'
  <2>1. CASE Onward
    <3>1. wiz' = wiz /\ GuideAccount
      BY <2>1 DEF Onward, WizardInv, GuideInv
    <3>. QED  BY <1>1, <3>1 DEF GuideAccount
  <2>2. CASE account' = Nothing
    BY <2>2 DEF GuideAccount
  <2>. QED  BY <1>1, <2>1, <2>2
<1>. QED  BY <1>2, <1>3, <1>4, <1>5 DEF GuideInv, GuideCore

\* The wallet is stored.
LEMMA StoredKeeps ==
  ASSUME WizardInv, WizardsAside, modal = "guide", modal' = modal, Stored
  PROVE  GuideSeed' /\ SeedTypes' /\ GuideInv'
<1>1. /\ wiz \in GuideType /\ AllEarned /\ GuideDialog /\ Rising(steps) /\ DialogPlace /\ SeedTypes
      /\ In("store") /\ dlg.kind = "store"
  BY DEF WizardInv, GuideInv, StackInv, Stored, In
<1>2. TopStep(steps) = "ENTER_PASSWD" /\ "ENTER_PASSWD" \notin Named
  BY <1>1 DEF DialogPlace, Opener, Named
<1>3. account = Nothing
  BY <1>1, <1>2 DEF Made, In, WizardInv, GuideSeed
<1>4. /\ dlg.pin \in Pins /\ PinOk(dlg.pin) /\ wiz.pins = <<dlg.pin, dlg.pin>>
      /\ wiz.text \in Mnemonics /\ wiz.picked = wiz.text
  BY <1>1 DEF GuideDialog
<1>. DEFINE c == [words |-> wiz.text, pass |-> Nothing, pin |-> dlg.pin, keeps |-> FALSE]
<1>5. /\ wiz' = wiz /\ UNCHANGED steps
      /\ \/ dlg' = NoDialog /\ UNCHANGED <<chip, account>>
         \/ dlg' = NoDialog /\ chip' = c /\ account' = account
         \/ dlg' = [kind |-> "check"] /\ chip' = c /\ account' = AccountOf(c)
  BY DEF Stored, Stays
<1>6. /\ c \in ChipType /\ PinOk(c.pin) /\ c.pass = Nothing /\ c.pin = dlg.pin /\ c.words = wiz.text
      /\ AccountOf(c) \in AccountType /\ AccountOf(c) # Nothing /\ c # Nothing
      /\ AccountOf(c).words = wiz.text
  <2>1. c \in ChipType
    BY <1>4 DEF ChipType
  <2>. QED  BY <1>4, <2>1, ChipsAreRecords DEF AccountOf
<1>. HIDE DEF c
<1>7. AllEarned'
  BY <1>1, <1>5 DEF AllEarned
<1>8. dlg'.kind \in {"none", "check"} /\ (dlg'.kind = "check" <=> account' # Nothing)
  BY <1>3, <1>5, <1>6 DEF NoDialog
<1>9. GuideDialog'
  BY <1>8, PlainDialog
<1>10. GuideSeed'
  BY <1>2, <1>5, <1>8 DEF GuideSeed, Made, In, Wizards
<1>11. SeedTypes'
  <2>1. CASE chip' = chip
    BY <1>1, <1>3, <1>5, <1>6, <2>1 DEF SeedTypes
  <2>2. CASE chip' = c
    <3>1. account' = Nothing \/ account' = AccountOf(c)
      BY <1>3, <1>5
    <3>2. AccountOf(chip)' = AccountOf(c)
      BY <2>2 DEF AccountOf
    <3>. QED  BY <1>6, <2>2, <3>1, <3>2 DEF SeedTypes
  <2>. QED  BY <1>5, <2>1, <2>2
<1>12. GuideAccount'
  BY <1>3, <1>4, <1>5, <1>6 DEF GuideAccount
<1>. QED  BY <1>1, <1>5, <1>7, <1>9, <1>10, <1>11, <1>12 DEF GuideInv

\* What was stored is compared.
LEMMA VerifiedKeeps ==
  ASSUME WizardInv, WizardsAside, modal = "guide", modal' = modal, Verified
  PROVE  GuideSeed' /\ SeedTypes' /\ GuideInv'
<1>1. /\ wiz \in GuideType /\ AllEarned /\ GuideDialog /\ Rising(steps) /\ DialogPlace /\ SeedTypes
      /\ GuideAccount /\ In("check") /\ dlg.kind = "check"
  BY DEF WizardInv, GuideInv, StackInv, Verified, In
<1>2. TopStep(steps) = "ENTER_PASSWD" /\ "ENTER_PASSWD" \notin Named /\ TopStep(steps) # NoStep
  BY <1>1 DEF DialogPlace, Opener, Named, NoStep
<1>3. account # Nothing
  BY <1>1 DEF Made, WizardInv, GuideSeed
<1>4. /\ chip # Nothing /\ chip \in ChipType /\ PinOk(chip.pin) /\ AccountOf(chip) = account
      /\ chip.words = account.words /\ account \in AccountType
      /\ chip.pass = Nothing /\ wiz.pins = <<chip.pin, chip.pin>> /\ wiz.picked = chip.words
  BY <1>1, <1>3 DEF SeedTypes, At, GuideAccount
<1>5. PICK same \in BOOLEAN, xpub \in BOOLEAN :
        /\ chip' = [chip EXCEPT !.keeps = same]
        /\ account' = IF same /\ xpub THEN account ELSE Nothing
        /\ IF same /\ xpub THEN Onto("WALLET_NAME_TIPS") ELSE Stays
  BY DEF Verified, Checked
<1>6. wiz' = [wiz EXCEPT !.text = << >>]
  BY DEF Verified
<1>7. /\ chip' \in ChipType /\ chip'.pin = chip.pin /\ chip'.words = chip.words
      /\ chip'.pass = chip.pass
  BY <1>4, <1>5 DEF ChipType
<1>8. chip' # Nothing /\ AccountOf(chip)' = AccountOf(chip)
  BY <1>7, ChipsAreRecords DEF AccountOf
<1>9. SeedTypes'
  BY <1>4, <1>5, <1>7, <1>8 DEF SeedTypes
<1>10. wiz' \in GuideType
  BY <1>1, <1>6 DEF GuideType
<1>11. /\ wiz'.mlen = wiz.mlen /\ wiz'.recovery = wiz.recovery /\ wiz'.words = wiz.words
       /\ wiz'.seen = wiz.seen /\ wiz'.picked = wiz.picked /\ wiz'.text = << >>
       /\ wiz'.pins = wiz.pins
  BY <1>1, <1>6 DEF GuideType
<1>12. \A s : Level(s) <= Level(TopStep(steps)) /\ Earned(s, wiz) => Earned(s, wiz')
  BY <1>11, EarnedTyped
<1>13. Earned("WALLET_NAME_TIPS", wiz')
  <2>1. Earned("ENTER_PASSWD", wiz')
    BY <1>1, <1>2, <1>12, EarnedTop, LevelRange
  <2>. QED  BY <2>1, WordSteps, HighSteps DEF Earned
<1>14. CASE same /\ xpub
  <2>1. steps' = Push(steps, "WALLET_NAME_TIPS") /\ dlg'.kind = "none" /\ account' = account
    BY <1>5, <1>14 DEF Onto, NoDialog
  <2>2. Level(TopStep(steps)) < Level("WALLET_NAME_TIPS")
    BY <1>2, WordSteps, HighSteps
  <2>3. AllEarned'
    BY <1>1, <1>12, <1>13, <2>1, <2>2, EarnedOnto
  <2>4. TopStep(steps') = "WALLET_NAME_TIPS"
    BY <1>1, <2>1, <2>2, Pushed
  <2>5. GuideSeed'
    BY <1>3, <2>1, <2>4 DEF GuideSeed, Made, Named, Wizards
  <2>6. GuideAccount'
    BY <1>4, <1>7, <1>11 DEF GuideAccount
  <2>. QED  BY <1>9, <1>10, <2>1, <2>3, <2>5, <2>6, PlainDialog DEF GuideInv
<1>15. CASE ~(same /\ xpub)
  <2>1. steps' = steps /\ dlg'.kind = "none" /\ account' = Nothing
    BY <1>5, <1>15 DEF Stays, NoDialog
  <2>2. AllEarned'
    BY <1>1, <1>12, <2>1, EarnedOff
  <2>3. GuideSeed'
    BY <1>2, <2>1 DEF GuideSeed, Made, In, Wizards
  <2>4. GuideAccount'
    BY <2>1 DEF GuideAccount
  <2>. QED  BY <1>9, <1>10, <2>1, <2>2, <2>3, <2>4, PlainDialog DEF GuideInv
<1>. QED  BY <1>14, <1>15

\* A loop that goes on stays where it is.
LEMMA StaysBeside ==
  ASSUME WizardInv, GuideStays \/ WizardStays, UNCHANGED <<req, page>>,
         account = Nothing \/ modal = "guide" \/ account' # Nothing
  PROVE  LoopPlace' /\ SeedBehind' /\ modal' = modal
<1>1. modal \in {"guide"} \cup Wizards
  BY GuidePlace, WizardPlace DEF WizardInv
<1>2. UNCHANGED <<cur, todo, modal, from, qr, strayed>>
  BY GuideStaysAside, WizardStaysAside, StaysQuiet DEF OnlyWizard
<1>3. LoopPlace'
  BY <1>2 DEF WizardInv, LoopPlace
<1>4. /\ SeedBehind /\ cur \in {"GUIDE", "MAINPANEL", "PASSPHRASE", "VERIFY"}
      /\ (cur = "GUIDE" => modal = "guide") /\ (modal = "guide" => cur = "GUIDE" \/ strayed)
      /\ ~Idle /\ modal # "reset"
  BY <1>1 DEF WizardInv, LoopPlace, Idle, Wizards
<1>5. req = Nothing /\ page = Nothing /\ from = Nothing /\ qr = "none"
  BY <1>4 DEF SeedBehind
<1>6. SeedBehind'
  BY <1>2, <1>4, <1>5, NothingIsNoPlace DEF SeedBehind
<1>. QED  BY <1>2, <1>3, <1>6

\* The guide goes on.
LEMMA GuideGoesOn ==
  ASSUME WizardInv, SessionInv, GuideStays, modal = "guide", UNCHANGED <<req, page>>
  PROVE  WizardInv'
<1>1. LoopPlace' /\ SeedBehind' /\ modal' = modal
  BY StaysBeside
<1>2. StackInv'
  BY StaysKeepStack DEF WizardInv, SessionInv
<1>3. GuideSeed' /\ SeedTypes' /\ GuideInv'
  BY <1>1, MovesKeep, StoredKeeps, VerifiedKeeps DEF GuideMoves, SessionInv
<1>4. PhraseInv'
  <2>1. dlg'.kind # "change"
    BY <1>1, <1>2 DEF StackInv, DialogPlace
  <2>. QED  BY <1>1, <2>1 DEF PhraseInv, In
<1>. QED  BY <1>1, <1>2, <1>3, <1>4 DEF WizardInv

-----------------------------------------------------------------------------
(* The passphrase wizard and the verification                               *)

\* What keeps a step of the passphrase wizard fit
LEMMA FitsLow ==
  ASSUME NEW step, NEW w, Level(step) <= 15, step # "SELECT_PASSPHRASE_TYPE"
  PROVE  Fits(step, w)
BY HighSteps DEF Fits

LEMMA FitsSame ==
  ASSUME NEW step, NEW w, NEW v, Fits(step, w), w.have => v.have,
         v.type = w.type, Level(step) <= 16 \/ (v.val = w.val /\ v.typed = w.typed)
  PROVE  Fits(step, v)
BY HighSteps DEF Fits, PhraseChosen

LEMMA FitsEarly ==
  ASSUME NEW step, NEW w, NEW v, Fits(step, w), w.have => v.have, Level(step) <= 15
  PROVE  Fits(step, v)
BY HighSteps DEF Fits

\* A step is taken back, or none; one that fits comes onto the stack; the top step fits.
LEMMA FitOff ==
  ASSUME Rising(steps), AllFit, steps' = steps \/ steps' = Pop(steps),
         \A step : Level(step) <= Level(TopStep(steps)) /\ Fits(step, wiz) => Fits(step, wiz')
  PROVE  AllFit'
<1>1. \A i \in DOMAIN steps : Fits(steps[i], wiz')
  BY LowerSteps DEF AllFit
<1>2. \A i \in DOMAIN steps' : i \in DOMAIN steps /\ steps'[i] = steps[i]
  BY Popped
<1>. QED  BY <1>1, <1>2 DEF AllFit

LEMMA FitOnto ==
  ASSUME Rising(steps), AllFit, NEW new, Fits(new, wiz'),
         \/ Level(TopStep(steps)) < Level(new) /\ steps' = Push(steps, new)
         \/ /\ TopStep(steps) # NoStep /\ Level(TopStep(steps)) <= Level(new)
            /\ steps' = Push(Pop(steps), new),
         \A step : Level(step) <= Level(TopStep(steps)) /\ Fits(step, wiz) => Fits(step, wiz')
  PROVE  AllFit'
<1>1. \A i \in DOMAIN steps : Fits(steps[i], wiz')
  BY LowerSteps DEF AllFit
<1>2. TopStep(steps) # NoStep => steps # << >>
  BY DEF TopStep
<1>3. \A i \in DOMAIN steps' : steps'[i] = new \/ (i \in DOMAIN steps /\ steps'[i] = steps[i])
  BY <1>2, Pushed, Swapped
<1>. QED  BY <1>1, <1>3 DEF AllFit

LEMMA FitTop ==
  ASSUME Rising(steps), AllFit, TopStep(steps) # NoStep
  PROVE  Fits(TopStep(steps), wiz)
<1>1. steps # << >>
  BY DEF TopStep
<1>. QED  BY <1>1, TopOf DEF AllFit

\* The moves of the wizards, those of the keyboard included
WizardMoves == WizardStays \/ WordTyped \/ WordLeft

\* They have a step on the stack, and before it is the last one they do not touch the wallet.
LEMMA MovesOnStep ==
  ASSUME DialogPlace, modal \in Wizards, WizardMoves
  PROVE  /\ TopStep(steps) # NoStep
         /\ PhraseSaved \/ ~At("phrase", "SAVE_PASSPHRASE")
<1>1. CASE WizardOnward \/ WizardBackward
  BY <1>1 DEF WizardOnward, WizardBackward, WizardLeadsTo, WizardLeadsBack, NoStep, At
<1>2. CASE ActionDetected \/ TypeSelected \/ PinPassed \/ PinRefused \/ WizardCount \/ VerifyStarts
           \/ PhraseStarts
  BY <1>2 DEF ActionDetected, TypeSelected, PinPassed, PinRefused, WizardCount, VerifyStarts,
     PhraseStarts, InWizard, At, NoStep
<1>3. CASE WordsDiffer \/ WordsKept \/ WordTyped \/ WordLeft
  <2>1. dlg.kind = "words"
    BY <1>3 DEF WordsDiffer, WordsKept, Compared, WordTyped, WordLeft, In
  <2>2. TopStep(steps) = "VERIFY_MNEMONIC"
    BY <2>1 DEF DialogPlace, Wizards
  <2>. QED  BY <2>2 DEF At, NoStep
<1>4. CASE PhraseTyped \/ PhraseConfirmed \/ PhraseLeft
  <2>1. TopStep(steps) = "ENTER_PASSPHRASE"
    BY <1>4 DEF PhraseTyped, PhraseConfirmed, PhraseLeft, In, DialogPlace, Opener
  <2>. QED  BY <2>1 DEF At, NoStep
<1>5. CASE PhraseSaved
  BY <1>5 DEF PhraseSaved, At, NoStep
<1>. QED  BY <1>1, <1>2, <1>3, <1>4, <1>5 DEF WizardMoves, WizardStays

\* So there is a wallet.
LEMMA MovesHaveWallet ==
  ASSUME WizardInv, modal \in Wizards, WizardMoves
  PROVE  /\ chip # Nothing /\ chip \in ChipType /\ PinOk(chip.pin)
         /\ account # Nothing => account \in AccountType /\ chip.words = account.words
<1>1. TopStep(steps) # NoStep
  BY MovesOnStep DEF WizardInv, StackInv
<1>2. steps # << >>
  BY <1>1 DEF TopStep
<1>. QED  BY <1>2 DEF WizardInv, GuideSeed, SeedTypes

\* What the wallet is after them
LEMMA MovesKeepWallet ==
  ASSUME WizardInv, modal \in Wizards, modal' = modal, WizardMoves
  PROVE  /\ chip' # Nothing /\ (account # Nothing => account' # Nothing) /\ SeedTypes'
         /\ chip.keeps => chip'.keeps
<1>1. /\ chip # Nothing /\ chip \in ChipType /\ PinOk(chip.pin)
      /\ account # Nothing => account \in AccountType /\ chip.words = account.words
  BY MovesHaveWallet
<1>2. DialogPlace /\ SeedTypes
  BY DEF WizardInv, StackInv
<1>3. CASE WordsKept
  <2>1. chip' = [chip EXCEPT !.keeps = TRUE] /\ account' = account /\ ~At("phrase", "SAVE_PASSPHRASE")
    BY <1>2, <1>3, MovesOnStep DEF WordsKept, Compared, In, At, NoDialog
  <2>2. /\ chip' \in ChipType /\ chip'.pin = chip.pin /\ chip'.words = chip.words
        /\ chip'.pass = chip.pass /\ chip'.keeps = TRUE
    BY <1>1, <2>1 DEF ChipType
  <2>3. chip' # Nothing /\ AccountOf(chip)' = AccountOf(chip)
    BY <2>2, ChipsAreRecords DEF AccountOf
  <2>4. account # Nothing => AccountOf(chip) = account
    BY <1>1, <1>2, <2>1 DEF SeedTypes
  <2>5. SeedTypes'
    BY <1>1, <2>1, <2>2, <2>3, <2>4 DEF SeedTypes
  <2>. QED  BY <1>1, <2>1, <2>2, <2>3, <2>5
<1>4. CASE PhraseSaved
  <2>1. At("phrase", "SAVE_PASSPHRASE") /\ modal = "phrase" /\ TopStep(steps) # NoStep /\ wiz' = wiz
        /\ TopStep(steps) = "SAVE_PASSPHRASE"
    BY <1>4 DEF PhraseSaved, At, NoStep
  <2>2. AllFit /\ WordsKeptFor(wiz) /\ Rising(steps)
    BY <2>1 DEF WizardInv, PhraseInv, StackInv
  <2>3. PhraseChosen(wiz)
    BY <2>1, <2>2, FitTop DEF Fits
  <2>4. wiz.val \in Phrases \cup {Nothing} /\ (wiz.val # Nothing => chip.keeps)
        /\ (wiz.type = 1 <=> wiz.val = Nothing)
    BY <2>2, <2>3, RecordsAssumption DEF PhraseChosen, WordsKeptFor
  <2>5. PICK set \in BOOLEAN, got \in BOOLEAN :
          /\ got => set
          /\ chip' = IF set THEN [chip EXCEPT !.pass = wiz.val] ELSE chip
          /\ account' = IF got THEN AccountOf(chip') ELSE account
          /\ steps' = IF SavedWhen(set, got) THEN Push(Pop(steps), "WALLET_NAME_TIPS") ELSE steps
          /\ UNCHANGED dlg
    BY <1>4, <2>4 DEF PhraseSaved
  <2>6. /\ chip' \in ChipType /\ chip'.pin = chip.pin /\ chip'.words = chip.words
        /\ chip'.keeps = chip.keeps /\ chip'.pass \in {chip.pass, wiz.val}
    <3>1. CASE set
      <4>1. chip' = [chip EXCEPT !.pass = wiz.val]
        BY <2>5, <3>1
      <4>. QED  BY <1>1, <2>4, <4>1 DEF ChipType
    <3>2. CASE ~set
      BY <1>1, <2>5, <3>2
    <3>. QED  BY <3>1, <3>2
  <2>7. /\ chip' # Nothing /\ AccountOf(chip') \in AccountType /\ AccountOf(chip') # Nothing
        /\ AccountOf(chip').words = chip.words
    BY <2>6, ChipsAreRecords DEF AccountOf
  <2>8. chip'.pass # Nothing => chip'.keeps
    BY <1>1, <1>2, <2>4, <2>6 DEF SeedTypes
  <2>9. CASE got
    <3>1. account' = AccountOf(chip')
      BY <2>5, <2>9
    <3>. QED  BY <1>1, <2>6, <2>7, <2>8, <3>1 DEF SeedTypes, AccountOf
  <2>10. CASE ~got
    <3>1. account' = account /\ UNCHANGED <<steps, dlg>>
      BY <2>5, <2>10 DEF SavedWhen
    <3>2. At("phrase", "SAVE_PASSPHRASE")'
      BY <2>1, <3>1 DEF At
    <3>. QED  BY <1>1, <2>6, <2>7, <2>8, <3>1, <3>2 DEF SeedTypes
  <2>. QED  BY <2>9, <2>10
<1>5. CASE ~WordsKept /\ ~PhraseSaved
  <2>1. UNCHANGED <<chip, account>>
    BY <1>5 DEF WizardMoves, WizardStays, WizardOnward, WizardBackward, ActionDetected, TypeSelected,
       PinPassed, PinRefused, WizardCount, VerifyStarts, WordsDiffer, PhraseStarts, PhraseTyped,
       PhraseConfirmed, PhraseLeft, WordTyped, WordLeft
  <2>2. SeedTypes'
    BY <1>2, <1>5, <2>1, MovesOnStep, TypesKept
  <2>. QED  BY <1>1, <2>1, <2>2
<1>. QED  BY <1>3, <1>4, <1>5

\* What the wizard of a passphrase has of its own
PhraseCore == AllFit /\ WordsKeptFor(wiz) /\ PhraseDialog

\* Other dialogs rely on nothing.
LEMMA OtherDialog ==
  ASSUME dlg'.kind # "phrase"
  PROVE  PhraseDialog'
BY DEF PhraseDialog, In

\* The moves that leave its locals alone
LEMMA PlainPhrase ==
  ASSUME StackInv, PhraseCore, modal = "phrase",
         \/ WizardOnward \/ WizardBackward \/ PinRefused \/ VerifyStarts \/ WordsDiffer
         \/ PhraseLeft \/ WordTyped \/ WordLeft
  PROVE  PhraseCore'
<1>1. Rising(steps) /\ AllFit /\ UNCHANGED <<wiz, chip>>
  BY DEF StackInv, PhraseCore, WizardOnward, WizardBackward, PinRefused, VerifyStarts, WordsDiffer,
     PhraseLeft, WordTyped, WordLeft
<1>2. \A step : Fits(step, wiz) => Fits(step, wiz')
  BY <1>1
<1>3. CASE WizardOnward
  <2>1. PICK step \in WizardLeadsTo(TopStep(steps)) : Onto(step)
    BY <1>3 DEF WizardOnward
  <2>2. Level(TopStep(steps)) < Level(step)
    BY LeadsUp
  <2>3. Fits(step, wiz')
    BY DEF WizardLeadsTo, Fits
  <2>4. steps' = Push(steps, step) /\ dlg' = NoDialog
    BY <2>1 DEF Onto
  <2>5. AllFit'
    BY <1>1, <1>2, <2>2, <2>3, <2>4, FitOnto
  <2>. QED  BY <1>1, <2>4, <2>5, OtherDialog DEF PhraseCore, WordsKeptFor, NoDialog
<1>4. CASE ~WizardOnward
  <2>1. /\ steps' = steps \/ steps' = Pop(steps)
        /\ dlg'.kind \in {"none", "words"}
    BY <1>4 DEF WizardBackward, PinRefused, VerifyStarts, WordsDiffer, PhraseLeft, WordTyped,
       WordLeft, Off, NoDialog, Asking, WordsStart
  <2>2. AllFit'
    BY <1>1, <1>2, <2>1, FitOff
  <2>. QED  BY <1>1, <2>1, <2>2, OtherDialog DEF PhraseCore, WordsKeptFor
<1>. QED  BY <1>3, <1>4

\* The type of the wallet is selected and the PIN asked for.
LEMMA ChoicePhrase ==
  ASSUME StackInv, PhraseCore, modal = "phrase", ActionDetected \/ TypeSelected \/ PinPassed
  PROVE  PhraseCore'
<1>1. /\ Rising(steps) /\ AllFit /\ WordsKeptFor(wiz) /\ UNCHANGED chip
      /\ WizardFields \subseteq DOMAIN wiz /\ wiz.type \in {0, 1, 2}
  BY DEF StackInv, PhraseCore, ActionDetected, TypeSelected, PinPassed, Wizards
<1>2. PhraseDialog'
  <2>1. dlg' = NoDialog
    BY DEF ActionDetected, TypeSelected, PinPassed, InWizard, At, Onto
  <2>. QED  BY <2>1, OtherDialog DEF NoDialog
<1>3. CASE ActionDetected
  <2>1. /\ TopStep(steps) = "ACTION_DETECTION" /\ steps' = Push(Pop(steps), Detected)
        /\ wiz' = [wiz EXCEPT !.type = IF wiz.have THEN wiz.type ELSE 0]
    BY <1>3 DEF ActionDetected, InWizard, At
  <2>2. wiz'.have = wiz.have /\ wiz'.type = IF wiz.have THEN wiz.type ELSE 0
    BY <1>1, <2>1 DEF WizardFields
  <2>3. Fits(Detected, wiz') /\ Detected \in {"SELECT_PASSPHRASE_TYPE", "ENTER_PASSWD"}
    BY <2>2 DEF Fits, Detected
  <2>4. Level(TopStep(steps)) = 3 /\ Level(Detected) \in {4, 15} /\ TopStep(steps) # NoStep
    BY <2>1, <2>3, LowSteps, WordSteps DEF NoStep
  <2>5. \A step : Level(step) <= 3 /\ Fits(step, wiz) => Fits(step, wiz')
    BY <2>2, FitsEarly, LevelRange
  <2>6. AllFit'
    BY <1>1, <2>1, <2>3, <2>4, <2>5, FitOnto
  <2>. QED  BY <1>1, <1>2, <2>2, <2>6 DEF PhraseCore, WordsKeptFor
<1>4. CASE TypeSelected
  <2>1. PICK type \in {1, 2} : wiz' = [wiz EXCEPT !.type = type]
    BY <1>4 DEF TypeSelected
  <2>2. TopStep(steps) = "SELECT_PASSPHRASE_TYPE" /\ steps' = Push(steps, "ENTER_PASSWD")
    BY <1>4 DEF TypeSelected, InWizard, At, Onto
  <2>3. wiz'.have = wiz.have /\ wiz.have
    <3>1. Fits(TopStep(steps), wiz)
      BY <1>1, <2>2, FitTop DEF NoStep
    <3>. QED  BY <2>1, <2>2, <3>1, <1>1 DEF Fits, WizardFields
  <2>4. Level(TopStep(steps)) = 4 /\ Level("ENTER_PASSWD") = 15
    BY <2>2, LowSteps, WordSteps
  <2>5. \A step : Level(step) <= 4 /\ Fits(step, wiz) => Fits(step, wiz')
    <3> SUFFICES ASSUME NEW step, Level(step) <= 4, Fits(step, wiz) PROVE Fits(step, wiz')
      OBVIOUS
    <3>1. Level(step) <= 15
      BY LevelRange
    <3>2. wiz.have => wiz'.have
      BY <2>3
    <3>. QED  BY <3>1, <3>2, FitsEarly
  <2>6. AllFit'
    <3>1. Fits("ENTER_PASSWD", wiz')
      BY DEF Fits
    <3>. QED  BY <1>1, <2>2, <2>4, <2>5, <3>1, FitOnto
  <2>. QED  BY <1>1, <1>2, <2>3, <2>6 DEF PhraseCore, WordsKeptFor
<1>5. CASE PinPassed
  <2>1. TopStep(steps) = "ENTER_PASSWD" /\ steps' = Push(Pop(steps), AfterPin)
    BY <1>5 DEF PinPassed, InWizard, At
  <2>2. wiz' = [wiz EXCEPT !.pinOk = TRUE, !.val = IF wiz.type = 1 THEN Nothing ELSE wiz.val]
    BY <1>5 DEF PinPassed
  <2>3. /\ wiz'.have = wiz.have /\ wiz'.type = wiz.type
        /\ wiz.type = 1 => wiz'.val = Nothing
    BY <1>1, <2>2 DEF WizardFields
  <2>4. AfterPin \in {"FIRST_USE_PASSPHRASE_TIPS", "SAVE_PASSPHRASE", "ENTER_PASSPHRASE"}
    BY <1>1 DEF AfterPin
  <2>5. Fits(AfterPin, wiz')
    BY <1>1, <2>3 DEF AfterPin, Fits, PhraseChosen
  <2>6. Level(TopStep(steps)) = 15 /\ Level(AfterPin) \in {16, 17} /\ TopStep(steps) # NoStep
    BY <2>1, <2>4, WordSteps, HighSteps DEF NoStep
  <2>7. \A step : Level(step) <= 15 /\ Fits(step, wiz) => Fits(step, wiz')
    BY <2>3, FitsEarly, LevelRange
  <2>8. AllFit'
    BY <1>1, <2>1, <2>5, <2>6, <2>7, FitOnto
  <2>. QED  BY <1>1, <1>2, <2>3, <2>8 DEF PhraseCore, WordsKeptFor
<1>. QED  BY <1>3, <1>4, <1>5

\* The passphrase is typed twice.
LEMMA TypedPhrase ==
  ASSUME StackInv, PhraseCore, modal = "phrase", WizardsAside,
         PhraseStarts \/ PhraseTyped \/ PhraseConfirmed
  PROVE  PhraseCore'
<1>1. /\ Rising(steps) /\ AllFit /\ WordsKeptFor(wiz) /\ PhraseDialog /\ UNCHANGED chip
      /\ WizardFields \subseteq DOMAIN wiz
  BY DEF StackInv, PhraseCore, PhraseStarts, PhraseTyped, PhraseConfirmed, Wizards
<1>2. TopStep(steps) = "ENTER_PASSPHRASE" /\ Level(TopStep(steps)) = 16 /\ TopStep(steps) # NoStep
  BY HighSteps DEF PhraseStarts, PhraseTyped, PhraseConfirmed, At, In, StackInv, DialogPlace, Opener,
     NoStep
<1>3. wiz'.have = wiz.have /\ wiz'.type = wiz.type
  BY <1>1 DEF PhraseStarts, PhraseTyped, PhraseConfirmed, WizardFields
<1>4. \A step : Level(step) <= 16 /\ Fits(step, wiz) => Fits(step, wiz')
  BY <1>3, FitsSame
<1>5. WordsKeptFor(wiz)'
  BY <1>1, <1>3 DEF WordsKeptFor
<1>6. CASE PhraseStarts
  <2>1. steps' = steps /\ dlg' = [kind |-> "phrase", first |-> Nothing]
    BY <1>6 DEF PhraseStarts
  <2>2. AllFit'
    BY <1>1, <1>2, <1>4, <2>1, FitOff
  <2>. QED  BY <1>5, <2>1, <2>2 DEF PhraseCore, PhraseDialog
<1>7. CASE PhraseTyped
  <2>1. In("phrase") /\ steps' = steps
    BY <1>7 DEF PhraseTyped
  <2>2. AllFit'
    BY <1>1, <1>2, <1>4, <2>1, FitOff
  <2>3. PICK p \in Phrases :
          dlg' = IF dlg.first # Nothing THEN [dlg EXCEPT !.first = Nothing]
                 ELSE IF PhraseOk(p) THEN [dlg EXCEPT !.first = p] ELSE dlg
    BY <1>7 DEF PhraseTyped
  <2>4. "first" \in DOMAIN dlg /\ (dlg.first # Nothing => dlg.first \in Phrases /\ PhraseOk(dlg.first))
    BY <1>1, <2>1 DEF PhraseDialog
  <2>5. /\ "first" \in DOMAIN dlg'
        /\ dlg'.first # Nothing => dlg'.first \in Phrases /\ PhraseOk(dlg'.first)
    <3>1. CASE dlg.first # Nothing
      BY <2>3, <2>4, <3>1
    <3>2. CASE dlg.first = Nothing /\ PhraseOk(p)
      BY <2>3, <2>4, <3>2
    <3>3. CASE dlg.first = Nothing /\ ~PhraseOk(p)
      BY <2>3, <2>4, <3>3
    <3>. QED  BY <3>1, <3>2, <3>3
  <2>. QED  BY <1>5, <2>2, <2>5 DEF PhraseCore, PhraseDialog
<1>8. CASE PhraseConfirmed
  <2>1. In("phrase") /\ steps' = Push(steps, "SAVE_PASSPHRASE") /\ dlg' = NoDialog
    BY <1>8 DEF PhraseConfirmed, Onto
  <2>2. PICK p \in Phrases : /\ dlg.first = p
                             /\ wiz' = [wiz EXCEPT !.val = p, !.typed = <<dlg.first, p>>]
    BY <1>8 DEF PhraseConfirmed, SecondPhrase
  <2>3. PhraseOk(p)
    BY <1>1, <2>1, <2>2, RecordsAssumption DEF PhraseDialog
  <2>4. wiz'.type = 2
    <3>1. Fits(TopStep(steps), wiz)
      BY <1>1, <1>2, FitTop
    <3>. QED  BY <1>2, <1>3, <3>1 DEF Fits
  <2>5. wiz'.val = p /\ wiz'.typed = <<p, p>>
    BY <1>1, <2>2 DEF WizardFields
  <2>6. Fits("SAVE_PASSPHRASE", wiz')
    BY <2>3, <2>4, <2>5 DEF Fits, PhraseChosen
  <2>7. AllFit'
    BY <1>1, <1>2, <1>4, <2>1, <2>6, FitOnto, HighSteps
  <2>. QED  BY <1>5, <2>1, <2>7, OtherDialog DEF PhraseCore, NoDialog
<1>. QED  BY <1>6, <1>7, <1>8

\* The words are typed again, and kept.
LEMMA KeptPhrase ==
  ASSUME StackInv, PhraseCore, modal = "phrase", chip \in ChipType,
         WizardCount \/ WordsKept
  PROVE  PhraseCore'
<1>1. /\ Rising(steps) /\ AllFit /\ WordsKeptFor(wiz) /\ WizardFields \subseteq DOMAIN wiz
  BY DEF StackInv, PhraseCore, Wizards
<1>2. CASE WizardCount
  <2>1. TopStep(steps) = "SELECT_MNEMONIC_CNT" /\ Onto("VERIFY_MNEMONIC_TIPS") /\ UNCHANGED chip
    BY <1>2 DEF WizardCount, InWizard, At
  <2>2. PICK n \in Counts : wiz' = [wiz EXCEPT !.mlen = n]
    BY <1>2 DEF WizardCount
  <2>3. /\ wiz'.have = wiz.have /\ wiz'.type = wiz.type /\ wiz'.val = wiz.val
        /\ wiz'.typed = wiz.typed
    BY <1>1, <2>2 DEF WizardFields
  <2>4. \A step : Fits(step, wiz) => Fits(step, wiz')
    BY <2>3, FitsSame
  <2>5. Fits("VERIFY_MNEMONIC_TIPS", wiz')
    BY DEF Fits
  <2>6. AllFit'
    BY <1>1, <2>1, <2>4, <2>5, FitOnto, HighSteps DEF Onto
  <2>. QED  BY <1>1, <2>1, <2>3, <2>6, OtherDialog DEF PhraseCore, WordsKeptFor, Onto, NoDialog
<1>3. CASE WordsKept
  <2>1. chip' = [chip EXCEPT !.keeps = TRUE]
    BY <1>3 DEF WordsKept
  <2>2. chip' \in ChipType /\ chip'.keeps
    BY <2>1 DEF ChipType
  <2>3. chip' # Nothing /\ WordsKeptFor(wiz)'
    BY <2>2, ChipsAreRecords DEF WordsKeptFor
  <2>4. CASE /\ wiz' = [wiz EXCEPT !.have = TRUE, !.type = 2]
             /\ steps' = <<"PASSPHRASE_TIPS", "ENTER_PASSPHRASE">> /\ dlg' = NoDialog
    <3>1. wiz'.type = 2 /\ dlg'.kind # "phrase"
      BY <1>1, <2>4 DEF WizardFields, NoDialog
    <3>2. DOMAIN steps' = 1..2 /\ steps'[1] = "PASSPHRASE_TIPS" /\ steps'[2] = "ENTER_PASSPHRASE"
      BY <2>4
    <3>3. AllFit'
      BY <3>1, <3>2 DEF AllFit, Fits
    <3>. QED  BY <2>3, <3>1, <3>3, OtherDialog DEF PhraseCore
  <2>5. CASE dlg' = Asking(chip.words, dlg.at) /\ UNCHANGED <<wiz, steps>>
    <3>1. dlg'.kind # "phrase" /\ AllFit'
      BY <1>1, <2>5 DEF Asking, AllFit
    <3>. QED  BY <2>3, <3>1, OtherDialog DEF PhraseCore
  <2>. QED  BY <1>3, <2>4, <2>5 DEF WordsKept
<1>. QED  BY <1>2, <1>3

\* The passphrase is stored.
LEMMA SavedPhrase ==
  ASSUME WizardInv, PhraseCore, modal = "phrase", modal' = modal, PhraseSaved
  PROVE  PhraseCore'
<1>1. Rising(steps) /\ AllFit /\ WordsKeptFor(wiz) /\ UNCHANGED wiz
  BY DEF WizardInv, StackInv, PhraseCore, PhraseSaved
<1>2. /\ chip' # Nothing /\ (chip.keeps => chip'.keeps)
  BY MovesKeepWallet DEF WizardMoves, WizardStays, Wizards
<1>3. WordsKeptFor(wiz)'
  BY <1>1, <1>2 DEF WordsKeptFor
<1>4. TopStep(steps) = "SAVE_PASSPHRASE" /\ dlg' = NoDialog
  BY DEF PhraseSaved, At, Off
<1>5. \/ steps' = steps \/ steps' = Pop(steps)
      \/ steps' = Push(Pop(steps), "WALLET_NAME_TIPS")
  BY DEF PhraseSaved, Off
<1>6. Fits("WALLET_NAME_TIPS", wiz') /\ (\A step : Fits(step, wiz) => Fits(step, wiz'))
  BY <1>1 DEF Fits
<1>7. AllFit'
  <2>1. CASE steps' = steps \/ steps' = Pop(steps)
    BY <1>1, <1>6, <2>1, FitOff
  <2>2. CASE steps' = Push(Pop(steps), "WALLET_NAME_TIPS")
    BY <1>1, <1>4, <1>6, <2>2, FitOnto, HighSteps DEF NoStep
  <2>. QED  BY <1>5, <2>1, <2>2
<1>. QED  BY <1>3, <1>4, <1>7, OtherDialog DEF PhraseCore, NoDialog

\* The wizards of a device with a wallet go on.
LEMMA WizardGoesOn ==
  ASSUME WizardInv, SessionInv, modal \in Wizards, WizardMoves, UNCHANGED <<req, page>>
  PROVE  WizardInv'
<1>1. WizardsAside /\ StackInv /\ GuideSeed
  BY DEF SessionInv, WizardInv
<1>2. GuideStays \/ WizardStays
  BY DEF WizardMoves, GuideStays
<1>3. StackInv' /\ modal' = modal
  BY <1>1, <1>2, StaysKeepStack, GuideStaysAside, WizardStaysAside DEF OnlyWizard
<1>4. /\ chip' # Nothing /\ (account # Nothing => account' # Nothing) /\ SeedTypes'
  BY <1>3, MovesKeepWallet
<1>5. LoopPlace' /\ SeedBehind'
  BY <1>2, <1>4, StaysBeside
<1>6. GuideSeed' /\ GuideInv'
  BY <1>3, <1>4 DEF GuideSeed, GuideInv, Wizards
<1>7. PhraseInv'
  <2>1. ~In("change")'
    BY <1>3 DEF StackInv, DialogPlace, In, Wizards
  <2>2. CASE modal = "verify"
    BY <1>3, <2>1, <2>2 DEF PhraseInv
  <2>3. CASE modal = "phrase"
    <3>1. PhraseCore
      BY <2>3 DEF WizardInv, PhraseInv, PhraseCore
    <3>2. chip \in ChipType
      BY MovesHaveWallet
    <3>3. PhraseCore'
      BY <1>1, <1>3, <2>3, <3>1, <3>2, PlainPhrase, ChoicePhrase, TypedPhrase, KeptPhrase, SavedPhrase
      DEF WizardMoves, WizardStays
    <3>. QED  BY <1>3, <2>1, <2>3, <3>3 DEF PhraseInv, PhraseCore
  <2>. QED  BY <2>2, <2>3 DEF Wizards
<1>. QED  BY <1>3, <1>4, <1>5, <1>6, <1>7 DEF WizardInv

-----------------------------------------------------------------------------
(* The device                                                               *)

\* What the wizards of a device with a wallet share with the guide is the keyboard.
LEMMA SharedMoves ==
  ASSUME StackInv, GuideStays, modal \in Wizards
  PROVE  WordTyped \/ WordLeft
<1> SUFFICES ASSUME ~(WordTyped \/ WordLeft) PROVE FALSE
  OBVIOUS
<1>1. modal = "guide" \/ dlg.kind \in {"active", "show", "confirm", "pin", "store", "check"}
  BY DEF GuideStays, Language, ActiveStarts, ActiveAnswer, Onward, Backward,
     AccountSelect, CountSelected, SechipChecked, Generated, WordsShown, PageTurned, WordsRead,
     WordsLeft, LastPage, ConfirmStarts, ConfirmMoves, SelectionFree, ConfirmOk, ConfirmTimer,
     ConfirmLeft, RecoveryStarts, LetterTyped, LettersShown, RecoveryTyped, PinStarts, PinTyped,
     PinLeft, Stored, Verified, At, In
<1>. QED  BY <1>1 DEF StackInv, DialogPlace, Wizards

\* All wizards go on.
LEMMA WizardsGoOn ==
  ASSUME WizardInv, SessionInv, GuideStays \/ WizardStays, UNCHANGED <<req, page>>
  PROVE  WizardInv'
<1>1. StackInv
  BY DEF WizardInv
<1>2. CASE modal = "guide" /\ GuideStays
  BY <1>2, GuideGoesOn
<1>3. CASE modal \in Wizards /\ GuideStays
  <2>1. WizardMoves
    BY <1>1, <1>3, SharedMoves DEF WizardMoves
  <2>. QED  BY <1>3, <2>1, WizardGoesOn
<1>4. CASE WizardStays
  <2>1. modal \in Wizards /\ WizardMoves
    BY <1>1, <1>4, WizardPlace DEF WizardMoves
  <2>. QED  BY <2>1, WizardGoesOn
<1>. QED  BY <1>1, <1>2, <1>3, <1>4, GuidePlace

\* The first start
LEMMA WizardsBegin ==
  ASSUME Init
  PROVE  WizardInv
<1>1. /\ steps = << >> /\ wiz = NoWizard /\ dlg = NoDialog /\ from = Nothing /\ qr = "none"
      /\ strayed = FALSE /\ cur = BootWindow(account) /\ modal = "none"
      /\ req = Nothing /\ page = Nothing
  BY DEF Init, SessionInit, WindowsInit
<1>2. StackInv /\ LoopPlace /\ GuideSeed /\ GuideInv /\ PhraseInv
  BY <1>1, EmptyRises DEF StackInv, DialogPlace, LoopPlace, GuideSeed, GuideInv, PhraseInv, In,
     NoDialog, Wizards
<1>3. SeedTypes
  <2>1. CASE NoWallet
    BY <2>1 DEF NoWallet, SeedTypes
  <2>2. CASE chip \in {FirstChip(keeps) : keeps \in BOOLEAN} /\ account = AccountOf(chip)
    <3>1. chip \in ChipType /\ PinOk(chip.pin) /\ chip.pass = Nothing
      BY <2>2, FirstChipType
    <3>2. chip # Nothing /\ account \in AccountType /\ chip.words = account.words
      BY <2>2, <3>1, ChipsAreRecords DEF AccountOf
    <3>. QED  BY <2>2, <3>1, <3>2 DEF SeedTypes
  <2>. QED  BY <2>1, <2>2 DEF Init
<1>4. SeedBehind
  BY <1>1, NothingIsNoPlace DEF SeedBehind, BootWindow
<1>. QED  BY <1>2, <1>3, <1>4 DEF WizardInv

\* Every step of the device keeps the invariant of the wizards.
LEMMA WizardStep ==
  ASSUME WizardInv, SessionInv, [Next]_vars
  PROVE  WizardInv'
<1>1. CASE PanelScan \/ PanelHistory \/ PanelSetting
  BY <1>1, PanelBeside
<1>2. CASE ScanLeaves \/ ScanRequest \/ FirstGoes \/ ScanBad \/ ScanActivation \/ ScanPairing
  BY <1>2, ScanBeside
<1>3. CASE ScanFirst \/ ViewRuns \/ UNCHANGED vars
  BY <1>3, ViewBeside
<1>4. CASE QrResumes \/ QrErrorClosed \/ QrActivates \/ QuietHandler
  BY <1>4, QrBeside
<1>5. CASE Windows /\ UNCHANGED gvars
  BY <1>5, WindowsBeside
<1>6. CASE Restart
  BY <1>6, RestartBeside
<1>7. CASE (GuideNext \/ WizardNext) /\ UNCHANGED <<uvars, req, page>>
  <2>1. UNCHANGED <<req, page>>
    BY <1>7
  <2>2. CASE GuideStarts
    BY <2>1, <2>2, GuideBegins
  <2>3. CASE ActiveScans \/ GuideDone
    BY <2>1, <2>3, GuideOver
  <2>4. CASE GuideStays \/ WizardStays
    BY <2>1, <2>4, WizardsGoOn
  <2>5. CASE \/ WizardStarts("PASSPHRASE", "phrase", "PASSPHRASE_TIPS")
             \/ WizardStarts("VERIFY", "verify", "VERIFY_TIPS")
    BY <2>1, <2>5, WizardBegins DEF Wizards
  <2>6. CASE WizardLeft \/ PinErases \/ WordsVerified \/ PhraseDone
    BY <2>1, <2>6, WizardOver
  <2>7. CASE SettingLeft \/ ResetStarts \/ ResetDone \/ ResetLeft \/ ChangeErases
    BY <2>1, <2>7, SettingsOver
  <2>8. CASE ChangeStarts \/ ChangeTyped \/ ChangeEnds
    BY <2>1, <2>8, ChangeGoesOn
  <2>9. CASE GuideNext
    BY <2>2, <2>3, <2>4, <2>9 DEF GuideNext, GuideStays
  <2>10. CASE WizardNext
    BY <2>4, <2>5, <2>6, <2>7, <2>8, <2>10 DEF WizardNext, WizardStays
  <2>. QED  BY <1>7, <2>9, <2>10
<1>8. CASE HistoryErases \/ BindErases
  BY <1>8, PanelAnywayBeside
<1>9. CASE QrAnswers \/ QrLeft \/ PubkeyErases
  BY <1>9, PairingBeside
<1>. QED  BY <1>1, <1>2, <1>3, <1>4, <1>5, <1>6, <1>7, <1>8, <1>9 DEF Next

LEMMA WizardsHold == Spec => [](SessionInv /\ WizardInv)
<1>1. Init => SessionInv /\ WizardInv
  BY SessionBegins, WizardsBegin
<1>2. SessionInv /\ WizardInv /\ [Next]_vars => (SessionInv /\ WizardInv)'
  BY SessionStep, WizardStep
<1>. QED  BY <1>1, <1>2, PTL DEF Spec

\* No path through the wizards, back and forth, fills the stack of their steps: the array that
\* pushData makes for a full stack, and then forgets the size of, is never needed.
THEOREM StacksSuffice == Spec => []StackNeverFull
<1>1. WizardInv => StackNeverFull
  <2> SUFFICES ASSUME WizardInv PROVE Len(steps) <= Capacity
    BY DEF StackNeverFull
  <2>1. Rising(steps)
    BY DEF WizardInv, StackInv
  <2>2. CASE steps = << >>
    BY <2>2 DEF Capacity
  <2>3. CASE steps # << >>
    <3>1. Len(steps) <= Level(TopStep(steps)) /\ Len(steps) \in Nat
      BY <2>1, <2>3, TopOf DEF Rising
    <3>. QED  BY <3>1, LevelRange DEF Capacity
  <2>. QED  BY <2>2, <2>3
<1>. QED  BY <1>1, WizardsHold, PTL

\* The main panel is open only on a device with a wallet, whatever is scanned, left, reset,
\* erased or switched off in between, but for the four ways around it that strayed records.
THEOREM PanelIsOfAWallet == Spec => []PanelHasSeed
<1>1. WizardInv => PanelHasSeed
  BY DEF WizardInv, LoopPlace, SeedBehind, PanelHasSeed
<1>. QED  BY <1>1, WizardsHold, PTL

\* The account the application has is the one of the chip, its passphrase included, except in
\* the step that is storing it; what is stored as a passphrase was typed twice, and its words are kept.
THEOREM AccountIsTheChips == Spec => []ChipHasAccount
<1>1. WizardInv => ChipHasAccount
  <2> SUFFICES ASSUME WizardInv PROVE ChipHasAccount
    OBVIOUS
  <2>1. /\ account # Nothing =>
             /\ chip # Nothing /\ chip.words = account.words /\ PinOk(chip.pin)
             /\ AccountOf(chip) = account \/ At("phrase", "SAVE_PASSPHRASE")
        /\ chip # Nothing /\ chip.pass # Nothing => chip.keeps
    BY DEF WizardInv, SeedTypes
  <2>2. ASSUME At("phrase", "SAVE_PASSPHRASE")
        PROVE  \/ wiz.type = 1 /\ wiz.val = Nothing
               \/ wiz.type = 2 /\ PhraseOk(wiz.val) /\ wiz.typed = <<wiz.val, wiz.val>>
    <3>1. Rising(steps) /\ AllFit /\ TopStep(steps) = "SAVE_PASSPHRASE"
      BY <2>2 DEF WizardInv, StackInv, PhraseInv, At
    <3>2. Fits("SAVE_PASSPHRASE", wiz)
      BY <3>1, FitTop DEF NoStep
    <3>. QED  BY <3>2 DEF Fits, PhraseChosen
  <2>. QED  BY <2>1, <2>2 DEF ChipHasAccount
<1>. QED  BY <1>1, WizardsHold, PTL

\* A wallet the guide has made is the one the user has: its words were all shown and picked one
\* by one, or typed, and its PIN was typed twice.
THEOREM WalletIsTheUsers == Spec => []SeedIsChosen
<1>1. WizardInv => SeedIsChosen
  <2> SUFFICES ASSUME WizardInv, modal = "guide", account # Nothing
               PROVE  /\ AccountOf(chip) = account /\ chip.words \in Mnemonics
                      /\ PinOk(chip.pin) /\ wiz.pins = <<chip.pin, chip.pin>>
                      /\ wiz.picked = chip.words
                      /\ ~wiz.recovery => wiz.seen = 0..wiz.mlen - 1
    BY DEF SeedIsChosen
  <2>1. /\ AccountOf(chip) = account /\ chip \in ChipType /\ PinOk(chip.pin)
    BY DEF WizardInv, SeedTypes, At
  <2>2. wiz.pins = <<chip.pin, chip.pin>> /\ wiz.picked = chip.words
    BY DEF WizardInv, GuideInv, GuideAccount
  <2>3. ~wiz.recovery => wiz.seen = 0..wiz.mlen - 1
    <3>1. Rising(steps) /\ AllEarned /\ Made /\ DialogPlace
      BY DEF WizardInv, GuideInv, GuideSeed, StackInv
    <3>2. Level(TopStep(steps)) >= 12 /\ TopStep(steps) # NoStep
      BY <3>1, WordSteps, HighSteps DEF Made, Named, In, DialogPlace, Opener, NoStep
    <3>3. Earned(TopStep(steps), wiz)
      BY <3>1, <3>2, EarnedTop
    <3>. QED  BY <3>2, <3>3 DEF Earned, WordPlaces
  <2>. QED  BY <2>1, <2>2, <2>3 DEF ChipType
<1>. QED  BY <1>1, WizardsHold, PTL

-----------------------------------------------------------------------------
(* The words that begin with what was typed                                 *)

Spellings == Seq(Nat \ {0})

\* A prefix letter by letter
LEMMA PrefixIs ==
  ASSUME NEW s \in Spellings, NEW t \in Spellings
  PROVE  IsPrefix(s, t) <=> Len(s) <= Len(t) /\ \A i \in DOMAIN s : s[i] = t[i]
<1>1. ASSUME Len(s) <= Len(t)
      PROVE  SubSeq(s, 1, Len(s)) = SubSeq(t, 1, Len(s)) <=> \A i \in DOMAIN s : s[i] = t[i]
  <2>1. DEFINE p == SubSeq(s, 1, Len(s))
               q == SubSeq(t, 1, Len(s))
  <2>2. /\ p \in Spellings /\ Len(p) = Len(s) /\ q \in Spellings /\ Len(q) = Len(s)
        /\ \A i \in 1..Len(s) : p[i] = s[i] /\ q[i] = t[i]
    BY <1>1 DEF Spellings
  <2>3. p = q <=> \A i \in 1..Len(s) : p[i] = q[i]
    <3>1. DOMAIN p = 1..Len(s) /\ DOMAIN q = 1..Len(s) /\ p = [i \in DOMAIN p |-> p[i]]
          /\ q = [i \in DOMAIN q |-> q[i]]
      <4>. HIDE DEF p, q
      <4>. QED  BY <2>2 DEF Spellings
    <3>. HIDE DEF p, q
    <3>. QED  BY <3>1
  <2>4. DOMAIN s = 1..Len(s)
    BY DEF Spellings
  <2>. HIDE DEF p, q
  <2>5. p = q <=> \A i \in DOMAIN s : s[i] = t[i]
    BY <2>2, <2>3, <2>4
  <2>. QED  BY <2>5 DEF p, q
<1>. QED  BY <1>1 DEF IsPrefix

LEMMA WordIs ==
  ASSUME NEW w \in Words
  PROVE  /\ WordList[w] \in Spellings /\ WordList[w] # << >>
         /\ Len(WordList[w]) \in Nat \ {0} /\ WordList[w][1] \in Nat \ {0}
<1>1. WordList[w] \in Spellings /\ WordList[w] # << >>
  BY WordListAssumption DEF Words, Spellings
<1>2. Len(WordList[w]) \in Nat \ {0}
  BY <1>1 DEF Spellings
<1>. QED  BY <1>1, <1>2 DEF Spellings

LEMMA WordsAre == Words = 1..Len(WordList) /\ Len(WordList) \in Nat \ {0}
BY WordListAssumption DEF Words

\* A word that comes first, letter by letter
LEMMA FirstDiffers ==
  ASSUME NEW s \in Spellings, NEW t \in Spellings, Alphabetical(s, t)
  PROVE  \/ Len(s) <= Len(t) /\ \A i \in DOMAIN s : s[i] = t[i]
         \/ \E i \in DOMAIN s \cap DOMAIN t :
              s[i] < t[i] /\ \A j \in 1..i - 1 : s[j] = t[j]
BY PrefixIs DEF Alphabetical, IsStrictPrefix

\* The words that begin with some letters are not interrupted by others.
LEMMA BetweenPrefixed ==
  ASSUME NEW text \in Spellings, NEW u \in Spellings, NEW v \in Spellings, NEW w \in Spellings,
         Alphabetical(u, v), Alphabetical(v, w), IsPrefix(text, u), IsPrefix(text, w)
  PROVE  IsPrefix(text, v)
<1>1. /\ Len(text) <= Len(u) /\ Len(text) <= Len(w)
      /\ \A i \in DOMAIN text : text[i] = u[i] /\ text[i] = w[i]
  BY PrefixIs
<1>. DEFINE S == {i \in 1..Len(text) : i > Len(v) \/ text[i] # v[i]}
<1>2. SUFFICES ASSUME S # {} PROVE FALSE
  <2>1. ASSUME S = {} PROVE Len(text) <= Len(v) /\ \A i \in DOMAIN text : text[i] = v[i]
    <3>1. Len(text) \in Nat /\ Len(v) \in Nat /\ DOMAIN text = 1..Len(text)
      BY DEF Spellings
    <3>2. \A i \in 1..Len(text) : i <= Len(v) /\ text[i] = v[i]
      BY <2>1, <3>1
    <3>3. Len(text) # 0 => Len(text) \in 1..Len(text)
      BY <3>1
    <3>. QED  BY <3>1, <3>2, <3>3
  <2>. QED  BY <2>1, PrefixIs
<1>3. /\ Len(text) \in Nat /\ DOMAIN text = 1..Len(text) /\ Len(v) \in Nat /\ DOMAIN v = 1..Len(v)
      /\ Len(u) \in Nat /\ DOMAIN u = 1..Len(u) /\ Len(w) \in Nat /\ DOMAIN w = 1..Len(w)
      /\ \A i \in 1..Len(text) : text[i] \in Nat
      /\ \A i \in 1..Len(v) : v[i] \in Nat
  BY DEF Spellings
<1>4. PICK m \in S : \A x \in S : m <= x
  <2>1. S \in SUBSET (0..Len(text))
    BY <1>3
  <2>. HIDE DEF S
  <2>. QED  BY <1>2, <1>3, <2>1, LeastOf
<1>5. m \in 1..Len(text) /\ \A j \in 1..m - 1 : j <= Len(v) /\ text[j] = v[j]
  <2>1. m \in 1..Len(text)
    OBVIOUS
  <2>2. \A j \in 1..m - 1 : j \in 1..Len(text) /\ j \notin S
    BY <1>3, <1>4, <2>1
  <2>. QED  BY <1>3, <2>1, <2>2
<1>6. m <= Len(v) /\ text[m] < v[m]
  <2>1. CASE Len(u) <= Len(v) /\ \A i \in DOMAIN u : u[i] = v[i]
    BY <1>1, <1>3, <1>4, <1>5, <2>1
  <2>2. ASSUME NEW i \in DOMAIN u \cap DOMAIN v, u[i] < v[i], \A j \in 1..i - 1 : u[j] = v[j]
        PROVE  m <= Len(v) /\ text[m] < v[m]
    <3>1. CASE i < m
      BY <1>1, <1>3, <1>5, <2>2, <3>1
    <3>2. CASE m < i
      <4>1. i \in 1..Len(v) /\ m \in 1..i - 1 /\ m \in DOMAIN text
        BY <1>3, <1>5, <2>2, <3>2
      <4>2. m <= Len(v) /\ u[m] = v[m] /\ text[m] = u[m]
        BY <1>1, <1>3, <2>2, <4>1
      <4>. QED  BY <1>4, <1>5, <4>2
    <3>3. CASE i = m
      BY <1>1, <1>3, <1>5, <2>2, <3>3
    <3>. QED  BY <1>3, <1>5, <3>1, <3>2, <3>3
  <2>. QED  BY <2>1, <2>2, FirstDiffers
<1>7. CASE Len(v) <= Len(w) /\ \A i \in DOMAIN v : v[i] = w[i]
  <2>1. v[m] = w[m] /\ w[m] = text[m]
    BY <1>1, <1>3, <1>5, <1>6, <1>7, SMTT(30)
  <2>. QED  BY <1>3, <1>5, <1>6, <2>1
<1>8. ASSUME NEW i \in DOMAIN v \cap DOMAIN w, v[i] < w[i], \A j \in 1..i - 1 : v[j] = w[j]
      PROVE  FALSE
  <2>1. CASE i < m
    <3>1. text[i] = v[i] /\ text[i] = w[i]
      BY <1>1, <1>3, <1>5, <2>1, <1>8
    <3>2. v[i] \in Nat
      BY <1>3, <1>8
    <3>. QED  BY <1>8, <3>1, <3>2
  <2>2. CASE m < i
    <3>1. v[m] = w[m] /\ text[m] = w[m]
      <4>1. m \in 1..i - 1 /\ m \in DOMAIN text
        BY <1>3, <1>5, <2>2, <1>8
      <4>. QED  BY <1>1, <1>8, <4>1
    <3>. QED  BY <1>3, <1>5, <1>6, <3>1
  <2>3. CASE i = m
    <3>1. text[m] = w[m] /\ v[m] < text[m]
      BY <1>1, <1>3, <1>5, <2>3, <1>8
    <3>. QED  BY <1>3, <1>5, <1>6, <3>1
  <2>. QED  BY <1>3, <1>5, <2>1, <2>2, <2>3
<1>. QED  BY <1>7, <1>8, FirstDiffers

\* Nor do first letters go down.
LEMMA FirstLettersRise ==
  ASSUME NEW v \in Words, NEW w \in Words, v <= w
  PROVE  WordList[v][1] <= WordList[w][1]
<1>1. v \in Int /\ w \in Int
  BY WordsAre
<1>2. /\ WordList[v] \in Spellings /\ Len(WordList[v]) \in Nat \ {0} /\ WordList[v][1] \in Nat
      /\ WordList[w] \in Spellings /\ Len(WordList[w]) \in Nat \ {0} /\ WordList[w][1] \in Nat
  BY WordIs
<1>3. CASE v = w
  BY <1>2, <1>3
<1>4. CASE v < w
  <2>1. Alphabetical(WordList[v], WordList[w])
    BY <1>4, WordListAssumption
  <2>2. 1 \in DOMAIN WordList[v]
    BY <1>2 DEF Spellings
  <2>3. CASE \A i \in DOMAIN WordList[v] : WordList[v][i] = WordList[w][i]
    BY <1>2, <2>2, <2>3
  <2>4. ASSUME NEW i \in DOMAIN WordList[v] \cap DOMAIN WordList[w],
               WordList[v][i] < WordList[w][i], \A j \in 1..i - 1 : WordList[v][j] = WordList[w][j]
        PROVE  WordList[v][1] <= WordList[w][1]
    <3>1. i \in Nat \ {0}
      BY <1>2 DEF Spellings
    <3>2. CASE i = 1
      BY <1>2, <2>4, <3>2
    <3>3. CASE i > 1
      BY <1>2, <2>4, <3>1, <3>3
    <3>. QED  BY <3>1, <3>2, <3>3
  <2>. QED  BY <1>2, <2>1, <2>3, <2>4, FirstDiffers
<1>. QED  BY <1>1, <1>3, <1>4

\* No word is there twice.
LEMMA NoWordTwice ==
  ASSUME NEW v \in Words, NEW w \in Words, WordList[v] = WordList[w]
  PROVE  v = w
<1>1. ASSUME NEW s \in Spellings, Alphabetical(s, s) PROVE FALSE
  <2>1. PICK i \in DOMAIN s : s[i] < s[i]
    BY <1>1 DEF Alphabetical, IsStrictPrefix
  <2>2. s[i] \in Nat
    BY DEF Spellings
  <2>. QED  BY <2>1, <2>2
<1>2. v \in Nat /\ w \in Nat /\ WordList[v] \in Spellings
  BY WordsAre, WordIs
<1>3. CASE v < w
  BY <1>1, <1>2, <1>3, WordListAssumption
<1>4. CASE w < v
  BY <1>1, <1>2, <1>4, WordListAssumption
<1>. QED  BY <1>2, <1>3, <1>4

-----------------------------------------------------------------------------
(* The words of a letter, and of what was typed                             *)

Starts(l) == \E w \in Words : WordList[w][1] = l

\* Where the words of a letter end is how many words there are up to it.
LEMMA EndsAt ==
  ASSUME NEW l \in Nat \ {0}, Starts(l)
  PROVE  EndOf(l) \in Words /\ {w \in Words : WordList[w][1] <= l} = 1..EndOf(l)
<1>. DEFINE n == Len(WordList)
            S == {w \in Words : WordList[w][1] <= l}
            T == {w \in Words : WordList[w][1] > l}
<1>1. Words = 1..n /\ n \in Nat \ {0}
  BY WordsAre
<1>2. \A w \in Words : WordList[w][1] \in Nat
  BY WordIs
<1>3. PICK f \in Words : WordList[f][1] = l
  BY DEF Starts
<1>4. \E k \in Words : S = 1..k
  <2>1. CASE T = {}
    <3>1. S = 1..n
      BY <1>1, <1>2, <2>1
    <3>. QED  BY <1>1, <3>1
  <2>2. CASE T # {}
    <3>1. PICK m \in T : \A x \in T : m <= x
      <4>1. T \in SUBSET (0..n)
        BY <1>1
      <4>. HIDE DEF T
      <4>. QED  BY <1>1, <2>2, <4>1, LeastOf
    <3>2. m \in 1..n /\ WordList[m][1] > l
      BY <1>1
    <3>3. \A w \in Words : WordList[w][1] <= l <=> w <= m - 1
      <4> SUFFICES ASSUME NEW w \in Words PROVE WordList[w][1] <= l <=> w <= m - 1
        OBVIOUS
      <4>1. CASE w < m
        <5>1. w \notin T
          BY <1>1, <3>1, <3>2, <4>1
        <5>. QED  BY <1>1, <1>2, <3>2, <4>1, <5>1
      <4>2. CASE m <= w
        <5>1. WordList[m][1] <= WordList[w][1]
          BY <1>1, <3>2, <4>2, FirstLettersRise
        <5>. QED  BY <1>1, <1>2, <3>2, <4>2, <5>1
      <4>. QED  BY <1>1, <3>2, <4>1, <4>2
    <3>4. f <= m - 1 /\ m - 1 \in Words
      BY <1>1, <1>3, <3>2, <3>3
    <3>5. S = 1..(m - 1)
      BY <1>1, <3>3, <3>4
    <3>. QED  BY <3>4, <3>5
  <2>. QED  BY <2>1, <2>2
<1>5. PICK k \in Words : S = 1..k
  BY <1>4
<1>6. Cardinality(1..k) = k
  BY <1>1, <1>5, FS_Interval
<1>7. EndOf(l) = Cardinality(S)
  BY <1>3 DEF EndOf
<1>. QED  BY <1>5, <1>6, <1>7

\* A letter without words has no end.
LEMMA NoEnd ==
  ASSUME NEW l, ~Starts(l)
  PROVE  EndOf(l) = -1
BY DEF EndOf, Starts

LEMMA StartsIffEnds ==
  ASSUME NEW l \in Nat \ {0}
  PROVE  Starts(l) <=> EndOf(l) # -1
<1>1. \A k \in Words : k # -1
  BY WordsAre
<1>. QED  BY <1>1, EndsAt, NoEnd

\* getWordRange looks for words of a letter where they are, also behind a letter without words.
LEMMA WordsOfLetter ==
  ASSUME NEW l \in Nat \ {0}, Starts(l)
  PROVE  {w \in Words : WordList[w][1] = l} = StartOf(l)..EndOf(l)
<1>1. Words = 1..Len(WordList) /\ Len(WordList) \in Nat \ {0}
  BY WordsAre
<1>2. \A w \in Words : WordList[w][1] \in Nat \ {0}
  BY WordIs
<1>3. EndOf(l) \in Words /\ \A w \in Words : WordList[w][1] <= l <=> w <= EndOf(l)
  <2>1. \A w \in Words : WordList[w][1] <= l <=> w \in 1..EndOf(l)
    BY EndsAt
  <2>. QED  BY <1>1, <2>1, EndsAt
<1>4. ASSUME NEW s \in Nat \ {0}, StartOf(l) = s,
             \A w \in Words : WordList[w][1] <= l - 1 <=> w <= s - 1
      PROVE  {w \in Words : WordList[w][1] = l} = StartOf(l)..EndOf(l)
  <2>1. \A w \in Words : WordList[w][1] = l <=> w <= EndOf(l) /\ s <= w
    <3> SUFFICES ASSUME NEW w \in Words
                 PROVE  WordList[w][1] = l <=> w <= EndOf(l) /\ s <= w
      OBVIOUS
    <3>1. WordList[w][1] <= l <=> w <= EndOf(l)
      BY <1>3
    <3>2. WordList[w][1] <= l - 1 <=> w <= s - 1
      BY <1>4
    <3>3. WordList[w][1] \in Nat /\ w \in Nat /\ EndOf(l) \in Nat
      BY <1>1, <1>2, <1>3
    <3>. QED  BY <3>1, <3>2, <3>3
  <2>2. \A w : w \in s..EndOf(l) => w \in Words
    BY <1>1, <1>3
  <2>. QED  BY <1>1, <1>3, <1>4, <2>1, <2>2
<1>5. ASSUME NEW k \in Nat \ {0}, Starts(k)
      PROVE  EndOf(k) \in Nat \ {0} /\ \A w \in Words : WordList[w][1] <= k <=> w <= EndOf(k)
  <2>1. EndOf(k) \in Words /\ \A w \in Words : WordList[w][1] <= k <=> w \in 1..EndOf(k)
    BY <1>5, EndsAt
  <2>. QED  BY <1>1, <2>1
<1>6. CASE l = 1
  <2>1. StartOf(l) = 1 /\ \A w \in Words : WordList[w][1] <= l - 1 <=> w <= 0
    BY <1>1, <1>2, <1>6 DEF StartOf
  <2>. QED  BY <1>4, <2>1
<1>7. CASE l # 1 /\ Starts(l - 1)
  <2>1. l - 1 \in Nat \ {0} /\ EndOf(l - 1) # -1
    BY <1>7, <1>5
  <2>2. /\ EndOf(l - 1) \in Nat \ {0}
        /\ \A w \in Words : WordList[w][1] <= l - 1 <=> w <= EndOf(l - 1)
    BY <1>5, <1>7, <2>1
  <2>3. StartOf(l) = EndOf(l - 1) + 1
    BY <1>7, <2>1 DEF StartOf
  <2>4. EndOf(l - 1) + 1 \in Nat \ {0} /\ (EndOf(l - 1) + 1) - 1 = EndOf(l - 1)
    BY <2>2
  <2>. QED  BY <1>4, <2>2, <2>3, <2>4
<1>8. CASE l # 1 /\ ~Starts(l - 1)
  <2>1. l - 1 \in 1..Last(WordList)[1]
    <3>1. PICK f \in Words : WordList[f][1] = l
      BY DEF Starts
    <3>2. Last(WordList) = WordList[Len(WordList)] /\ Len(WordList) \in Words
      BY <1>1 DEF Last
    <3>3. l <= Last(WordList)[1]
      BY <1>1, <3>1, <3>2, FirstLettersRise
    <3>. QED  BY <1>2, <1>8, <3>2, <3>3
  <2>2. l - 1 > 1 /\ Starts((l - 1) - 1)
    BY <1>8, <2>1, WordListAssumption DEF Starts
  <2>3. l - 2 \in Nat \ {0} /\ Starts(l - 2)
    <3>1. (l - 1) - 1 = l - 2
      OBVIOUS
    <3>. QED  BY <2>2, <3>1
  <2>4. /\ EndOf(l - 2) \in Nat \ {0}
        /\ \A w \in Words : WordList[w][1] <= l - 2 <=> w <= EndOf(l - 2)
    BY <1>5, <2>3
  <2>5. \A w \in Words : WordList[w][1] <= l - 1 <=> WordList[w][1] <= l - 2
    <3>1. \A w \in Words : WordList[w][1] # l - 1
      BY <1>8 DEF Starts
    <3>. QED  BY <1>2, <3>1
  <2>6. StartOf(l) = EndOf(l - 2) + 1
    BY <1>8, NoEnd DEF StartOf
  <2>7. EndOf(l - 2) + 1 \in Nat \ {0} /\ (EndOf(l - 2) + 1) - 1 = EndOf(l - 2)
    BY <2>4
  <2>. QED  BY <1>4, <2>4, <2>5, <2>6, <2>7
<1>. QED  BY <1>6, <1>7, <1>8

\* After the first letter the rest is compared.
LEMMA TailPrefixed ==
  ASSUME NEW s \in Spellings, NEW t \in Spellings, s # << >>, t # << >>, s[1] = t[1]
  PROVE  IsPrefix(Tail(s), Tail(t)) <=> IsPrefix(s, t)
<1>1. /\ Tail(s) \in Spellings /\ Len(Tail(s)) = Len(s) - 1 /\ Len(s) \in Nat \ {0}
      /\ Tail(t) \in Spellings /\ Len(Tail(t)) = Len(t) - 1 /\ Len(t) \in Nat \ {0}
      /\ DOMAIN s = 1..Len(s) /\ DOMAIN Tail(s) = 1..Len(Tail(s))
  BY DEF Spellings
<1>2. /\ \A i \in 1..Len(s) - 1 : Tail(s)[i] = s[i + 1]
      /\ \A i \in 1..Len(t) - 1 : Tail(t)[i] = t[i + 1]
  BY DEF Spellings
<1>3. ASSUME Len(s) <= Len(t)
      PROVE  (\A i \in 1..Len(s) - 1 : Tail(s)[i] = Tail(t)[i]) <=> \A i \in 1..Len(s) : s[i] = t[i]
  <2>1. ASSUME \A i \in 1..Len(s) : s[i] = t[i], NEW i \in 1..Len(s) - 1
        PROVE  Tail(s)[i] = Tail(t)[i]
    <3>1. i + 1 \in 1..Len(s) /\ i \in 1..Len(t) - 1
      BY <1>1, <1>3
    <3>. QED  BY <1>2, <2>1, <3>1
  <2>2. ASSUME \A i \in 1..Len(s) - 1 : Tail(s)[i] = Tail(t)[i], NEW i \in 1..Len(s)
        PROVE  s[i] = t[i]
    <3>1. CASE i = 1
      BY <3>1
    <3>2. CASE i # 1
      <4>1. i - 1 \in 1..Len(s) - 1 /\ i - 1 \in 1..Len(t) - 1 /\ (i - 1) + 1 = i
        BY <1>1, <1>3, <3>2
      <4>. QED  BY <1>2, <2>2, <4>1
    <3>. QED  BY <3>1, <3>2
  <2>. QED  BY <2>1, <2>2
<1>4. Len(s) - 1 <= Len(t) - 1 <=> Len(s) <= Len(t)
  BY <1>1
<1>5. IsPrefix(s, t) <=> Len(s) <= Len(t) /\ \A i \in 1..Len(s) : s[i] = t[i]
  BY <1>1, PrefixIs, SMTT(30)
<1>6. IsPrefix(Tail(s), Tail(t)) <=>
        Len(s) - 1 <= Len(t) - 1 /\ \A i \in 1..Len(s) - 1 : Tail(s)[i] = Tail(t)[i]
  <2>1. DOMAIN Tail(s) = 1..Len(s) - 1
    BY <1>1
  <2>2. IsPrefix(Tail(s), Tail(t)) <=>
          Len(Tail(s)) <= Len(Tail(t)) /\ \A i \in DOMAIN Tail(s) : Tail(s)[i] = Tail(t)[i]
    BY <1>1, PrefixIs
  <2>. QED  BY <1>1, <2>1, <2>2
<1>. QED  BY <1>3, <1>4, <1>5, <1>6

\* A set of numbers without holes is what is between its least and its greatest.
LEMMA FromTo ==
  ASSUME NEW n \in Nat, NEW S \in SUBSET (0..n), S # {},
         \A u, v, w \in 0..n : u \in S /\ w \in S /\ u < v /\ v < w => v \in S
  PROVE  Min(S) \in S /\ Max(S) \in S /\ S = Min(S)..Max(S)
<1>1. \E m \in S : \A x \in S : m <= x
  BY LeastOf
<1>2. \E m \in S : \A x \in S : m >= x
  <2>. DEFINE T == {n - x : x \in S}
  <2>1. T \in SUBSET (0..n) /\ T # {}
    <3>1. \A x \in S : n - x \in 0..n
      OBVIOUS
    <3>. QED  BY <3>1
  <2>2. PICK t \in T : \A x \in T : t <= x
    <3>. HIDE DEF T
    <3>. QED  BY <2>1, LeastOf
  <2>3. PICK m \in S : t = n - m
    OBVIOUS
  <2>4. \A x \in S : m >= x
    <3> SUFFICES ASSUME NEW x \in S PROVE m >= x
      OBVIOUS
    <3>1. n - m <= n - x
      BY <2>2, <2>3
    <3>2. m \in Int /\ x \in Int
      OBVIOUS
    <3>. QED  BY <3>1, <3>2
  <2>. QED  BY <2>4
<1>3. Min(S) \in S /\ \A x \in S : Min(S) <= x
  BY <1>1 DEF Min
<1>4. Max(S) \in S /\ \A x \in S : Max(S) >= x
  BY <1>2 DEF Max
<1>5. Min(S) \in 0..n /\ Max(S) \in 0..n
  BY <1>3, <1>4
<1>6. \A x : x \in S => x \in Min(S)..Max(S)
  BY <1>3, <1>4, <1>5
<1>7. \A x : x \in Min(S)..Max(S) => x \in S
  <2> SUFFICES ASSUME NEW x \in Min(S)..Max(S) PROVE x \in S
    OBVIOUS
  <2>1. x \in 0..n
    BY <1>5
  <2>2. CASE x = Min(S) \/ x = Max(S)
    BY <1>3, <1>4, <2>2
  <2>3. CASE Min(S) < x /\ x < Max(S)
    BY <1>3, <1>4, <1>5, <2>1, <2>3
  <2>. QED  BY <1>5, <2>1, <2>2, <2>3
<1>. QED  BY <1>3, <1>4, <1>6, <1>7

\* The words that are compared are those that begin with the text.
Prefixed(text) == {w \in Words : IsPrefix(text, WordList[w])}

LEMMA FoundIs ==
  ASSUME NEW text \in Spellings, text # << >>, EndOf(Head(text)) # -1
  PROVE  {w \in StartOf(Head(text))..EndOf(Head(text)) : IsPrefix(Tail(text), Tail(WordList[w]))}
           = Prefixed(text)
<1>. DEFINE l == Head(text)
            F == {w \in StartOf(l)..EndOf(l) : IsPrefix(Tail(text), Tail(WordList[w]))}
<1>1. l = text[1] /\ l \in Nat \ {0} /\ Len(text) \in Nat \ {0}
  BY DEF Spellings
<1>2. StartOf(l)..EndOf(l) = {w \in Words : WordList[w][1] = l}
  BY <1>1, StartsIffEnds, WordsOfLetter
<1>3. \A w \in Words : /\ WordList[w] \in Spellings /\ WordList[w] # << >>
                       /\ IsPrefix(text, WordList[w]) => WordList[w][1] = l
  <2> SUFFICES ASSUME NEW w \in Words, IsPrefix(text, WordList[w]) PROVE WordList[w][1] = l
    BY WordIs
  <2>1. WordList[w] \in Spellings
    BY WordIs
  <2>2. 1 \in DOMAIN text
    BY <1>1 DEF Spellings
  <2>. QED  BY <1>1, <2>1, <2>2, PrefixIs
<1>4. \A w \in Words : WordList[w][1] = l =>
        (IsPrefix(Tail(text), Tail(WordList[w])) <=> IsPrefix(text, WordList[w]))
  BY <1>1, <1>3, TailPrefixed
<1>. QED  BY <1>2, <1>3, <1>4 DEF Prefixed

LEMMA PrefixedIsRange ==
  ASSUME NEW text \in Spellings, Prefixed(text) # {}
  PROVE  /\ Min(Prefixed(text)) \in Prefixed(text) /\ Max(Prefixed(text)) \in Prefixed(text)
         /\ Prefixed(text) = Min(Prefixed(text))..Max(Prefixed(text))
<1>. DEFINE S == Prefixed(text)
<1>1. Words = 1..Len(WordList) /\ Len(WordList) \in Nat \ {0}
  BY WordsAre
<1>2. S \in SUBSET (0..Len(WordList))
  BY <1>1 DEF Prefixed
<1>3. \A u, v, w \in 0..Len(WordList) : u \in S /\ w \in S /\ u < v /\ v < w => v \in S
  <2> SUFFICES ASSUME NEW u \in Words, NEW w \in Words, NEW v \in 0..Len(WordList),
                      IsPrefix(text, WordList[u]), IsPrefix(text, WordList[w]), u < v, v < w
               PROVE  v \in S
    BY DEF Prefixed
  <2>1. v \in Words
    BY <1>1
  <2>2. Alphabetical(WordList[u], WordList[v]) /\ Alphabetical(WordList[v], WordList[w])
    BY <2>1, WordListAssumption
  <2>. QED  BY <2>1, <2>2, BetweenPrefixed, WordIs DEF Prefixed
<1>. HIDE DEF S
<1>4. S # {}
  BY DEF S
<1>5. Min(S) \in S /\ Max(S) \in S /\ S = Min(S)..Max(S)
  BY <1>1, <1>2, <1>3, <1>4, FromTo
<1>. QED  BY <1>5 DEF S

\* What getWordRange returns
LEMMA RangeOf ==
  ASSUME NEW text \in Spellings
  PROVE  \/ WordRange(text) = NoRange /\ (text = << >> \/ Prefixed(text) = {})
         \/ Prefixed(text) # {}
            /\ WordRange(text) = [from |-> Min(Prefixed(text)), to |-> Max(Prefixed(text))]
<1>. DEFINE l == Head(text)
            F == {w \in StartOf(l)..EndOf(l) : IsPrefix(Tail(text), Tail(WordList[w]))}
<1>1. CASE text = << >>
  BY <1>1 DEF WordRange
<1>2. CASE text # << >> /\ EndOf(l) = -1
  <2>1. l = text[1] /\ l \in Nat \ {0} /\ 1 \in DOMAIN text
    BY <1>2 DEF Spellings
  <2>2. \A w \in Words : WordList[w] \in Spellings /\ WordList[w][1] # l
    BY <1>2, <2>1, StartsIffEnds, WordIs DEF Starts
  <2>3. Prefixed(text) = {}
    BY <2>1, <2>2, PrefixIs DEF Prefixed
  <2>. QED  BY <1>2, <2>3 DEF WordRange
<1>3. CASE text # << >> /\ EndOf(l) # -1
  <2>1. F = Prefixed(text)
    BY <1>3, FoundIs
  <2>2. WordRange(text) = IF F = {} THEN NoRange ELSE [from |-> Min(F), to |-> Max(F)]
    BY <1>3 DEF WordRange
  <2>. HIDE DEF F
  <2>. QED  BY <2>1, <2>2
<1>. QED  BY <1>1, <1>2, <1>3

\* The range for some letters is of all the words that begin with them and of no others; there is
\* none exactly if no word does.
THEOREM WordsAreFound ==
  \A text \in Seq(Nat \ {0}) \ {<< >>} :
    {w \in Words : IsPrefix(text, WordList[w])} =
      IF CountOf(WordRange(text)) = 0 THEN {} ELSE WordRange(text).from..WordRange(text).to
<1> SUFFICES ASSUME NEW text \in Spellings, text # << >>
             PROVE  Prefixed(text) = IF CountOf(WordRange(text)) = 0 THEN {}
                                     ELSE WordRange(text).from..WordRange(text).to
  BY DEF Spellings, Prefixed
<1>1. CASE Prefixed(text) = {}
  BY <1>1, RangeOf DEF CountOf, NoRange
<1>2. CASE Prefixed(text) # {}
  <2>. DEFINE a == Min(Prefixed(text))
              b == Max(Prefixed(text))
  <2>1. WordRange(text) = [from |-> a, to |-> b]
    BY <1>2, RangeOf
  <2>2. a \in Prefixed(text) /\ b \in Prefixed(text) /\ Prefixed(text) = a..b
    BY <1>2, PrefixedIsRange
  <2>3. a \in Nat \ {0} /\ b \in Nat \ {0} /\ a <= b
    <3>1. \A w \in Prefixed(text) : w \in Nat \ {0}
      BY WordsAre DEF Prefixed
    <3>. HIDE DEF a, b
    <3>. QED  BY <2>2, <3>1
  <2>. HIDE DEF a, b
  <2>4. CountOf(WordRange(text)) # 0
    BY <2>1, <2>3 DEF CountOf
  <2>. QED  BY <2>1, <2>2, <2>4
<1>. QED  BY <1>1, <1>2

LEMMA RangeIs ==
  ASSUME NEW text \in Spellings, CountOf(WordRange(text)) # 0
  PROVE  /\ WordRange(text).from \in Words /\ WordRange(text).to \in Words
         /\ {w \in Words : IsPrefix(text, WordList[w])} = WordRange(text).from..WordRange(text).to
<1>. DEFINE S == Prefixed(text)
<1>1. S # {} /\ WordRange(text) = [from |-> Min(S), to |-> Max(S)]
  <2>1. CountOf(NoRange) = 0
    BY DEF CountOf, NoRange
  <2>. QED  BY <2>1, RangeOf
<1>2. Min(S) \in S /\ Max(S) \in S /\ S = Min(S)..Max(S)
  BY <1>1, PrefixedIsRange
<1>. QED  BY <1>1, <1>2 DEF Prefixed

\* checkWord accepts the letters of a word as that word and nothing else as a word.
THEOREM WordsAreSpelled ==
  \A text \in Seq(Nat \ {0}), w \in Words : Spelled(text) = w <=> WordList[w] = text
<1> SUFFICES ASSUME NEW text \in Spellings, NEW w \in Words
             PROVE  Spelled(text) = w <=> WordList[w] = text
  BY DEF Spellings
<1>. DEFINE r == WordRange(text)
            same == {v \in r.from..r.to : v \in Words /\ WordList[v] = text}
<1>1. Spelled(text) = IF CountOf(r) = 0 \/ same = {} THEN 0 ELSE Min(same)
  BY DEF Spelled
<1>2. w # 0
  BY WordsAre
<1>3. ASSUME WordList[w] = text PROVE Spelled(text) = w
  <2>1. text # << >> /\ w \in Prefixed(text)
    BY <1>3, WordIs, PrefixIs DEF Prefixed
  <2>2. CountOf(r) # 0 /\ w \in r.from..r.to
    BY <2>1, WordsAreFound DEF Prefixed, Spellings
  <2>3. same = {w}
    BY <1>3, <2>2, NoWordTwice
  <2>4. Min({w}) = w
    BY WordsAre DEF Min
  <2>. HIDE DEF r, same
  <2>. QED  BY <1>1, <2>2, <2>3, <2>4
<1>4. ASSUME Spelled(text) = w PROVE WordList[w] = text
  <2>1. CountOf(r) # 0 /\ same # {} /\ w = Min(same)
    <3>. HIDE DEF r, same
    <3>. QED  BY <1>1, <1>2, <1>4
  <2>2. PICK v \in Words : WordList[v] = text
    BY <2>1
  <2>3. \A x \in same : x = v
    BY <2>2, NoWordTwice
  <2>4. same = {v}
    <3>. HIDE DEF same
    <3>. QED  BY <2>1, <2>3
  <2>5. Min({v}) = v
    BY WordsAre DEF Min
  <2>6. w = v
    <3>. HIDE DEF same
    <3>. QED  BY <2>1, <2>4, <2>5
  <2>. QED  BY <2>2, <2>6
<1>. QED  BY <1>3, <1>4

-----------------------------------------------------------------------------
(* The keyboard                                                             *)

\* The list on the keyboard is that of the letters, it has as many items as fit, and the
\* highlight is in the grid but not on the item that is left empty.
GridInv(kb) ==
  /\ kb.range.from \in Words /\ kb.range.to \in Words /\ CountOf(kb.range) \in 1..Back
  /\ {w \in Words : IsPrefix(kb.text, WordList[w])} = kb.range.from..kb.range.to
  /\ kb.start = Hidden(kb.range) * Columns /\ kb.at \in kb.start..Back
  /\ CountOf(kb.range) % 2 = 0 => kb.at # Back - 1

KeyboardInv(kb) ==
  /\ kb = [text |-> kb.text, list |-> kb.list, range |-> kb.range, start |-> kb.start, at |-> kb.at]
  /\ kb.text \in Spellings /\ kb.list \in BOOLEAN
  /\ kb.list => GridInv(kb)

LEMMA OpenedFits ==
  ASSUME NEW text \in Spellings
  PROVE  KeyboardInv(Opened(text))
BY DEF Opened, KeyboardInv

\* The rows of the grid: the words, Back, and an empty item if there is an even number of words
LEMMA GridIs ==
  ASSUME NEW r, CountOf(r) \in 1..Back
  PROVE  /\ Rows \in Nat \ {0} /\ Back = 2 * Rows - 1 /\ Back \in Nat
         /\ Hidden(r) \in 0..Rows - 1
         /\ CountOf(r) % 2 = 0 => 2 * Hidden(r) + CountOf(r) = Back - 1 /\ Hidden(r) <= Rows - 2
         /\ CountOf(r) % 2 = 1 => 2 * Hidden(r) + CountOf(r) = Back
         /\ CountOf(r) % 2 \in {0, 1}
<1>1. Rows \in Nat \ {0} /\ Back = 2 * Rows - 1
  BY WordListAssumption DEF Back, Columns
<1>2. PICK c \in Nat : c = CountOf(r) /\ c >= 1 /\ c <= 2 * Rows - 1
  BY <1>1
<1>3. Hidden(r) = Rows - (c + 2) \div 2
  BY <1>2 DEF Hidden, Columns
<1>4. CASE c % 2 = 0
  <2>1. PICK k \in Nat : c = 2 * k
    <3>1. c = 2 * (c \div 2) /\ c \div 2 \in Nat
      BY <1>2, <1>4
    <3>. QED  BY <3>1
  <2>2. (c + 2) \div 2 = k + 1
    BY <2>1
  <2>. QED  BY <1>1, <1>2, <1>3, <1>4, <2>1, <2>2
<1>5. CASE c % 2 = 1
  <2>1. PICK k \in Nat : c = 2 * k + 1
    <3>1. c = 2 * (c \div 2) + 1 /\ c \div 2 \in Nat
      BY <1>2, <1>5
    <3>. QED  BY <3>1
  <2>2. (c + 2) \div 2 = k + 1
    BY <2>1
  <2>. QED  BY <1>1, <1>2, <1>3, <1>5, <2>1, <2>2
<1>6. c % 2 \in {0, 1}
  BY <1>2
<1>. QED  BY <1>2, <1>4, <1>5, <1>6

LEMMA ListedFits ==
  ASSUME NEW text \in Spellings, CountOf(WordRange(text)) \in 1..Back
  PROVE  KeyboardInv(Listed(text, WordRange(text)))
<1>. DEFINE r == WordRange(text)
            c == CountOf(r)
            kb == Listed(text, r)
<1>1. c # 0 /\ c \in 1..Back
  OBVIOUS
<1>2. /\ r.from \in Words /\ r.to \in Words
      /\ {w \in Words : IsPrefix(text, WordList[w])} = r.from..r.to
  BY <1>1, RangeIs
<1>3. kb = [text |-> text, list |-> TRUE, range |-> r, start |-> Hidden(r) * Columns,
            at |-> Hidden(r) * Columns + c \div 2]
  BY DEF Listed
<1>4. /\ Back \in Nat /\ Hidden(r) \in Nat /\ c % 2 \in {0, 1} /\ c \in Nat \ {0}
      /\ c % 2 = 0 => 2 * Hidden(r) + c = Back - 1
      /\ c % 2 = 1 => 2 * Hidden(r) + c = Back
  BY GridIs
<1>5. kb.at \in kb.start..Back /\ (c % 2 = 0 => kb.at # Back - 1)
  <2>. HIDE DEF r, c, kb
  <2>1. kb.start = 2 * Hidden(r) /\ kb.at = 2 * Hidden(r) + c \div 2
    BY <1>3, <1>4 DEF Columns
  <2>2. c \div 2 \in Nat /\ c \div 2 < c
    BY <1>4
  <2>. QED  BY <1>4, <2>1, <2>2
<1>6. /\ kb.text = text /\ kb.range = r /\ kb.start = Hidden(r) * Columns /\ kb.list = TRUE
      /\ kb = [text |-> kb.text, list |-> kb.list, range |-> kb.range, start |-> kb.start,
               at |-> kb.at]
  <2>. HIDE DEF r, c, kb
  <2>. QED  BY <1>3
<1>. HIDE DEF kb
<1>7. GridInv(kb)
  <2>1. CountOf(kb.range) = c
    BY <1>6
  <2>. HIDE DEF r
  <2>2. {w \in Words : IsPrefix(kb.text, WordList[w])} = kb.range.from..kb.range.to
    BY <1>2, <1>6
  <2>3. kb.range.from \in Words /\ kb.range.to \in Words
    BY <1>2, <1>6
  <2>. HIDE DEF c
  <2>. QED  BY <1>1, <1>5, <1>6, <2>1, <2>2, <2>3 DEF GridInv
<1>8. KeyboardInv(kb)
  BY <1>6, <1>7 DEF KeyboardInv
<1>. QED  BY <1>8 DEF kb

\* The highlight goes around: to the last row of its column, to the first column of its row.
LEMMA MovedFits ==
  ASSUME NEW kb, KeyboardInv(kb), kb.list, NEW d \in {"left", "right", "up", "down"}
  PROVE  KeyboardInv(Moved(kb, d))
<1>. DEFINE k == Hidden(kb.range)
            c == CountOf(kb.range)
            row == kb.at \div 2
            col == kb.at % 2
            to == Moved(kb, d).at
<1>1. GridInv(kb)
  BY DEF KeyboardInv
<1>2. /\ Rows \in Nat \ {0} /\ Back = 2 * Rows - 1 /\ k \in 0..Rows - 1 /\ c % 2 \in {0, 1}
      /\ c % 2 = 0 => k <= Rows - 2
  BY <1>1, GridIs DEF GridInv
<1>3. /\ kb.start = 2 * k /\ kb.at \in 2 * k..2 * Rows - 1
      /\ c % 2 = 0 => kb.at # 2 * Rows - 2
  BY <1>1, <1>2 DEF GridInv, Columns
<1>4. kb.at = 2 * row + col /\ row \in k..Rows - 1 /\ col \in {0, 1}
  <2>. HIDE DEF k, c
  <2>1. kb.at \in Nat
    BY <1>2, <1>3
  <2>2. kb.at = 2 * row + col /\ row \in Nat /\ col \in {0, 1}
    BY <2>1
  <2>. HIDE DEF row, col
  <2>. QED  BY <1>2, <1>3, <2>2
<1>5. FirstRowOf(kb) = k
  <2>. HIDE DEF k
  <2>. QED  BY <1>2, <1>3 DEF FirstRowOf, Columns
<1>6. to \in 2 * k..2 * Rows - 1 /\ (c % 2 = 0 => to # 2 * Rows - 2)
  <2>. DEFINE left == IF col - 1 < FirstColumnOf(kb, row) THEN 1 ELSE col - 1
              right == IF col + 1 > 1 THEN FirstColumnOf(kb, row) ELSE col + 1
              up == IF row - 1 < FirstRowOf(kb) THEN LastRowOf(kb, col) ELSE row - 1
              down == IF row + 1 > LastRowOf(kb, col) THEN FirstRowOf(kb) ELSE row + 1
  <2>1. to = CASE d = "left" -> row * 2 + left [] d = "right" -> row * 2 + right
               [] d = "up" -> up * 2 + col [] d = "down" -> down * 2 + col
    BY DEF Moved, Columns, KeyboardInv
  <2>2. /\ FirstColumnOf(kb, row) = IF c % 2 = 0 /\ row = Rows - 1 THEN 1 ELSE 0
        /\ LastRowOf(kb, col) = IF c % 2 = 0 /\ col = 0 THEN Rows - 2 ELSE Rows - 1
    BY DEF FirstColumnOf, LastRowOf
  <2>. HIDE DEF to, k, c, row, col
  <2>3. CASE d = "left"
    BY <1>2, <1>3, <1>4, <2>1, <2>2, <2>3
  <2>4. CASE d = "right"
    BY <1>2, <1>3, <1>4, <2>1, <2>2, <2>4
  <2>5. CASE d = "up"
    BY <1>2, <1>3, <1>4, <1>5, <2>1, <2>2, <2>5
  <2>6. CASE d = "down"
    BY <1>2, <1>3, <1>4, <1>5, <2>1, <2>2, <2>6
  <2>. QED  BY <2>3, <2>4, <2>5, <2>6
<1>7. Moved(kb, d) = [kb EXCEPT !.at = to]
  BY DEF Moved, KeyboardInv
<1>. HIDE DEF to
<1>8. /\ Moved(kb, d) = [text |-> kb.text, list |-> kb.list, range |-> kb.range,
                         start |-> kb.start, at |-> to]
  BY <1>7 DEF KeyboardInv
<1>. DEFINE after == Moved(kb, d)
<1>9. /\ after.text = kb.text /\ after.list = kb.list /\ after.range = kb.range
      /\ after.start = kb.start /\ after.at = to
      /\ after = [text |-> after.text, list |-> after.list, range |-> after.range,
                  start |-> after.start, at |-> after.at]
  <2>. HIDE DEF after
  <2>. QED  BY <1>8 DEF after
<1>. HIDE DEF after
<1>10. GridInv(after)
  <2>1. to \in kb.start..Back /\ (c % 2 = 0 => to # Back - 1)
    <3>. HIDE DEF k, c
    <3>. QED  BY <1>2, <1>3, <1>6
  <2>2. {w \in Words : IsPrefix(after.text, WordList[w])} = after.range.from..after.range.to
    BY <1>1, <1>9 DEF GridInv
  <2>3. /\ after.range.from \in Words /\ after.range.to \in Words
        /\ CountOf(after.range) = c /\ c \in 1..Back /\ after.start = Hidden(after.range) * Columns
    BY <1>1, <1>9 DEF GridInv
  <2>4. after.at \in after.start..Back /\ (c % 2 = 0 => after.at # Back - 1)
    <3>. HIDE DEF c
    <3>. QED  BY <1>9, <2>1
  <2>. HIDE DEF c
  <2>. QED  BY <2>2, <2>3, <2>4 DEF GridInv
<1>11. KeyboardInv(after)
  BY <1>9, <1>10 DEF KeyboardInv
<1>. QED  BY <1>11 DEF after

LEMMA LetteredFits ==
  ASSUME NEW kb, KeyboardInv(kb), ~kb.list, NEW l \in Letters
  PROVE  KeyboardInv(Lettered(kb, l))
<1>1. l \in Nat \ {0}
  BY DEF Letters
<1>2. Append(kb.text, l) \in Spellings
  BY <1>1 DEF KeyboardInv, Spellings
<1>. DEFINE text == Append(kb.text, l)
            r == WordRange(text)
<1>3. CountOf(r) \in Nat
  <2>1. CASE CountOf(r) # 0
    BY <1>2, <2>1, RangeIs, WordsAre DEF CountOf
  <2>. QED  BY <2>1
<1>4. Back \in Nat
  BY WordListAssumption DEF Back, Columns
<1>5. \/ Lettered(kb, l) \in {kb, Opened(text), Opened(kb.text)}
      \/ CountOf(r) \in 1..Back /\ Lettered(kb, l) = Listed(text, r)
  <2>. DEFINE full == Len(kb.text) >= MaxText
              many == CountOf(r) > Back
  <2>1. Lettered(kb, l) = IF full THEN kb
                          ELSE IF many THEN Opened(text)
                          ELSE IF CountOf(r) = 0 THEN Opened(kb.text) ELSE Listed(text, r)
    BY DEF Lettered
  <2>2. many \/ CountOf(r) = 0 \/ CountOf(r) \in 1..Back
    <3>. HIDE DEF text, r
    <3>. QED  BY <1>3, <1>4
  <2>. HIDE DEF text, r, full, many
  <2>3. CASE full \/ many \/ CountOf(r) = 0
    BY <2>1, <2>3
  <2>4. CASE ~full /\ ~many /\ CountOf(r) # 0
    BY <2>1, <2>2, <2>4
  <2>. QED  BY <2>3, <2>4
<1>. QED  BY <1>2, <1>5, OpenedFits, ListedFits DEF KeyboardInv

LEMMA DeletedFits ==
  ASSUME NEW kb, KeyboardInv(kb)
  PROVE  KeyboardInv(Deleted(kb))
<1>1. kb.text # << >> => Front(kb.text) \in Spellings
  BY DEF KeyboardInv, Spellings, Front
<1>. QED  BY <1>1, OpenedFits DEF Deleted, KeyboardInv

\* Every key keeps the list that of the letters, and the highlight readable.
LEMMA PressesFit ==
  ASSUME NEW kb, KeyboardInv(kb), NEW after \in Presses(kb)
  PROVE  KeyboardInv(after)
<1>1. CASE kb.list
  BY <1>1, MovedFits, DeletedFits DEF Presses
<1>2. CASE ~kb.list
  BY <1>2, LetteredFits, DeletedFits DEF Presses
<1>. QED  BY <1>1, <1>2

LEMMA KeyboardTells ==
  ASSUME NEW kb, KeyboardInv(kb)
  PROVE  ListTells(kb)
<1>. SUFFICES ASSUME kb.list
              PROVE  /\ OnItem(kb, kb.at) \in {"word", "back"}
                     /\ {w \in Words : IsPrefix(kb.text, WordList[w])} = kb.range.from..kb.range.to
                     /\ OnItem(kb, kb.at) = "word" => IsPrefix(kb.text, WordList[Taken(kb)])
  BY DEF ListTells
<1>. DEFINE r == kb.range
            c == CountOf(r)
            w == r.from + kb.at - kb.start
<1>1. GridInv(kb)
  BY DEF KeyboardInv
<1>2. /\ {v \in Words : IsPrefix(kb.text, WordList[v])} = r.from..r.to
      /\ r.from \in Nat /\ r.to \in Nat /\ c \in 1..Back
      /\ kb.start = Hidden(r) * Columns /\ kb.at \in kb.start..Back
      /\ c % 2 = 0 => kb.at # Back - 1
  BY <1>1, WordsAre DEF GridInv
<1>3. c = r.to - r.from + 1
  BY <1>2 DEF CountOf
<1>4. /\ Back \in Nat /\ Hidden(r) \in Nat /\ c % 2 \in {0, 1}
      /\ c % 2 = 0 => 2 * Hidden(r) + c = Back - 1
      /\ c % 2 = 1 => 2 * Hidden(r) + c = Back
  BY <1>2, GridIs
<1>5. kb.start = 2 * Hidden(r) /\ kb.start \in Nat /\ kb.at \in Nat
  BY <1>2, <1>4 DEF Columns
<1>6. kb.at # Back => w \in r.from..r.to
  <2> SUFFICES ASSUME kb.at # Back PROVE w \in r.from..r.to
    OBVIOUS
  <2>. HIDE DEF c, r
  <2>1. kb.start + c <= Back /\ c \in Nat
    BY <1>2, <1>4, <1>5
  <2>2. kb.at >= kb.start /\ kb.at <= Back
    BY <1>2, <1>5
  <2>3. kb.at < kb.start + c
    <3>1. CASE c % 2 = 0
      BY <1>2, <1>4, <1>5, <2>1, <2>2, <3>1
    <3>2. CASE c % 2 = 1
      BY <1>2, <1>4, <1>5, <2>1, <2>2, <3>2
    <3>. QED  BY <1>4, <3>1, <3>2
  <2>. QED  BY <1>2, <1>3, <1>5, <2>2, <2>3
<1>7. OnItem(kb, kb.at) = IF kb.at = Back THEN "back"
                          ELSE IF kb.at < kb.start \/ w > r.to THEN "blank" ELSE "word"
  BY DEF OnItem
<1>8. Taken(kb) = w
  BY <1>2, <1>5 DEF Taken
<1>. HIDE DEF w, c, r
<1>9. OnItem(kb, kb.at) = IF kb.at = Back THEN "back" ELSE "word"
  BY <1>2, <1>5, <1>6, <1>7
<1>10. kb.at # Back => IsPrefix(kb.text, WordList[w])
  BY <1>2, <1>6
<1>. QED  BY <1>2, <1>8, <1>9, <1>10 DEF r

-----------------------------------------------------------------------------
(* What the guide offers to choose from                                     *)

\* The word that is asked for is among the items, and a verdict is that of the selected one.
ConfirmOffers ==
  In("confirm") => /\ dlg = [kind |-> "confirm", idx |-> dlg.idx, items |-> dlg.items,
                             sel |-> dlg.sel, mark |-> dlg.mark]
                   /\ wiz.words[dlg.idx + 1] \in ToSet(dlg.items)
                   /\ dlg.mark # "none" => (dlg.mark = "right" <=> Right)

\* Words are typed in their places, and the keyboard fits its letters.
LettersOffer ==
  In("words") => /\ dlg = [kind |-> "words", typed |-> dlg.typed, at |-> dlg.at, kb |-> dlg.kb]
                 /\ dlg.typed \in Seq(Words \cup {0}) /\ dlg.at \in 0..Len(dlg.typed) - 1
                 /\ KeyboardInv(dlg.kb)

\* It holds along with SessionInv and WizardInv.
OfferInv == modal = "guide" => ConfirmOffers /\ LettersOffer

\* Other dialogs offer nothing of that kind.
LEMMA NothingOffered ==
  ASSUME modal' # "guide" \/ dlg'.kind \notin {"confirm", "words"}
  PROVE  OfferInv'
BY DEF OfferInv, ConfirmOffers, LettersOffer, In

\* What leaves the wizards alone leaves the guide's dialogs where they are.
LEMMA OfferKept ==
  ASSUME OfferInv, WizardInv, WizardInv', UNCHANGED <<steps, wiz, dlg>>
  PROVE  OfferInv'
<1>1. CASE modal = "guide"
  BY <1>1 DEF OfferInv, ConfirmOffers, LettersOffer, In, Right
<1>2. CASE modal # "guide" /\ modal' = "guide"
  <2>1. DialogPlace /\ DialogPlace'
    BY DEF WizardInv, StackInv
  <2>2. dlg.kind # "confirm"
    BY <1>2, <2>1 DEF DialogPlace
  <2>3. dlg.kind # "words"
    <3>1. dlg.kind = "words" => TopStep(steps) = "VERIFY_MNEMONIC"
      BY <1>2, <2>1 DEF DialogPlace
    <3>2. dlg'.kind = "words" => TopStep(steps') = "ACCOUNT_RECOVERY"
      BY <1>2, <2>1 DEF DialogPlace, Wizards
    <3>. QED  BY <3>1, <3>2
  <2>. QED  BY <2>2, <2>3, NothingOffered
<1>3. CASE modal' # "guide"
  BY <1>3, NothingOffered
<1>. QED  BY <1>1, <1>2, <1>3

\* Whatever is drawn, the word asked for is put among it if it is not there.
LEMMA AskedOffers ==
  ASSUME NEW words, NEW idx, NEW items \in Asked(words, idx)
  PROVE  words[idx + 1] \in ToSet(items)
<1>1. PICK drawn \in DrawnFrom(words, idx) :
        \/ words[idx + 1] \in ToSet(drawn) /\ items = drawn
        \/ \E i \in 1..ItemMax : items = [drawn EXCEPT ![i] = words[idx + 1]]
  BY DEF Asked
<1>2. DOMAIN drawn = 1..ItemMax
  BY DEF DrawnFrom
<1>3. ASSUME NEW i \in 1..ItemMax, items = [drawn EXCEPT ![i] = words[idx + 1]]
      PROVE  words[idx + 1] \in ToSet(items)
  <2>1. i \in DOMAIN items /\ items[i] = words[idx + 1]
    BY <1>2, <1>3
  <2>. QED  BY <2>1 DEF ToSet
<1>. QED  BY <1>1, <1>3

LEMMA AsksOffers ==
  ASSUME NEW n, Asks(n), wiz'.words = wiz.words
  PROVE  OfferInv'
<1>1. PICK items \in Asked(wiz.words, n) :
        dlg' = [kind |-> "confirm", idx |-> n, items |-> items, sel |-> 1, mark |-> "none"]
  BY DEF Asks
<1>2. wiz.words[n + 1] \in ToSet(items)
  BY AskedOffers
<1>3. /\ dlg'.kind = "confirm" /\ dlg'.idx = n /\ dlg'.items = items /\ dlg'.sel = 1
      /\ dlg'.mark = "none"
  BY <1>1
<1>. QED  BY <1>1, <1>2, <1>3 DEF OfferInv, ConfirmOffers, LettersOffer, In

\* Asking the words back
LEMMA ConfirmOffersOn ==
  ASSUME OfferInv, modal = "guide", wiz \in GuideType,
         ConfirmStarts \/ ConfirmMoves \/ ConfirmOk \/ ConfirmTimer
  PROVE  OfferInv'
<1>1. CASE ConfirmStarts
  <2>1. Asks(0) /\ wiz'.words = wiz.words
    BY <1>1 DEF ConfirmStarts, GuideType
  <2>. QED  BY <2>1, AsksOffers
<1>2. CASE ConfirmMoves
  <2>1. PICK x : dlg' = [dlg EXCEPT !.sel = x]
    BY <1>2 DEF ConfirmMoves
  <2>2. /\ dlg.kind = "confirm" /\ dlg.mark = "none" /\ wiz' = wiz
        /\ dlg = [kind |-> "confirm", idx |-> dlg.idx, items |-> dlg.items, sel |-> dlg.sel,
                  mark |-> dlg.mark]
        /\ wiz.words[dlg.idx + 1] \in ToSet(dlg.items)
    BY <1>2 DEF ConfirmMoves, SelectionFree, In, OfferInv, ConfirmOffers
  <2>3. dlg' = [kind |-> "confirm", idx |-> dlg.idx, items |-> dlg.items, sel |-> x,
                mark |-> "none"]
    BY <2>1, <2>2
  <2>. QED  BY <2>2, <2>3 DEF OfferInv, ConfirmOffers, LettersOffer, In
<1>3. CASE ConfirmOk
  <2>1. dlg' = [dlg EXCEPT !.mark = IF Right THEN "right" ELSE "error"]
    BY <1>3 DEF ConfirmOk
  <2>2. /\ dlg.kind = "confirm" /\ wiz' = wiz
        /\ dlg = [kind |-> "confirm", idx |-> dlg.idx, items |-> dlg.items, sel |-> dlg.sel,
                  mark |-> dlg.mark]
        /\ wiz.words[dlg.idx + 1] \in ToSet(dlg.items)
    BY <1>3 DEF ConfirmOk, In, OfferInv, ConfirmOffers
  <2>3. dlg' = [kind |-> "confirm", idx |-> dlg.idx, items |-> dlg.items, sel |-> dlg.sel,
                mark |-> IF Right THEN "right" ELSE "error"]
    BY <2>1, <2>2
  <2>4. /\ dlg'.kind = "confirm" /\ dlg'.idx = dlg.idx /\ dlg'.items = dlg.items
        /\ dlg'.sel = dlg.sel /\ dlg'.mark = IF Right THEN "right" ELSE "error"
    BY <2>3
  <2>5. Right' <=> Right
    BY <2>2, <2>4 DEF Right
  <2>6. dlg'.mark = "right" <=> Right'
    BY <2>4, <2>5
  <2>. QED  BY <2>2, <2>3, <2>4, <2>6 DEF OfferInv, ConfirmOffers, LettersOffer, In
<1>4. CASE ConfirmTimer
  <2>1. wiz'.words = wiz.words
    BY <1>4 DEF ConfirmTimer, GuideType
  <2>2. Asks(dlg.idx) \/ Asks(dlg.idx + 1) \/ dlg' = NoDialog
    BY <1>4 DEF ConfirmTimer, Onto
  <2>. QED  BY <2>1, <2>2, AsksOffers, NothingOffered DEF NoDialog
<1>. QED  BY <1>1, <1>2, <1>3, <1>4

\* The keyboard of a word starts with the letters of the one that is in its place, or empty.
LEMMA AskingOffers ==
  ASSUME NEW typed \in Seq(Words \cup {0}), NEW at \in 0..Len(typed) - 1, dlg' = Asking(typed, at)
  PROVE  OfferInv'
<1>1. at + 1 \in 1..Len(typed)
  OBVIOUS
<1>2. typed[at + 1] \in Words \cup {0}
  BY <1>1
<1>3. Spelling(typed[at + 1]) \in Spellings
  BY <1>2, WordIs DEF Spelling, Spellings
<1>. DEFINE kb == Opened(Spelling(typed[at + 1]))
<1>4. KeyboardInv(kb)
  BY <1>3, OpenedFits
<1>5. dlg' = [kind |-> "words", typed |-> typed, at |-> at, kb |-> kb]
  BY DEF Asking
<1>. HIDE DEF kb
<1>6. dlg'.kind = "words" /\ dlg'.typed = typed /\ dlg'.at = at /\ dlg'.kb = kb
  BY <1>5
<1>7. KeyboardInv(dlg'.kb)
  BY <1>4, <1>6
<1>. QED  BY <1>5, <1>6, <1>7 DEF OfferInv, ConfirmOffers, LettersOffer, In

\* Typing them
LEMMA LettersOfferOn ==
  ASSUME OfferInv, modal = "guide", StackInv, AllEarned,
         RecoveryStarts \/ LetterTyped \/ WordTyped \/ WordLeft \/ RecoveryTyped
  PROVE  OfferInv'
<1>1. CASE RecoveryStarts
  <2>1. Earned("ACCOUNT_RECOVERY", wiz)
    <3>1. Rising(steps) /\ TopStep(steps) = "ACCOUNT_RECOVERY"
      BY <1>1 DEF RecoveryStarts, At, StackInv
    <3>. QED  BY <3>1, EarnedTop DEF NoStep
  <2>2. wiz.mlen \in Nat \ {0}
    BY <2>1, WordSteps, PositiveCounts DEF Earned
  <2>. DEFINE typed == [i \in 1..wiz.mlen |-> 0]
  <2>3. typed \in Seq(Words \cup {0}) /\ 0 \in 0..Len(typed) - 1
    BY <2>2
  <2>4. dlg' = Asking(typed, 0)
    BY <1>1 DEF RecoveryStarts, WordsStart
  <2>. HIDE DEF typed
  <2>. QED  BY <2>3, <2>4, AskingOffers
<1>2. CASE ~RecoveryStarts
  <2>1. /\ dlg.kind = "words"
        /\ dlg = [kind |-> "words", typed |-> dlg.typed, at |-> dlg.at, kb |-> dlg.kb]
        /\ dlg.typed \in Seq(Words \cup {0}) /\ dlg.at \in 0..Len(dlg.typed) - 1
        /\ KeyboardInv(dlg.kb)
    BY <1>2 DEF LetterTyped, LettersShown, WordTyped, WordLeft, RecoveryTyped, In, OfferInv,
       LettersOffer
  <2>2. ASSUME NEW w \in Words
        PROVE  Placed(w) \in Seq(Words \cup {0}) /\ Len(Placed(w)) = Len(dlg.typed)
    BY <2>1 DEF Placed
  <2>3. CASE LetterTyped
    <3>1. PICK kb \in Presses(dlg.kb) : dlg' = [dlg EXCEPT !.kb = kb]
      BY <2>3 DEF LetterTyped
    <3>2. KeyboardInv(kb)
      BY <2>1, PressesFit
    <3>3. dlg' = [kind |-> "words", typed |-> dlg.typed, at |-> dlg.at, kb |-> kb]
      BY <2>1, <3>1
    <3>4. dlg'.kind = "words" /\ dlg'.typed = dlg.typed /\ dlg'.at = dlg.at /\ dlg'.kb = kb
      BY <3>3
    <3>5. KeyboardInv(dlg'.kb)
      BY <3>2, <3>4
    <3>. QED  BY <2>1, <3>3, <3>4, <3>5 DEF OfferInv, ConfirmOffers, LettersOffer, In
  <2>4. CASE WordTyped
    <3>1. PICK w \in Words : dlg' = Asking(Placed(w), dlg.at + 1)
      BY <2>4 DEF WordTyped
    <3>2. dlg.at + 1 # Len(dlg.typed)
      BY <2>4 DEF WordTyped, AllTyped
    <3>3. dlg.at + 1 \in 0..Len(Placed(w)) - 1
      BY <2>1, <2>2, <3>2
    <3>. QED  BY <2>2, <3>1, <3>3, AskingOffers
  <2>5. CASE WordLeft
    <3>1. \/ dlg.at > 0 /\ dlg' = Asking(dlg.typed, dlg.at - 1)
          \/ dlg' = NoDialog
      BY <2>5 DEF WordLeft, Off
    <3>2. dlg.at > 0 => dlg.at - 1 \in 0..Len(dlg.typed) - 1
      BY <2>1
    <3>. QED  BY <2>1, <3>1, <3>2, AskingOffers, NothingOffered DEF NoDialog
  <2>6. CASE RecoveryTyped
    <3>1. PICK w \in Words : dlg' = NoDialog \/ dlg' = Asking(Placed(w), dlg.at)
      BY <2>6 DEF RecoveryTyped, Onto
    <3>2. dlg.at \in 0..Len(Placed(w)) - 1
      BY <2>1, <2>2
    <3>. QED  BY <2>2, <3>1, <3>2, AskingOffers, NothingOffered DEF NoDialog
  <2>. QED  BY <1>2, <2>3, <2>4, <2>5, <2>6
<1>. QED  BY <1>1, <1>2

\* The other steps of the guide
LEMMA GuideOffers ==
  ASSUME OfferInv, WizardInv, SessionInv, modal = "guide", GuideStays
  PROVE  OfferInv'
<1>1. wiz \in GuideType /\ AllEarned /\ StackInv
  BY DEF WizardInv, GuideInv
<1>2. CASE ConfirmStarts \/ ConfirmMoves \/ ConfirmOk \/ ConfirmTimer
  BY <1>1, <1>2, ConfirmOffersOn
<1>3. CASE RecoveryStarts \/ LetterTyped \/ WordTyped \/ WordLeft \/ RecoveryTyped
  BY <1>1, <1>3, LettersOfferOn
<1>4. CASE \/ Language \/ Onward \/ Backward \/ AccountSelect \/ CountSelected
           \/ WordsRead \/ WordsLeft \/ ConfirmLeft \/ PinLeft \/ Verified
  <2>1. dlg' = NoDialog
    BY <1>4 DEF Language, Onward, Backward, AccountSelect, CountSelected, WordsRead, WordsLeft,
       ConfirmLeft, PinLeft, Verified, Onto, Off, Stays
  <2>. QED  BY <2>1, NothingOffered DEF NoDialog
<1>5. CASE SechipChecked \/ Generated
  <2>1. dlg' = NoDialog
    BY <1>5 DEF SechipChecked, Generated, At
  <2>. QED  BY <2>1, NothingOffered DEF NoDialog
<1>6. CASE ActiveStarts \/ ActiveAnswer
  <2>1. dlg'.kind \in {"none", "active"}
    <3>1. CASE ActiveStarts
      BY <3>1 DEF ActiveStarts, At, NoDialog
    <3>2. CASE ActiveAnswer
      <4>1. dlg.kind = "active" /\ (dlg' = NoDialog \/ \E x : dlg' = [dlg EXCEPT !.at = x])
        BY <3>2 DEF ActiveAnswer, In
      <4>. QED  BY <1>1, <4>1 DEF NoDialog, SessionInv, WizardsAside
    <3>. QED  BY <1>6, <3>1, <3>2
  <2>. QED  BY <2>1, NothingOffered
<1>7. CASE WordsShown \/ PageTurned
  <2>1. dlg'.kind = "show"
    BY <1>7 DEF WordsShown, PageTurned, ShowsPage
  <2>. QED  BY <2>1, NothingOffered
<1>8. CASE PinStarts \/ PinTyped \/ Stored
  <2>1. dlg'.kind \in {"none", "pin", "store", "check"}
    <3>1. CASE PinStarts
      BY <3>1 DEF PinStarts
    <3>2. CASE PinTyped
      <4>1. /\ dlg.kind = "pin"
            /\ \/ \E p : dlg' = [dlg EXCEPT !.first = p] \/ dlg' = [kind |-> "store", pin |-> p]
               \/ dlg' = NoDialog
        BY <3>2 DEF PinTyped, In
      <4>. QED  BY <4>1 DEF NoDialog, SessionInv, WizardsAside
    <3>3. CASE Stored
      BY <3>3 DEF Stored, Stays, NoDialog
    <3>. QED  BY <1>8, <3>1, <3>2, <3>3
  <2>. QED  BY <2>1, NothingOffered
<1>. QED  BY <1>2, <1>3, <1>4, <1>5, <1>6, <1>7, <1>8 DEF GuideStays

\* Every step of the device
LEMMA OfferStep ==
  ASSUME OfferInv, WizardInv, WizardInv', SessionInv, [Next]_vars
  PROVE  OfferInv'
<1>1. CASE UNCHANGED <<steps, wiz, dlg>>
  BY <1>1, OfferKept
<1>2. CASE dlg' = NoDialog
  BY <1>2, NothingOffered DEF NoDialog
<1>3. CASE GuideNext \/ WizardNext
  <2>1. CASE GuideStays \/ WizardStays
    <3>1. modal' = modal
      BY <2>1, GuideStaysAside, WizardStaysAside DEF OnlyWizard
    <3>2. CASE modal = "guide"
      <4>1. GuideStays
        BY <2>1, <3>2, WizardPlace DEF Wizards, WizardInv
      <4>. QED  BY <3>2, <4>1, GuideOffers
    <3>. QED  BY <3>1, <3>2, NothingOffered
  <2>2. CASE GuideStarts
    <3>1. DialogPlace /\ modal \notin InLoop /\ dlg' = dlg
      BY <2>2 DEF GuideStarts, GuideOpens, Handles, InLoop, WizardInv, StackInv
    <3>. QED  BY <3>1, NoDialogOutside, NothingOffered
  <2>3. CASE ActiveScans \/ GuideDone
    BY <1>2, <2>3 DEF ActiveScans, GuideDone, Ends
  <2>4. CASE \/ WizardStarts("PASSPHRASE", "phrase", "PASSPHRASE_TIPS")
             \/ WizardStarts("VERIFY", "verify", "VERIFY_TIPS")
    <3>1. modal' # "guide"
      BY <2>4 DEF WizardStarts
    <3>. QED  BY <3>1, NothingOffered
  <2>5. CASE WizardLeft \/ PinErases \/ WordsVerified \/ PhraseDone \/ ChangeEnds \/ ChangeErases
    BY <1>2, <2>5 DEF WizardLeft, PinErases, WordsVerified, PhraseDone, ChangeEnds, ChangeErases,
       Ends
  <2>6. CASE SettingLeft \/ ResetStarts \/ ResetDone \/ ResetLeft
    BY <1>1, <2>6 DEF SettingLeft, ResetStarts, ResetDone, ResetLeft, gvars
  <2>7. CASE ChangeStarts \/ ChangeTyped
    <3>1. modal' # "guide"
      BY <2>7 DEF ChangeStarts, ChangeTyped, In, WizardInv, StackInv, DialogPlace
    <3>. QED  BY <3>1, NothingOffered
  <2>8. CASE GuideNext
    BY <2>1, <2>2, <2>3, <2>8 DEF GuideNext, GuideStays
  <2>9. CASE WizardNext
    BY <2>1, <2>4, <2>5, <2>6, <2>7, <2>9 DEF WizardNext, WizardStays
  <2>. QED  BY <1>3, <2>8, <2>9
<1>4. CASE PanelScan \/ PanelHistory \/ PanelSetting
  BY <1>1, <1>4 DEF PanelScan, PanelHistory, PanelSetting, gvars
<1>5. CASE ScanLeaves \/ ScanRequest \/ FirstGoes \/ ScanBad \/ ScanActivation \/ ScanPairing
  BY <1>1, <1>5 DEF ScanLeaves, ScanRequest, FirstGoes, ScanBad, ScanActivation, ScanPairing
<1>6. CASE ScanFirst \/ ViewRuns \/ UNCHANGED vars \/ (Windows /\ UNCHANGED gvars)
  BY <1>1, <1>6 DEF ScanFirst, ViewRuns, vars, gvars
<1>7. CASE QrResumes \/ QrErrorClosed \/ QrActivates \/ QuietHandler
  BY <1>1, <1>7 DEF QrResumes, QrErrorClosed, QrActivates, QuietHandler, gvars
<1>8. CASE Restart
  BY <1>2, <1>8 DEF Restart
<1>9. CASE QrAnswers \/ QrLeft \/ PubkeyErases
  BY <1>1, <1>9 DEF QrAnswers, QrLeft, PubkeyErases, gvars
<1>10. CASE HistoryErases \/ BindErases
  <2>1. DialogPlace /\ modal \notin InLoop /\ dlg' = dlg
    BY <1>10 DEF HistoryErases, BindErases, Pairing, PanelAnyway, InLoop, WizardInv, StackInv
  <2>. QED  BY <2>1, NoDialogOutside, NothingOffered
<1>. QED  BY <1>3, <1>4, <1>5, <1>6, <1>7, <1>8, <1>9, <1>10 DEF Next

\* While words are asked back, the right one can be selected and the verdict shown is that of the
\* item that counts; on the keyboard the list holds the words of the letters, and the highlight is
\* on one of them or on Back, whatever is pressed.
THEOREM OffersAreTrue == Spec => []WordsOffered
<1>1. Init => OfferInv
  BY DEF Init, SessionInit, WindowsInit, OfferInv
<1>2. OfferInv /\ SessionInv /\ WizardInv /\ WizardInv' /\ [Next]_vars => OfferInv'
  BY OfferStep
<1>3. OfferInv /\ WizardInv => WordsOffered
  <2> SUFFICES ASSUME OfferInv, WizardInv PROVE WordsOffered
    OBVIOUS
  <2>1. In("confirm") => modal = "guide"
    BY DEF WizardInv, StackInv, DialogPlace, In
  <2>2. LettersShown => ListTells(dlg.kb)
    BY KeyboardTells DEF LettersShown, OfferInv, LettersOffer
  <2>. QED  BY <2>1, <2>2 DEF WordsOffered, OfferInv, ConfirmOffers
<1>. QED  BY <1>1, <1>2, <1>3, WizardsHold, PTL DEF Spec
==============================================================================
