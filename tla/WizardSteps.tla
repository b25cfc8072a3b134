----------------------------- MODULE WizardSteps ------------------------------
(***************************************************************************)
(* What the wizards share: the stack of their steps (utils/Stack.c), the    *)
(* test of a new PIN (wallet/passwd_util.cpp) and that of a passphrase      *)
(* (Passphrase.cpp), on sequences.                                          *)
(***************************************************************************)
EXTENDS Integers, Sequences, FiniteSets, SequencesExt

Capacity == 20     \* newSlack(20)
NoStep == "none"   \* memory that was not written: the steps count from 1

\* pushData: a full stack gets a new array of twice the capacity and forgets to
\* say so.  Every later push copies the first Capacity steps again, and no more.
Push(s, step) ==
  IF Len(s) < Capacity THEN Append(s, step)
  ELSE Append([i \in DOMAIN s |-> IF i <= Capacity THEN s[i] ELSE NoStep], step)

Pop(s) == IF s = << >> THEN s ELSE Front(s)

TopStep(s) == IF s = << >> THEN NoStep ELSE Last(s)

-----------------------------------------------------------------------------
MinPin == 6
MaxPin == 12
Listed6 == {<<1, 2, 3, 4, 5, 6>>, <<1, 2, 3, 6, 5, 4>>, <<1, 1, 1, 2, 2, 2>>, <<6, 5, 4, 3, 2, 1>>}

\* check_input_passwd: long enough, not one of the list, not one digit, not a run
PinOk(p) ==
  /\ Len(p) \in MinPin..MaxPin
  /\ p \notin Listed6
  /\ \A d \in {-1, 0, 1} : \E i \in 2..Len(p) : p[i] # p[1] + d * (i - 1)

\* check_passphrase_valid: a blank at an end, or two of them in a row, is refused
Blank == 0
PhraseOk(p) ==
  /\ Len(p) \in 1..60
  /\ p[1] # Blank /\ Last(p) # Blank
  /\ \A i \in 2..Len(p) : p[i] = Blank => p[i - 1] # Blank
=============================================================================
