----------------------------- MODULE UtxoViews ------------------------------
(***************************************************************************)
(* The pages of coins with inputs and outputs: coin/Bitcoin, coin/Kaspa,    *)
(* coin/Ckb and coin/Cardano.  sums is what the loops of UtxoTotals found:  *)
(* an error, whether an output that is no change has a value, and what the  *)
(* first output is.  The first three remember the coin before they look at  *)
(* the request, and Bitcoin and Kaspa whether it was scanned or not.        *)
(***************************************************************************)
EXTENDS SignPage

UtxoCoins == {"btc", "kas", "ckb"}

BtcBrc == {"plain", "nft", "inscribe", "send", "rune", "dapp"}

\* Bitcoin and Kaspa put the unit behind every number as a text onto itself.
NumbersLost(r) == IF r.unit = "lost" THEN {"amount", "fee"} ELSE {}

\* on_sign_show_more: the change and the inputs have rows below the recipients.
ShowMore(page) == [page EXCEPT !.shows = @ \cup {"from"}]

\* An output that is no change and has a value has a row; there may be none.
Recipients(sums) == Texts(sums.paid, {"to"})

\* The page of a transfer, or of an inscription that travels with it.  The text
\* is cleared before the history gets it.
BtcTransferPage(r, sums) ==
  LET page == Page("tx", {"amount", "fee"} \cup Recipients(sums)
                         \cup Texts(r.brc \in {"plain", "send", "rune"}, {"money"})
                         \cup Texts(r.brc = "inscribe", {"memo"}), 2)
  IN  Logging(Shortened(ShowMore(page), {"to", "from"}), "none")

\* The recipient of an NFT is the first output, change or not; a memo has no address.
BtcNftPage(sums) ==
  LET page == Page("tx", {"nftid", "fee", "from"} \cup Texts(sums.lead # "memo", {"to"}), 2)
  IN  Logging(Shortened(page, {"nftid", "from", "to"}), "none")

BtcWrong(r, sums) ==
  NumbersLost(r) \cup Texts(r.brc = "nft" /\ sums.lead = "change", {"to"})

BtcBody(r, sums) ==
  IF r.brc = "dapp" THEN Logging(Shortened(Page("app", {"contract", "message"}, 1), {"message"}), "none")
  ELSE IF sums.err # 0 THEN Refused(-sums.err)
  ELSE Misprint(IF r.brc = "nft" THEN BtcNftPage(sums) ELSE BtcTransferPage(r, sums),
                BtcWrong(r, sums))

BtcView(r, sums) ==
  LET tests == << Fail(~r.rate, -102), Fail(~r.known, -181) >>
      early == r.rate /\ r.known /\ r.main
      page  == Tested(tests, BtcBody(r, sums))
  IN  Saving(page, early \/ (page.ret = 0 /\ r.app))

\* The branch that saves the coin of a scanned request is behind a return.
KasView(r, sums) ==
  LET tests == << Fail(~r.rate, -102), Fail(~r.known, -181),
                  Fail(sums.err # 0, -sums.err) >>
      facts == {"amount", "money", "fee"} \cup Recipients(sums)
      page  == Logging(Shortened(ShowMore(Page("tx", facts, 2)), {"to", "from"}), "none")
  IN  Saving(Tested(tests, Misprint(page, NumbersLost(r))), r.rate /\ r.known /\ r.main)

\* An unlock shows the first output as the receiver, change or not; of one with a short
\* address it shows the first input.
CkbUnlockPage(r, sums) ==
  Misprint(Page("approval", {"to", "amount"}, 1),
           Texts(r.short \/ sums.lead = "change", {"to"}))

CkbView(r, sums) ==
  LET tests == << Fail(~r.rate, -102), Fail(~r.known, -181), Fail(sums.err # 0, -sums.err),
                  Fail(r.brc \notin {"plain", "unlock"}, -10300) >>
      facts == {"amount", "money", "fee"} \cup Recipients(sums)
      page  == Shortened(IF r.brc = "unlock" THEN CkbUnlockPage(r, sums)
                         ELSE ShowMore(Page("tx", facts, 2)), {"to", "from"})
  IN  Saving(Tested(tests, page), r.rate /\ r.known)

UtxoView(r, sums) ==
  CASE r.coin = "btc" -> BtcView(r, sums)
    [] r.coin = "kas" -> KasView(r, sums)
    [] r.coin = "ckb" -> CkbView(r, sums)

\* The dapp messages of Bitcoin have no inputs to add up.
UtxoNeedsTotals(r) == r.rate /\ r.known /\ ~(r.coin = "btc" /\ r.brc = "dapp")

\* What a request of each of them may ask for
UtxoAsks == [btc |-> BtcBrc, kas |-> {"plain"}, ckb |-> {"plain", "unlock", "send"}]

UtxoReqs ==
  {r \in [coin : UtxoCoins, rate : BOOLEAN, known : BOOLEAN, main : BOOLEAN,
          brc : BtcBrc \cup {"unlock"}, unit : {"kept", "lost"}, short : BOOLEAN, app : BOOLEAN] :
     /\ r.brc \in UtxoAsks[r.coin]
     /\ r.unit = "lost" => r.coin # "ckb"
     /\ r.short => r.brc = "unlock"}

(***************************************************************************)
(* coin/Cardano/cardano_sign_view.c: the loop stops at an output without    *)
(* address or with a bad amount, and the last recipient is the one shown.   *)
(***************************************************************************)

AdaView(r) ==
  LET facts == {"amount", "fee", "to"} \cup Texts(r.token, {"money"})
               \cup Texts(r.change /\ ~r.stops, {"from"})
      wrong == Texts(r.recipients > 1, {"to"}) \cup Texts(r.stops, {"amount"}) \cup NumbersLost(r)
      page  == Shortened(Page("tx", facts, 2), {"to", "from"})
      tests == << Fail(~r.rate, -102), Fail(~r.known, -103),
                  Fail(r.token /\ r.assets # 1, -104) >>
  IN  IfShown(Tested(tests, Misprint(page, wrong)), r.app)

\* The phone sends at least one recipient; without one the text of the
\* recipient is read through a null pointer.
AdaReqs == [coin : {"ada"}, rate : BOOLEAN, known : BOOLEAN, token : BOOLEAN,
            assets : 0..2, recipients : 1..2, stops : BOOLEAN, unit : {"kept", "lost"},
            change : BOOLEAN, app : BOOLEAN]

=============================================================================
