---------------------------- MODULE ActionViews -----------------------------
(***************************************************************************)
(* The pages of coins whose transactions carry one typed action: coin/Tron, *)
(* coin/Ripple, coin/Eos and coin/Neo.                                      *)
(***************************************************************************)
EXTENDS SignPage

TronTransfers == {"trx", "trc10", "trc20"}

\* The contracts whose page is a few labels: kind and facts
TronContract ==
  [smart    |-> Shortened(Page("app", {"message"}, 1), {"message"}),
   freeze   |-> Page("message", {"amount", "duration", "resource", "to"}, 2),
   unfreeze |-> Page("message", {"resource", "to"}, 1),
   stake    |-> Page("message", {"amount"}, 1),
   delegate |-> Shortened(Page("message", {"amount", "to"}, 1), {"to"}),
   chain    |-> Page("message", {"network"}, 1)]

\* A vote is two labels, three votes to a screen under a title.
VoteRows(n) == {[screen |-> (i + 1) \div 3, at |-> (i + 1) % 3] : i \in 0..(n - 1)}
TronVote(n) == Page("message", IF n = 0 THEN {} ELSE {"to", "amount"}, n \div 3 + 1)

\* The owner is compared with the address of the path, the recipient decoded.
TronTransferTests(r) ==
  << Fail(~r.coinok, -111), Fail(~r.uname, -112), Fail(r.late, -114) >>
  \o OwnAddress(r)
  \o << Fail(~r.from, -115), Fail(~r.to, -116) >>

\* What bignum2double says is not looked at: where it fails, the page and the history
\* get what the buffer on the stack held.
TronUnread(r) == r.big /\ r.amount = "huge"

\* Only a gas station says what a transfer costs.
TronTransferPage(r) ==
  LET station == r.op = "trc20" /\ r.station
      facts   == {"money", "from", "to"} \cup Texts(station, {"fee"}) \cup Texts(r.memo, {"memo"})
                 \cup Texts(TronUnread(r) => r.stack = "text", {"amount"})
  IN  Misprint(Page("tx", facts, IF station /\ r.memo THEN 3 ELSE 2),
               Texts(TronUnread(r), {"amount"}))

TronView(r) ==
  IF r.op \in TronTransfers
  THEN IfShown(Tested(TronTransferTests(r), TronTransferPage(r)), r.app)
  ELSE IF r.op = "vote" THEN Logging(TronVote(r.votes), "none")
  ELSE IF r.op \in DOMAIN TronContract THEN Logging(TronContract[r.op], "none")
  ELSE Refused(-190)

TronBase == [coin |-> "tron", op |-> "trx", coinok |-> TRUE, uname |-> TRUE, late |-> FALSE,
             from |-> TRUE, to |-> TRUE, path |-> "ok", big |-> FALSE, amount |-> "small",
             stack |-> "blank",
             station |-> FALSE, memo |-> FALSE, votes |-> 0, app |-> TRUE]

TronParties(o, p, f, t) == [TronBase EXCEPT !.op = o, !.path = p, !.from = f, !.to = t]
TronCoin(c, u, l) == [TronBase EXCEPT !.coinok = c, !.uname = u, !.late = l]
TronSent(o, b, a, k, s, m, q) ==
  [TronBase EXCEPT !.op = o, !.big = b, !.amount = a, !.stack = k, !.station = s, !.memo = m,
                   !.app = q]
TronOther(o, n) == [TronBase EXCEPT !.op = o, !.votes = n]

TronReqs ==
  {TronParties(o, p, f, t) :
     o \in {"trx", "trc20"}, p \in {"ok", "bad", "nokey"}, f \in BOOLEAN, t \in BOOLEAN}
  \cup {TronCoin(c, u, l) : c \in BOOLEAN, u \in BOOLEAN, l \in BOOLEAN}
  \cup {TronSent(o, b, a, k, s, m, q) :
          o \in TronTransfers, b \in BOOLEAN, a \in {"small", "huge"}, k \in {"blank", "text"},
          s \in BOOLEAN, m \in BOOLEAN, q \in BOOLEAN}
  \cup {TronOther(o, 0) : o \in DOMAIN TronContract \cup {"new"}}
  \cup {TronOther("vote", n) : n \in 0..7}

(***************************************************************************)
(* coin/Ripple/xrp_sign_view.c: payments and the key for messages.  Removing *)
(* the key has an empty page.                                               *)
(***************************************************************************)

XrpPayment(r) ==
  Tested(OwnAddress(r), Page("tx", {"amount", "money", "fee", "memo", "from", "to"}, 2))

XrpAccount(r) ==
  CASE r.key = "long" -> Refused(-1)
    [] r.key = "some" -> Logging(Page("message", {"message"}, 1), "none")
    [] r.key = "none" -> Logging(Page("tx", {}, 1), "none")

XrpView(r) ==
  LET tests == << Fail(~r.known, -201), Fail(~r.rate, -1) >>
      body  == CASE r.op = "pay" -> XrpPayment(r)
                 [] r.op = "account" -> XrpAccount(r)
                 [] OTHER -> Refused(-1)
  IN  IfShown(Tested(tests, body), r.app)

XrpReqs == [coin : {"xrp"}, known : BOOLEAN, rate : BOOLEAN, op : {"pay", "account", "new"},
            key : {"none", "some", "long"}, path : {"ok", "bad", "nokey"}, app : BOOLEAN]

(***************************************************************************)
(* coin/Eos/eos_sign_view.c: a transfer says nothing of a fee; bandwidth and *)
(* memory.  A bandwidth of 0 has no label.                                  *)
(***************************************************************************)

EosBandwidth(r) ==
  Logging(Page("tx", Texts(r.cpu, {"amount"}) \cup Texts(r.net, {"net"}) \cup {"from", "to"}, 1),
          IF r.cpu \/ r.net THEN "amount" ELSE "none")

EosBody(r) ==
  CASE r.op = "transfer" ->
         Saving(Page("tx", {"amount", "money", "from", "to"} \cup Texts(r.memo, {"memo"}), 2), r.app)
    [] r.op \in {"delegatebw", "undelegatebw"} -> EosBandwidth(r)
    [] r.op = "buyram"  -> Page("tx", {"amount", "money", "from", "to"}, 1)
    [] r.op = "sellram" -> Page("tx", {"amount", "money", "from"}, 1)
    [] OTHER -> Refused(-105)

EosView(r) ==
  Tested(<< Fail(~r.known, -401), Fail(~r.uname, -102),
            Fail(r.op # "transfer" /\ ~r.eos, -103) >>, EosBody(r))

EosReqs == [coin : {"eos"}, known : {TRUE}, uname : BOOLEAN, eos : BOOLEAN,
            op : {"transfer", "delegatebw", "undelegatebw", "buyram", "sellram", "new"},
            memo : BOOLEAN, cpu : BOOLEAN, net : BOOLEAN, app : BOOLEAN]

(***************************************************************************)
(* coin/Neo/neo_sign_view.c.  sums says what is wrong with the sums of the  *)
(* inputs and outputs: a transfer of NEO itself or of GAS remembers the     *)
(* coin before it looks at them, a claim remembers GAS whoever asks.        *)
(***************************************************************************)

NeoInvocation(r) ==
  IfShown(Tested(<< Fail(~r.token, -110), Fail(~r.to, -111), Fail(r.sums = "sysfee", -112),
                    Fail(r.sums = "bad", -115), Fail(r.sums = "neo", -116),
                    Fail(r.sums = "short", -117) >>,
                 Page("tx", {"amount", "money", "fee", "from", "to"}, 2)), r.app)

NeoClaim(r) ==
  LET tests == << Fail(r.sums = "bad", -211), Fail(r.sums = "rows", -212),
                  Fail(r.sums = "excess", -213), Fail(r.sums = "neo", -214),
                  Fail(~r.known, -501) >>
      page  == Tested(tests, Page("tx", {"amount", "money"}, 1))
  IN  Saving(page, page.ret = 0)

\* The recipients of the coin that is sent have a row each; change has none.
NeoContract(r) ==
  LET tests == << Fail(~r.token, -231), Fail(~r.known, -232), Fail(r.sums = "bad", -233),
                  Fail(r.sums = "neo", -234), Fail(r.sums = "change", -235),
                  Fail(r.sums = "gas", -236), Fail(r.sums = "asset", -237) >>
  IN  Saving(Tested(tests, Page("tx", {"amount", "money", "fee", "to"}, 2)), r.token /\ r.known)

\* The sums are read again for a claim and for a contract, in that order.
NeoView(r) ==
  IF "invocation" \in r.types THEN NeoInvocation(r)
  ELSE IF "claim" \in r.types /\ r.parts THEN NeoClaim(r)
  ELSE IF "contract" \in r.types /\ r.parts THEN NeoContract(r)
  ELSE Refused(-108)

NeoReqs == [coin : {"neo"}, types : {{"invocation"}, {"claim"}, {"contract"}}, parts : BOOLEAN,
            token : BOOLEAN, known : BOOLEAN, to : BOOLEAN,
            sums : {"ok", "bad", "sysfee", "neo", "short", "rows", "excess", "change", "gas", "asset"},
            app : BOOLEAN]

=============================================================================
