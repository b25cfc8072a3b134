--------------------------- MODULE OperationViews ---------------------------
(***************************************************************************)
(* The pages of coins whose request has an operation: transfers of the coin *)
(* and of tokens, NFTs, and data of applications.  A view takes the names   *)
(* from the configuration or from the request, tests the exchange rate of a *)
(* transfer, and fills the page of the operation.                           *)
(***************************************************************************)
EXTENDS SignPage

OpBase == [coin |-> "sol", op |-> "transfer", uname |-> TRUE, main |-> TRUE, named |-> TRUE,
           rate |-> TRUE, parsed |-> TRUE, amount |-> "small", unit |-> "kept", memo |-> FALSE,
           to |-> TRUE, fee |-> TRUE, app |-> TRUE]

\* A request: what the tests of a view look at, and what its pages tell apart
OpTested(coin, o, u, m, n, x, p) ==
  [OpBase EXCEPT !.coin = coin, !.op = o, !.uname = u, !.main = m, !.named = n, !.rate = x, !.parsed = p]
OpShown(coin, o, a, k, m, t, f, q) ==
  [OpBase EXCEPT !.coin = coin, !.op = o, !.amount = a, !.unit = k, !.memo = m, !.to = t, !.fee = f,
                 !.app = q]

\* The requests of a coin
OpReqs(coin, ops) ==
  {OpTested(coin, o, u, m, n, x, p) :
     o \in ops, u \in BOOLEAN, m \in BOOLEAN, n \in BOOLEAN, x \in BOOLEAN, p \in BOOLEAN}
  \cup
  {OpShown(coin, o, a, k, m, t, f, q) :
     o \in ops, a \in {"small", "fine", "huge"}, k \in {"kept", "lost"}, m \in BOOLEAN, t \in BOOLEAN,
     f \in BOOLEAN, q \in BOOLEAN}

Addresses == {"from", "to"}
Transfer(screens) == Shortened(Page("tx", {"amount", "fee"} \cup Addresses, screens), Addresses)
NftPage(cuts) == Logging(Shortened(Page("tx", {"nftid", "fee"} \cup Addresses, 2), cuts), "none")
AppPage(cuts) == Logging(Shortened(Page("app", {"message"}, 1), cuts), "none")
Adding(page, facts) == [page EXCEPT !.shows = @ \cup facts]

(***************************************************************************)
(* coin/Solana/solana_sign_view.c                                           *)
(***************************************************************************)

SolTransfers == {"transfer", "token", "token2022"}
SolHardware == {"hardware", "hardware2022", "create2022"}

SolTests(r) ==
  << Fail(r.op \notin {"transfer", "dapp", "message", "relayer", "new"} /\ ~r.named, -1),
     Fail(r.op \in SolTransfers \cup SolHardware /\ ~r.rate, -1),
     Fail(r.op \in SolHardware \cup {"nonce"} /\ ~r.parsed, -1) >>

SolTransferPage(r) ==
  LET t == Adding(Transfer(IF r.op = "token2022" THEN 3 ELSE 2),
                  {"money"} \cup Texts(r.op = "token2022" /\ r.memo, {"memo"}))
  IN  Misprint(t, Rounded(r.amount) \cup UnitLost(r))

\* What the hardware wallet parses itself is printed with six decimals; the
\* memo label is made for every transaction that creates the account.
SolHardwarePage(r) ==
  LET three == (r.op = "hardware2022" /\ r.memo) \/ r.op = "create2022"
      t     == Adding(Transfer(IF three THEN 3 ELSE 2),
                      {"money"} \cup Texts(three /\ r.memo, {"memo"}))
  IN  Misprint(t, Texts(r.amount = "fine", {"amount"}))

\* The texts of a sponsored transaction are the request's own.
SolRelayerPage(r) ==
  Shortened(Page("tx", {"amount", "from"} \cup Texts(r.named, {"token"}) \cup Texts(r.fee, {"fee"})
                       \cup Texts(r.to, {"to"}), 2), Addresses)

SolBody(r) ==
  CASE r.op \in SolTransfers -> SolTransferPage(r)
    [] r.op = "nft" -> Misprint(NftPage({"nftid"} \cup Addresses), UnitLost(r))
    [] r.op = "compressed" ->
         Misprint(Logging(Shortened(Page("tx", {"fee"} \cup Addresses, 2), Addresses), "none"), UnitLost(r))
    [] r.op = "dapp" -> AppPage({"message"})
    [] r.op = "message" -> AppPage({})
    [] r.op = "relayer" -> SolRelayerPage(r)
    [] r.op = "nonce" -> Logging(Page("app", {"fee"}, 1), "none")
    [] r.op \in SolHardware -> SolHardwarePage(r)
    [] OTHER -> Refused(-10300)

SolView(r) == IfShown(Tested(SolTests(r), SolBody(r)), r.app)

SolReqs == {r \in OpReqs("sol", SolTransfers \cup SolHardware \cup
                          {"nft", "compressed", "dapp", "message", "relayer", "nonce", "new"}) :
              r.amount # "huge"}

(***************************************************************************)
(* coin/Near/near_sign_view.c: the fees are numbers of 24 decimals, and what *)
(* bignum2double says is not looked at.                                     *)
(***************************************************************************)

NearTests(r) ==
  << Fail(~r.uname, -2), Fail(r.op = "transfer" /\ ~r.main /\ ~r.named, -3),
     Fail(r.op = "transfer" /\ ~r.rate, -4) >>

NearBody(r) ==
  CASE r.op = "register" ->
         Logging(Shortened(Page("approval", {"fee", "contract", "pubkey"}, 2), {"pubkey"}), "none")
    [] r.op = "transfer" ->
         Shortened(Page("tx", Digits(r.amount) \cup {"money", "fee"} \cup Addresses, 2), Addresses)
    [] r.op = "dapp" -> Adding(AppPage({"message"}), {"fee"})
    [] r.op = "nft" -> NftPage(Addresses)
    [] OTHER -> Refused(-10300)

NearView(r) == IfShown(Tested(NearTests(r), NearBody(r)), r.app)
NearReqs == OpReqs("near", {"register", "transfer", "dapp", "nft", "new"})

(***************************************************************************)
(* coin/Sui/sui_sign_view.c                                                 *)
(***************************************************************************)

SuiTests(r) ==
  << Fail(r.op \in {"transfer", "nft"} /\ ~r.named, -1), Fail(r.op = "new", -2),
     Fail(r.op = "transfer" /\ ~r.rate, -3) >>

SuiBody(r) ==
  CASE r.op = "transfer" -> Misprint(Transfer(2), Rounded(r.amount))
    [] r.op = "nft" -> NftPage({"nftid"} \cup Addresses)
    [] OTHER -> AppPage({})

SuiView(r) == IfShown(Tested(SuiTests(r), SuiBody(r)), r.app)
SuiReqs == {r \in OpReqs("sui", {"transfer", "nft", "message", "swap", "new"}) : r.amount # "huge"}

(***************************************************************************)
(* coin/Ton/ton_sign_view.c, coin/Alph/alph_sign_view.c,                    *)
(* coin/Venom/venom_sign_view.c and coin/Filecoin/filecoin_sign_view.c:     *)
(* the amount is the double, the history does not get it.                   *)
(***************************************************************************)

FloatTransfer(r, screens) ==
  Logging(Misprint(Transfer(screens), Rounded(r.amount) \cup UnitLost(r)), "none")

TonView(r) ==
  LET tests == << Fail(r.op = "transfer" /\ ~r.named, -1), Fail(r.op = "new", -2),
                  Fail(r.op = "transfer" /\ ~r.rate, -3) >>
      send  == Adding(FloatTransfer(r, IF r.memo THEN 3 ELSE 2), Texts(r.memo, {"memo"}))
      body  == CASE r.op = "transfer" -> send
                 [] r.op = "nft" -> Misprint(NftPage({"nftid"} \cup Addresses), UnitLost(r))
                 [] OTHER -> AppPage({})
  IN  IfShown(Tested(tests, body), r.app)

TonReqs == OpReqs("ton", {"transfer", "nft", "dapp", "message", "new"})

AlphView(r) ==
  LET tests == << Fail(r.op = "token" /\ ~r.named, -2), Fail(r.op = "new", -3),
                  Fail(r.op \in {"transfer", "token"} /\ ~r.rate, -3) >>
      body  == CASE r.op \in {"transfer", "token"} -> FloatTransfer(r, 2)
                 [] r.op = "nft" -> Misprint(NftPage({"nftid"} \cup Addresses), UnitLost(r))
                 [] OTHER -> AppPage({})
  IN  IfShown(Tested(tests, body), r.app)

AlphReqs == OpReqs("alph", {"transfer", "token", "nft", "dapp", "new"})

VenomView(r) ==
  IfShown(Tested(<< Fail(r.op = "new", -2), Fail(~r.main /\ ~r.named, -2), Fail(~r.rate, -3) >>,
                 FloatTransfer(r, 2)), r.app)

VenomReqs == OpReqs("venom", {"transfer", "new"})

\* The fee is the fee cap times the gas limit: of a cap that is too big the
\* variable still holds the amount.
FilecoinView(r) ==
  LET page == FloatTransfer(r, 2)
  IN  IfShown(Tested(<< Fail(r.op = "new", -3), Fail(~r.rate, -3) >>,
                     [page EXCEPT !.wrong = @ \cup Texts(~r.fee, {"fee"})]), r.app)

FilecoinReqs == OpReqs("fil", {"transfer", "new"})

(***************************************************************************)
(* coin/Aptos/aptos_sign_view.c: without arguments a transfer is a contract *)
(* call of which the page shows the type, and no recipient.                 *)
(***************************************************************************)

AptosTransfer(r) ==
  LET call == Shortened(Page("tx", {"contract", "fee", "from"}, 2), {"contract", "from"})
  IN  IF r.to THEN FloatTransfer(r, 2)
      ELSE Logging(Misprint(call, UnitLost(r)), "none")

AptosBody(r) ==
  CASE r.op = "transfer" -> AptosTransfer(r)
    [] r.op = "dapp" -> AppPage({})
    [] r.op = "message" -> [AppPage({"message"}) EXCEPT !.kind = "message"]

AptosTests(r) ==
  << Fail(r.op = "transfer" /\ ~r.named, -1), Fail(r.op = "new", -1),
     Fail(r.op = "transfer" /\ ~r.rate, -1), Fail(r.op = "transfer" /\ r.to /\ ~r.parsed, -5) >>

AptosView(r) == IfShown(Tested(AptosTests(r), AptosBody(r)), r.app)
AptosReqs == OpReqs("apt", {"transfer", "dapp", "message", "new"})

(***************************************************************************)
(* coin/Chromia/chromia_sign_view.c, coin/Multiversx/multiversx_sign_view.c *)
(* The texts are the request's own.                                         *)
(***************************************************************************)

ChromiaView(r) ==
  LET tests == << Fail(r.op = "new", -3), Fail(r.op = "transfer" /\ ~r.rate, -3) >>
      body  == IF r.op = "transfer" THEN Transfer(2)
               ELSE Shortened(Page("approval", {"network"}, 1), {"network"})
  IN  IfShown(Tested(tests, Logging(body, "none")), r.app)

ChromiaReqs == OpReqs("chr", {"transfer", "register", "new"})

\* Only a transfer of the coin has a memo and its screen.
MultiversxView(r) ==
  LET coin == r.op = "transfer"
      send == Adding(Transfer(IF coin THEN 3 ELSE 2), Texts(coin /\ r.memo, {"memo"}))
      body == CASE r.op \in {"transfer", "token"} -> send
                [] r.op \in {"dapp", "message"} -> AppPage(IF r.op = "dapp" THEN {} ELSE {"message"})
                [] OTHER -> Refused(-10300)
  IN  IfShown(Tested(<< Fail(r.op = "token" /\ ~r.named, -1) >>, Logging(body, "none")), r.app)

MultiversxReqs == OpReqs("egld", {"transfer", "token", "dapp", "message", "new"})

(***************************************************************************)
(* coin/Cosmos/cosmos_sign_view.c and coin/Inj/inj_sign_view.c: a memo has  *)
(* the third screen of whatever page it comes with.                         *)
(***************************************************************************)

WithMemo(r, page) ==
  IF page.ret = 0 /\ r.memo THEN [Adding(page, {"memo"}) EXCEPT !.pages = 3] ELSE page

CosmosView(r) ==
  LET send  == Page("tx", Digits(r.amount) \cup {"fee"} \cup Addresses \cup Texts(r.to, {"tax"}), 2)
      tests == << Fail(r.op = "token" /\ ~r.named, -1),
                  Fail(r.op \in {"transfer", "token"} /\ ~r.rate, -1) >>
      body  == CASE r.op \in {"transfer", "token"} -> send
                 [] r.op = "dapp" -> Adding(AppPage({"message"}), {"fee", "gas"})
                 [] OTHER -> Refused(-10300)
  IN  IfShown(Tested(tests, WithMemo(r, body)), r.app)

CosmosReqs == OpReqs("atom", {"transfer", "token", "dapp", "new"})

InjView(r) ==
  LET send  == Page("tx", Digits(r.amount) \cup {"money", "fee"} \cup Addresses, 2)
      tests == << Fail(~r.uname, -1), Fail(r.op = "transfer" /\ ~r.main /\ ~r.named, -2),
                  Fail(r.op = "dapp" /\ ~r.named, -3), Fail(r.op = "transfer" /\ ~r.rate, -4) >>
      body  == CASE r.op = "transfer" -> send
                 [] r.op = "dapp" -> AppPage({"message"})
                 [] OTHER -> Refused(-10300)
  IN  IfShown(Tested(tests, WithMemo(r, body)), r.app)

InjReqs == OpReqs("inj", {"transfer", "dapp", "new"})

(***************************************************************************)
(* coin/Binance: transfers, orders, their cancellation and delegation.  Only *)
(* a request for a signature looks at the exchange rate.                    *)
(***************************************************************************)

BncOrder(r) ==
  LET order == {"side", "price", "amount"}
  IN  IF r.op = "order" THEN Page("order", order \cup {"from", "ordertype"}, 1)
      ELSE Shortened(Page("order", order \cup {"order", "time"}, 1), {"order"})

\* A delegation of a kind the view does not know has no addresses.
BncSend(r) ==
  LET facts == {"amount", "money"} \cup Texts(r.op = "transfer" \/ r.parsed, Addresses)
               \cup Texts(r.op = "delegate", {"validator"})
               \cup Texts(r.op = "transfer" /\ r.memo, {"memo"})
  IN  IfShown(Tested(<< Fail(~r.rate, -1) >>, Page("tx", facts, 2)), r.app)

BncView(r) == IF r.op \in {"order", "cancel"} THEN BncOrder(r) ELSE BncSend(r)
BncReqs == OpReqs("bnc", {"transfer", "delegate", "order", "cancel"})

(***************************************************************************)
(* coin/Polkadot/polkadot_sign_view.c and coin/Stellar/xlm_sign_view.c:     *)
(* the sender must be the wallet's own key.                                 *)
(***************************************************************************)

\* Addresses of the request's network; a sub account is not compared.
DotTests(r) ==
  << Fail(~r.known, -113), Fail(r.op = "new", -118), Fail(~r.rate, -201),
     Fail(r.payer = "none", -202), Fail(r.payee = "none", -203), Fail(r.payee = "bad", -204),
     Fail(r.payee = "network", -205), Fail(r.payer = "bad", -206), Fail(r.payer = "network", -207),
     Fail(~r.sub /\ r.path = "nokey", -421), Fail(~r.sub /\ r.payer = "other", -208) >>

DotView(r) == Tested(DotTests(r), Page("tx", Digits(r.amount) \cup {"money", "fee"} \cup Addresses, 2))

DotReqs == [coin : {"dot"}, known : {TRUE, FALSE}, op : {"transfer", "new"}, rate : BOOLEAN,
            payer : {"own", "other", "none", "bad", "network"}, payee : {"ok", "none", "bad", "network"},
            sub : BOOLEAN, path : {"ok", "nokey"}, amount : {"none", "small", "huge"}, app : {TRUE}]

XlmTests(r) ==
  << Fail(r.from = "bad", -201), Fail(r.path # "ok", -401), Fail(r.from = "other", -202),
     Fail(r.op = "new", -405), Fail(r.op # "trust" /\ ~r.rate, -1201),
     Fail(r.op # "trust" /\ r.memo = "binary", -1202) >>

XlmView(r) ==
  LET send == Page("tx", {"amount", "money"} \cup Addresses \cup Texts(r.memo # "none", {"memo"}), 2)
      body == IF r.op = "trust" THEN Logging(Page("tx", {"token", "contract"}, 1), "none") ELSE send
  IN  IfShown(Tested(XlmTests(r), body), r.app /\ r.op = "payment")

XlmReqs == [coin : {"xlm"}, op : {"payment", "create", "trust", "new"}, rate : BOOLEAN,
            from : {"own", "other", "bad"}, path : {"ok", "bad", "nokey"},
            memo : {"none", "text", "binary"}, app : BOOLEAN]

=============================================================================
