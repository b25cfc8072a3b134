----------------------------- MODULE SignSession ------------------------------
(***************************************************************************)
(* The views of the coins behind the windows.  The first request after the  *)
(* start is a request of some coin with everything its view looks at; its   *)
(* sums are added up turn by turn, its view makes the page, and the windows *)
(* get the class of that page.  Later requests are of any class a page has. *)
(* A view is a function of the message and the configuration: each of the   *)
(* windows that calls it for one message gets the same page.                *)
(***************************************************************************)
EXTENDS SignWindows, UtxoTotals, EvmViews, UtxoViews, ActionViews, OperationViews

VARIABLES req,   \* the request whose view is running
          page   \* what it returned and put on the page
svars == <<wvars, uvars, req, page>>

Coins == {"eth", "vet", "theta", "one", "msg", "btc", "ada", "tron", "xrp", "eos", "neo", "sol",
          "near", "sui", "ton", "alph", "venom", "fil", "apt", "chr", "egld", "atom", "inj", "bnc",
          "dot", "xlm"}

RequestsOf(coin) ==
  CASE coin = "eth" -> EthReqs       [] coin = "vet" -> VetReqs
    [] coin = "theta" -> ThetaReqs   [] coin = "one" -> HarmonyReqs
    [] coin = "msg" -> CustReqs      [] coin = "btc" -> UtxoReqs
    [] coin = "ada" -> AdaReqs       [] coin = "tron" -> TronReqs
    [] coin = "xrp" -> XrpReqs       [] coin = "eos" -> EosReqs
    [] coin = "neo" -> NeoReqs       [] coin = "sol" -> SolReqs
    [] coin = "near" -> NearReqs     [] coin = "sui" -> SuiReqs
    [] coin = "ton" -> TonReqs       [] coin = "alph" -> AlphReqs
    [] coin = "venom" -> VenomReqs   [] coin = "fil" -> FilecoinReqs
    [] coin = "apt" -> AptosReqs     [] coin = "chr" -> ChromiaReqs
    [] coin = "egld" -> MultiversxReqs [] coin = "atom" -> CosmosReqs
    [] coin = "inj" -> InjReqs       [] coin = "bnc" -> BncReqs
    [] coin = "dot" -> DotReqs       [] coin = "xlm" -> XlmReqs

\* What the loops found, for the view to go on with
SumsOf == [err |-> err, paid |-> rows > memos, lead |-> lead]

View(r) ==
  CASE r.coin = "eth" -> EthView(r)      [] r.coin = "vet" -> VetView(r)
    [] r.coin = "theta" -> ThetaView(r)  [] r.coin = "one" -> HarmonyView(r)
    [] r.coin = "msg" -> CustView(r)     [] r.coin = "ada" -> AdaView(r)
    [] r.coin = "tron" -> TronView(r)    [] r.coin = "xrp" -> XrpView(r)
    [] r.coin = "eos" -> EosView(r)      [] r.coin = "neo" -> NeoView(r)
    [] r.coin = "sol" -> SolView(r)      [] r.coin = "near" -> NearView(r)
    [] r.coin = "sui" -> SuiView(r)      [] r.coin = "ton" -> TonView(r)
    [] r.coin = "alph" -> AlphView(r)    [] r.coin = "venom" -> VenomView(r)
    [] r.coin = "fil" -> FilecoinView(r) [] r.coin = "apt" -> AptosView(r)
    [] r.coin = "chr" -> ChromiaView(r)  [] r.coin = "egld" -> MultiversxView(r)
    [] r.coin = "atom" -> CosmosView(r)  [] r.coin = "inj" -> InjView(r)
    [] r.coin = "bnc" -> BncView(r)      [] r.coin = "dot" -> DotView(r)
    [] r.coin = "xlm" -> XlmView(r)      [] r.coin \in UtxoCoins -> UtxoView(r, SumsOf)

Adds(r) == r.coin \in UtxoCoins /\ UtxoNeedsTotals(r)

\* What the windows tell apart of a page
ClassOf(p, h, k) ==
  [decodes |-> TRUE, ret |-> IF p.ret = 0 THEN 0 ELSE -1, head |-> h, kept |-> k, hex |-> 400,
   pages |-> IF p.ret # 0 THEN 1 ELSE IF p.pages > 2 THEN 2 ELSE p.pages]

SessionInit == WindowsInit /\ TotalsInit /\ req = Nothing /\ page = Nothing

\* The next request is the first one since the start, which has its coin.
First == Idle /\ cur = "SCAN" /\ last = Nothing /\ txs = {} /\ req = Nothing

Running == req # Nothing /\ page = Nothing

\* onShow is called: the sums come first, if the view adds up anything.
Called(r) ==
  /\ req' = r
  /\ IF Adds(r) THEN \E some \in BOOLEAN : StartTotals(some) ELSE UNCHANGED uvars
  /\ UNCHANGED <<wvars, page>>

\* Only Bitcoin has memos.
Sums == /\ Running /\ Adds(req)
        /\ TurnNext \/ (req.coin = "btc" /\ MemoNext)
        /\ UNCHANGED <<wvars, req, page>>

Returns ==
  /\ Running /\ (Adds(req) => upc = "done")
  /\ page' = View(req)
  /\ UNCHANGED <<wvars, uvars, req>>

\* The windows go on with the class of the page.
Goes ==
  /\ page # Nothing
  /\ req' = Nothing /\ page' = Nothing /\ Forget
  /\ \E c \in Classes : c = ClassOf(page, c.head, c.kept) /\ ScanSingle(c)

Windows == req = Nothing /\ WindowsNext /\ UNCHANGED <<uvars, req, page>>

-----------------------------------------------------------------------------
\* The texts of a page that may be other than what is signed, and the requests of which.
\* An amount: one that is printed from a double and has more decimals or digits than that,
\* in seven coins and the transfers of an account with code; one that Tron cannot read; a
\* number the C library formats onto itself; and a Cardano loop that stops.
Is(r, f, values) == f \in DOMAIN r /\ r[f] \in values

Doubles == {"sol", "sui", "ton", "alph", "venom", "fil", "apt"}
Selves == {"btc", "kas", "ada"}

AmountDoubtful(r) ==
  \/ Is(r, "amount", {"fine", "huge"}) /\ (r.coin \in Doubles \/ Is(r, "tx", {"7702", "7702update"}))
  \/ Is(r, "amount", {"huge"}) /\ r.coin = "tron"
  \/ Is(r, "unit", {"lost"}) /\ r.coin \in Selves
  \/ Is(r, "stops", {TRUE})

\* A fee: a product that wraps, a token an account with code pays in, a unit put behind
\* a number as a text onto itself, and a fee cap Filecoin cannot read.
FeeDoubtful(r) ==
  \/ Is(r, "gas", {"wraps"}) \/ Is(r, "tip", {"fine", "huge"})
  \/ Is(r, "unit", {"lost"}) /\ r.coin \in Selves \cup (Doubles \ {"sui"})
  \/ Is(r, "fee", {FALSE}) /\ r.coin = "fil"

\* A recipient: Cardano shows the last of several, an NFT of Bitcoin and an unlock of
\* Nervos the first output, whatever it is.
PayeeDoubtful(r) ==
  Is(r, "recipients", {2}) \/ (r.coin \in UtxoCoins /\ r.brc \in {"nft", "unlock"})

Doubtful(r) == Texts(AmountDoubtful(r), {"amount"}) \cup Texts(FeeDoubtful(r), {"fee"})
               \cup Texts(PayeeDoubtful(r), {"to"})

\* Transfers of one thing that has no amount, and pages that name no recipient or
\* no fee: the contract call of Aptos, trust lines, keys for messages, claims.
Whole(r) == /\ ~Is(r, "op", {"nft", "compressed", "trust", "account", "sellram"})
            /\ ~Is(r, "brc", {"nft"}) /\ ~Is(r, "types", {{"claim"}})
            /\ ~Is(r, "to", {FALSE}) /\ ~(r.coin = "bnc" /\ Is(r, "parsed", {FALSE}))
            /\ ~(r.coin = "eos" /\ ~(r.cpu /\ r.net))

\* Nothing says what the transfers of these coins cost, a sponsored one of Solana whose
\* request does not, and a 7702 transaction with a single call, paid by nobody the page
\* knows.
Feeless == {"eos", "tron", "bnc", "xlm"}
Unpriced(r) == \/ r.coin \in Feeless \/ (Is(r, "op", {"relayer"}) /\ ~r.fee)
               \/ (Is(r, "calls", {1}) /\ ~r.station)

Unlogged == {"btc", "kas", "ton", "alph", "venom", "fil", "apt", "chr", "egld"}

\* A page of a request of any coin tells what is signed.  No text of it is other than what
\* is signed but those that Doubtful names.  The page of a transfer has the amount, unless
\* the request has none or one the view cannot print, the recipient and the fee, and the
\* history gets the amount, but for the coins whose views do not give it.  Where outputs
\* are added up a recipient is named exactly if somebody but the change gets something.
PageTells ==
  page # Nothing /\ page.ret = 0 =>
    /\ page.wrong \subseteq Doubtful(req)
    /\ page.kind = "tx" /\ Whole(req) =>
         /\ "amount" \in page.shows \/ Is(req, "amount", {"none", "huge"})
         /\ "to" \in page.shows \/ (req.coin \in UtxoCoins /\ shownV = 0)
         /\ "fee" \in page.shows \/ Unpriced(req)
         /\ page.logs = "amount" \/ req.coin \in Unlogged
         /\ req.coin \in UtxoCoins => ("to" \in page.shows <=> shownV > 0)

\* Looking at a request changes the tables of coins only if it was scanned and can
\* be signed, and a row deleted under its old name comes back under the new one.
\* Bitcoin, Kaspa, Nervos and Neo remember the coin of whatever they are shown.  The row
\* of a renamed token stays deleted if the path is bad, the coin a custom one or the request
\* for something else than a transfer: such a request is refused, or the application is
\* saved in place of the token.
CoinsKept ==
  page # Nothing =>
    /\ page.save => (page.ret = 0 /\ req.app) \/ req.coin \in UtxoCoins \cup {"neo"}
    /\ page.drop => \/ page.save /\ page.as = "coin"
                    \/ req.path = "bad" \/ req.custom \/ EthBranch(req) # "transfer"
=============================================================================
