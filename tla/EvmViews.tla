------------------------------ MODULE EvmViews ------------------------------
(***************************************************************************)
(* coin/Ethereum/eth_sign_view.c: transfers, tokens and NFTs, approvals and *)
(* messages of applications, for all coins of the EVM family.               *)
(***************************************************************************)
EXTENDS SignPage

UnsupportUpgrade == -10300

EthBase ==
  [coin |-> "eth", sign |-> 0, data |-> "none", nft |-> FALSE, extra |-> "none",
   tx |-> "legacy", known |-> TRUE, evm |-> FALSE, custom |-> FALSE, token |-> "none",
   contract |-> "ok", rate |-> TRUE, amount |-> "small", gas |-> "fits",
   path |-> "ok", calls |-> 0, call |-> "transfer", station |-> FALSE, tip |-> "small",
   to |-> TRUE, app |-> TRUE]

\* The method the data of a request call, tests on the first 16 bytes and the sizes
EthMethod(r) ==
  IF r.data \in {"transfer", "transferFrom"} THEN r.data
  ELSE IF r.data = "safeTransferFrom" \/ r.extra = "erc1155" THEN "1155"
  ELSE IF r.data = "approve" THEN "approve" ELSE "none"

EthIsNft(r) == \/ EthMethod(r) = "1155"
               \/ /\ EthMethod(r) \in {"transfer", "transferFrom"}
                  /\ r.nft \/ r.extra = "erc721"

EthTransToken(r) == EthMethod(r) \in {"transfer", "transferFrom", "1155"}

Eth7702(r) == r.tx \in {"7702", "7702update"}

\* An approval is the first call of a transaction for an account with code.
Eth7702Approval(r) ==
  Eth7702(r) /\ r.call = "approve" /\ r.calls = IF r.station THEN 1 ELSE 2

EthRevoke(r) == r.tx \in {"uapprove", "uapprove7702"}

\* A coin without configuration takes its name from the token of the request.
EthNamedByToken(r) ==
  ~r.known /\ ((EthTransToken(r) /\ r.token # "none") \/ Eth7702(r))

EthSignTests(r) ==
  << Fail(~r.rate, -102),
     Fail(EthMethod(r) = "approve" /\ r.sign # 1, -103),
     Fail(r.sign = 1 /\ EthMethod(r) # "approve", -104),
     Fail(r.sign = 1 /\ r.contract = "noname", -105),
     Fail(r.sign = 1 /\ r.contract = "noid", -106),
     Fail(r.sign = 1 /\ r.contract = "other", -107),
     Fail(r.sign = 2 /\ r.data = "none", -113),
     Fail(r.sign = 2 /\ r.contract = "noname", -115),
     Fail(r.sign = 2 /\ r.contract = "noid" /\ r.to, -116),
     Fail(r.sign = 2 /\ r.contract # "noid" /\ ~r.to, -117),
     Fail(r.sign = 2 /\ r.contract = "other", -118) >>

EthNameTests(r) ==
  << Fail(EthNamedByToken(r) /\ r.token = "othertype", -1),
     Fail(EthNamedByToken(r) /\ r.token \in {"noname", "none"} /\ ~EthIsNft(r), -1),
     Fail(EthNamedByToken(r) /\ r.token = "decimals", -1) >>

\* A row saved under the token's name by an older version is deleted before the
\* rest of the request is looked at, of a coin that is saved again or not.
EthDrops(r) == EthNamedByToken(r) /\ r.app /\ r.token = "renamed"

\* Plain and token amounts, or the number and count of an NFT
EthAmount(r) ==
  IF EthIsNft(r) THEN {"nftid", "amount"}
  ELSE IF Eth7702(r) THEN {"amount", "money"}
  ELSE Digits(r.amount) \cup {"money"}

\* The amount of a 7702 transfer is printed from a double, with six decimals; it
\* stays 0 when bignum2double fails.
EthAmountWrong(r) == Eth7702(r) /\ ~EthIsNft(r) /\ r.amount \in {"fine", "huge"}

EthFee(r) ==
  IF ~Eth7702(r) THEN {"fee", "gas"}
  ELSE Texts(r.station \/ r.calls >= 2, {"fee", "gas"})

\* The last call of a 7702 transaction pays the fee in a token, a double again; when
\* bignum2double fails it still holds the amount.
EthTipWrong(r) == Eth7702(r) /\ ~r.station /\ r.calls >= 2 /\ r.tip # "small"

\* max_fee_per_gas * gas_limit is a 64-bit product without the test that the
\* older transactions make with uint64_safe_multiply.
EthFeeWrong(r) == (r.tx = "1559" /\ r.gas = "wraps") \/ EthTipWrong(r)

\* The payer is in the data of some calls, else derived; the result of
\* wallet_gen_address is not looked at.
EthFrom(r) ==
  Texts(EthMethod(r) \in {"1155", "transferFrom"} \/ r.path # "nokey" \/ r.evm, {"from"})

\* The data of a call in place of its recipient
EthTransferPageOfCall(r) ==
  LET call  == r.data # "none"
      facts == EthAmount(r) \cup EthFee(r) \cup EthFrom(r) \cup Texts(~call, {"to"})
               \cup Texts(call /\ EthMethod(r) = "none", {"data"})
  IN  Page("tx", facts, IF "data" \in facts THEN 3 ELSE 2)

EthTransferPage(r) ==
  LET facts == EthAmount(r) \cup EthFee(r) \cup EthFrom(r)
               \cup Texts(r.to \/ Eth7702(r), {"to"})
               \cup Texts(r.data # "none" /\ EthMethod(r) = "none", {"data"})
      page  == Page("tx", facts, IF "data" \in facts THEN 3 ELSE 2)
  IN  Misprint(page, Texts(EthAmountWrong(r), {"amount"}) \cup Texts(EthFeeWrong(r), {"fee"}))

\* Which of the branches of the view fills the page
EthBranch(r) ==
  IF r.sign = 0 /\ ~Eth7702Approval(r) /\ ~EthRevoke(r) THEN "transfer"
  ELSE IF Eth7702Approval(r) THEN "approval7702"
  ELSE IF EthRevoke(r) THEN "revoke"
  ELSE IF r.sign = 1 THEN "approval"
  ELSE IF r.sign = 2 THEN "app" ELSE "unsupported"

EthApprovalPage(r) ==
  Misprint(Page("approval", {"token", "contract", "fee"}, 1), Texts(EthTipWrong(r), {"fee"}))

EthRevokePage(r) ==
  Page("approval", {"from", "to"} \cup Texts(r.tx = "uapprove" \/ r.station, {"fee"}), 1)

EthBody(r) ==
  CASE EthBranch(r) = "transfer" ->
         Tested(<< Fail(r.path = "bad" /\ EthMethod(r) \notin {"1155", "transferFrom"}, -2) >>,
                EthTransferPage(r))
    [] EthBranch(r) \in {"approval", "approval7702"} -> EthApprovalPage(r)
    [] EthBranch(r) = "revoke" -> EthRevokePage(r)
    [] EthBranch(r) = "app" -> Page("app", {"contract", "data"}, 1)
    [] OTHER -> Refused(UnsupportUpgrade)

\* The coin is remembered at the end, if it is not there yet and not a custom one: one
\* with a configuration, or of a transfer, under its own name, the others as "Dapp" or
\* "Uniswap".
EthSaves(r) ==
  /\ EthTransToken(r) \/ r.extra = "coin" \/ Eth7702(r)
  /\ r.known \/ EthNamedByToken(r) \/ r.extra = "coin"
  /\ r.app /\ ~r.custom

EthView(r) ==
  LET early == Tested(EthSignTests(r) \o EthNameTests(r), EthBody(r))
      named == Tested(EthSignTests(r) \o EthNameTests(r), Page("tx", {}, 0)).ret = 0
      own   == r.known \/ EthBranch(r) = "transfer"
  IN  [IfShown(early, EthSaves(r)) EXCEPT !.as = IF own THEN "coin" ELSE "app",
                                          !.drop = named /\ EthDrops(r)]

\* Requests as the phone makes them: every kind of call, and around each one the
\* things a view may find wrong with it.
EthCall(d, n, e, t, a, g, k, o) ==
  [EthBase EXCEPT !.data = d, !.nft = n, !.extra = e, !.tx = t, !.amount = a, !.gas = g,
                  !.known = k, !.token = IF k THEN "none" ELSE o]
EthNft(d, o, p) ==
  [EthBase EXCEPT !.data = d, !.extra = IF d = "safeTransferFrom" THEN "erc1155" ELSE "erc721",
                  !.known = FALSE, !.token = o, !.path = p]
EthPath(p, e, k, x, t, f, d) ==
  [EthBase EXCEPT !.path = p, !.evm = e, !.known = k, !.rate = x, !.to = t, !.app = f, !.data = d,
                  !.token = IF k THEN "none" ELSE "renamed"]
EthApp(s, d, c, t, f) ==
  [EthBase EXCEPT !.sign = s, !.data = d, !.contract = c, !.to = t, !.app = f]
EthCode(t, k, o, n, c, g, a, p, f) ==
  [EthBase EXCEPT !.tx = t, !.known = k, !.token = o, !.calls = n, !.call = c, !.station = g,
                  !.amount = a, !.tip = p, !.app = f]
EthOld(s, d, c, p, f) ==
  [EthBase EXCEPT !.sign = s, !.data = d, !.custom = c, !.path = p, !.app = f,
                  !.known = FALSE, !.token = "renamed"]

EthCallReqs ==
  {EthCall(d, n, e, t, a, g, k, o) :
     d \in {"none", "call", "transfer", "transferFrom"}, n \in BOOLEAN, e \in {"none", "coin"},
     t \in {"legacy", "1559"}, a \in Amounts, g \in {"fits", "wraps"}, k \in BOOLEAN,
     o \in {"none", "same", "renamed", "othertype", "noname", "decimals"}}
EthNftReqs ==
  {EthNft(d, o, p) :
     d \in {"transfer", "transferFrom", "safeTransferFrom"},
     o \in {"same", "renamed", "noname", "othertype"}, p \in {"ok", "bad", "nokey"}}
EthPathReqs ==
  {EthPath(p, e, k, x, t, f, d) :
     p \in {"ok", "bad", "nokey"}, e \in BOOLEAN, k \in BOOLEAN, x \in BOOLEAN, t \in BOOLEAN,
     f \in BOOLEAN, d \in {"none", "transfer"}}
EthAppReqs ==
  {EthApp(s, d, c, t, f) :
     s \in 0..3, d \in {"none", "call", "approve"}, c \in {"ok", "noname", "noid", "other"},
     t \in BOOLEAN, f \in BOOLEAN}
EthCodeReqs ==
  {EthCode(t, k, o, n, c, g, a, p, f) :
     t \in {"7702", "7702update", "uapprove", "uapprove7702"}, k \in BOOLEAN,
     o \in {"none", "same", "renamed"}, n \in 1..2, c \in {"transfer", "approve"},
     g \in BOOLEAN, a \in {"small", "fine", "huge"}, p \in {"small", "fine", "huge"},
     f \in BOOLEAN}
\* Tokens with a row under an old name, whatever is asked for
EthOldReqs ==
  {EthOld(s, d, c, p, f) :
     s \in 0..3, d \in {"none", "transfer", "transferFrom"}, c \in BOOLEAN, p \in {"ok", "bad"},
     f \in BOOLEAN}

EthReqs == EthCallReqs \cup EthNftReqs \cup EthPathReqs \cup EthAppReqs \cup EthCodeReqs
           \cup EthOldReqs

(***************************************************************************)
(* coin/VeChain/vet_sign_view.c                                             *)
(***************************************************************************)

VetView(r) ==
  LET token == r.data \in {"transfer", "transferFrom"}
      named == ~r.known /\ token /\ r.token # "none"
      facts == Digits(r.amount) \cup {"money", "fee", "gas", "from"}
               \cup Texts(r.to \/ token, {"to"}) \cup Texts(r.data = "call", {"data"})
      page  == Page("tx", facts, IF r.data = "call" THEN 3 ELSE 2)
      tests == << Fail(~r.clause, -101), Fail(~r.rate, -102),
                  Fail(named /\ r.token = "othertype", -1),
                  Fail(named /\ r.token \in {"noname", "decimals"}, -1) >>
               \o IF r.data = "transferFrom" THEN << >> ELSE OwnAddress(r)
  IN  IfShown(Tested(tests, page), token /\ (r.known \/ named) /\ r.app)

VetReqs == [coin : {"vet"}, clause : BOOLEAN, rate : BOOLEAN, known : BOOLEAN,
            data : {"none", "call", "transfer", "transferFrom"},
            token : {"none", "same", "othertype", "noname", "decimals"}, amount : Amounts,
            to : BOOLEAN, path : {"ok", "bad", "nokey"}, app : BOOLEAN]

(***************************************************************************)
(* coin/Theta/theta_sign_view.c and coin/Harmony/harmony_sign_view.c: only  *)
(* the coin itself, with its configuration.                                 *)
(***************************************************************************)

ThetaView(r) ==
  LET facts == Digits(r.amount) \cup {"money", "fee", "from"} \cup Texts(r.to, {"to"})
      tests == << Fail(~r.rate, -102), Fail(~r.known, -103) >>
               \o IF r.from THEN << >> ELSE OwnAddress(r)
  IN  IfShown(Tested(tests, Page("tx", facts, 2)), r.app)

ThetaReqs == [coin : {"theta"}, rate : BOOLEAN, known : BOOLEAN, amount : Amounts,
              from : BOOLEAN, to : BOOLEAN, path : {"ok", "bad", "nokey"}, app : BOOLEAN]

\* The fee is again a 64-bit product without a test.
HarmonyView(r) ==
  LET facts == Digits(r.amount) \cup {"money", "fee", "gas", "from"}
               \cup Texts(r.to, {"to"}) \cup Texts(r.data # "none", {"data"})
      page  == Page("tx", facts, IF r.data # "none" THEN 3 ELSE 2)
      tests == << Fail(~r.rate, -102), Fail(~r.known, -103) >> \o OwnAddress(r)
  IN  IfShown(Tested(tests, Misprint(page, Texts(r.gas = "wraps", {"fee"}))), r.app)

HarmonyReqs == [coin : {"one"}, rate : BOOLEAN, known : BOOLEAN, amount : Amounts,
                gas : {"fits", "wraps"}, to : BOOLEAN, data : {"none", "call"},
                path : {"ok", "bad", "nokey"}, app : BOOLEAN]

(***************************************************************************)
(* coin/Custmsg/custmsg_sign_view.c: messages to sign, logins, withdrawals. *)
(* The length of a text decides between one label with its middle left out, *)
(* the whole text on a second screen, and its beginning.                    *)
(***************************************************************************)

\* omit_string keeps 40 and 30 characters and is not used on several lines
CustText(r) ==
  LET short == r.length <= 100
      lines == r.lines /\ r.length > 26
  IN  CASE r.length > 256           -> [screens |-> 2, cut |-> TRUE]
        [] ~short /\ r.length <= 256 -> [screens |-> 2, cut |-> FALSE]
        [] short /\ lines           -> [screens |-> 2, cut |-> FALSE]
        [] OTHER                    -> [screens |-> 1, cut |-> r.length > 40 + 3 + 30]

CustTyped(r) ==
  [screens |-> IF r.length > 100 THEN 2 ELSE 1, cut |-> r.length > 256]

CustBytes(r) ==
  [screens |-> IF r.length > 48 THEN 2 ELSE 1, cut |-> 2 * r.length >= 256 - 2]

CustMessage(kind, t) ==
  Shortened(Page(kind, {"from", "message"}, t.screens), Texts(t.cut, {"message"}))

CustBody(r) ==
  CASE r.type = "text" /\ r.bytes -> CustMessage("message", CustBytes(r))
    [] r.type = "text" /\ ~r.bytes -> CustMessage("message", CustText(r))
    [] r.type \in {"login", "auth"} ->
         Page(IF r.type = "auth" THEN "approval" ELSE "login", {"from", "message"}, 1)
    [] r.type = "withdraw" ->
         Page("withdraw", {"token", "to", "amount"} \cup Texts(r.memo, {"memo"}),
              IF r.memo THEN 2 ELSE 1)
    [] r.type = "typed" -> CustMessage("approval", CustTyped(r))
    [] OTHER -> Refused(UnsupportUpgrade)

CustView(r) == Tested(<< Fail(~r.known /\ ~r.evm, -2) >>, CustBody(r))

CustReqs == [coin : {"msg"}, known : BOOLEAN, evm : BOOLEAN,
             type : {"text", "login", "auth", "withdraw", "typed", "new"}, bytes : BOOLEAN,
             length : {20, 48, 49, 73, 74, 100, 101, 127, 256, 257}, lines : BOOLEAN,
             memo : BOOLEAN, app : {TRUE}]

=============================================================================
