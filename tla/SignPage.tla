------------------------------ MODULE SignPage ------------------------------
(***************************************************************************)
(* What the sign views of the coins have in common (coin_util_hw.c,         *)
(* dynamic_win.c, coin_adapter.c).  A view looks at a decoded request and   *)
(* either refuses it or fills a page.  A request is a record of the answers *)
(* the view's tests give, not of the bytes; a page is the set of facts it   *)
(* shows, those of them that are not what is going to be signed, and what   *)
(* it does to the tables of coins.                                          *)
(***************************************************************************)
EXTENDS Integers, Sequences, SequencesExt

\* The classes of a number in a request: absent, below 2^53 whole units with few
\* decimals, the same with more decimals than a view that prints a double has (six or
\* eight), or more than a double holds.
Amounts == {"none", "small", "fine", "huge"}

\* A view that returns an error: TxShowWin shows a dialog and never signs.
Refused(e) == [ret |-> e, kind |-> "none", shows |-> {}, wrong |-> {}, cut |-> {},
               pages |-> 0, logs |-> "none", save |-> FALSE, as |-> "coin", drop |-> FALSE]

\* A page of a kind (db->tx_type), what it shows and how many screens it has.
\* dwin_add_txt makes no label of an empty text.  db->send_value, which the
\* history keeps, is the text of the amount unless a view says otherwise.
Page(kind, facts, screens) ==
  [ret |-> 0, kind |-> kind, shows |-> facts, wrong |-> {}, cut |-> {},
   pages |-> screens, logs |-> "amount", save |-> FALSE, as |-> "coin", drop |-> FALSE]

\* The coin is remembered (storage_save_coin_info, storage_save_coin_dbinfo), by most
\* views only once they have accepted a request, and only of a scanned one; as is whose
\* name the row has.
Saving(page, c) == [page EXCEPT !.save = c]
IfScanned(page, c) == Saving(page, c)

IfShown(page, c) == Saving(page, c /\ page.ret = 0)

\* Facts whose text is not what is signed, or only the beginning and the end of it
Misprint(page, facts) == [page EXCEPT !.wrong = facts \cap page.shows]
Shortened(page, facts) == [page EXCEPT !.cut = facts \cap page.shows]
Logging(page, what) == [page EXCEPT !.logs = what]

\* The tests of a view, in the order it makes them: the first that fails
\* decides what it returns.
Fail(test, e) == [fails |-> test, ret |-> e]

Tested(tests, page) ==
  LET first == SelectInSeq(tests, LAMBDA t : t.fails)
  IN  IF first = 0 THEN page ELSE Refused(tests[first].ret)

\* bignum2double: the text is exact, or it is emptied and the error is not
\* passed on by the views.
Digits(class) == IF class \in {"small", "fine"} THEN {"amount"} ELSE {}

\* A view that prints the double instead has eight decimals, and the 0 its
\* variable began with where bignum2double returned an error.
Rounded(class) == IF class \in {"fine", "huge"} THEN {"amount"} ELSE {}

\* snprintf(tmpbuf, size, "%s SOL", tmpbuf) reads the text it overwrites: what
\* is left of the number is up to the C library.
UnitLost(r) == IF r.unit = "lost" THEN {"fee"} ELSE {}

\* wallet_gen_address_by_path: a bad path is -2, a coin the SE cannot derive
\* an address of is a negative answer of wallet_gen_address.
OwnAddress(r) == << Fail(r.path = "bad", -2), Fail(r.path = "nokey", -3) >>

Texts(test, facts) == IF test THEN facts ELSE {}

=============================================================================
