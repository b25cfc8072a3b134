# TLA+ models of the SafePal S1 application

The SafePal S1 is a hardware wallet without any radio or data port: it talks to
the phone by QR codes, and a secure element (SE) holds the seed.  The program in
`src/firmware/app` is the user interface on its application processor: it scans
requests, shows them, asks for the PIN, has the SE sign, and shows the answer as
QR codes.  This directory models the parts of it that are hard to test.  Paths
below are relative to `src/firmware/app/src` unless they say otherwise.

Contents: 1 inventory, 2 plan, 3 the modules and how they follow the code,
4 runs and bounds, 5 fairness, 6 proofs, 7 what is left out.

## 1. Inventory

### Threads

| thread | code | what it does |
|---|---|---|
| GUI | `GuiMain::start` and the window procedures | all windows, every SE command the user starts |
| camera | driver callback into `CameraManager::onQrResult` | decodes and merges chunks, tells the GUI |
| start-up, then message loop | `wallet_main2_thread`: `wallet_init_check`, `AppMain::msgLoop` | the start-up check; then delayed messages: preview on and off, long keys, shutdown requests |
| shutdown loop | `AppMain::shutdownLoop` | every second: settings backup, database sync, battery, case switch, power off |
| event loop | `EventManager::ueventLoop` | USB and charger events, the battery poll |

They share the settings in RAM, the SQLite connection behind two spin locks, the
SE behind another, the chunk buffer behind the camera's mutex, and the list of
delayed messages behind a mutex that some of its readers do not take.  A
`SendMessage` to the GUI thread waits for it, a `SendNotifyMessage` does not.
Power may be lost at any time: nothing written to flash is transactional.

### Components

| component | state | operations | correct when |
|---|---|---|---|
| wallet records (`misc/settings.c`, `device.c`, `config.c`, `wallet/wallet_manager.c`) | settings file, two NVM areas of two blocks, flag and settings in RAM, cached account id | start-up check, store seed, set passphrase, delete, reset, pair, change a setting, backup, destroy | flag implies seed; record is the SE's account; a stored wallet survives power loss |
| database layer (`storage/db_ctrl.c`, `storage_manager.c`) | connection, statement, two locks, write clock, client cache | query, list, insert, execute, open, close, erase | statements keep their owner; no lost connection; no stale cache; data reach the disk; calls end |
| tables (`storage/storage_manager.c`) | clients, keys, coins, history | insert, delete, limits, client ids | ids unique and never 0; limits hold |
| delayed messages (`window/AppMain.cpp`) | linked list, static cells, wait | post, delete, take, handle, give back | none lost, early, doubled or out of order; cells accounted for; no late wake-up |
| scanning (`device/CameraManager.cpp`, `core/wallet/qr_pack.c`, `window/ScanQrCode.cpp`, `MainWindow.cpp`) | preview, last code, chunk buffer, result, current window | decode, merge, verify, hand over, error, start, stop | only whole transfers; the result is stable while it is read; preview only in the scan window |
| answers (`widget/showQrWindow.c`, `core/wallet/qr_pack.c`) | chunks, index, turn | split, encode, show | chunks carry message and hash, fit the code, are all shown |
| shutdown and power (`AppMain.cpp`) | level, mark, delays | request, shut down, power off | once; scan closed; backup and sync done before power off |
| window manager and power key (`MainWindow.cpp`, `win.c`, `dynamic_win.c`, `CommonWindow.cpp`) | windows, current one, hooked key | change, create, destroy, hold, short, quick and long key | a key has one meaning; no event to a destroyed window |
| SE session (`wallet/secure_api.c`) | lock, handshake, session, cached id | init, command, retry, upgrade | lock given back; no command before the handshake |
| pairing (`window/QrProcWin.cpp`) | request, answer | bind, keys, activation | client saved before it is answered |
| wizards (`GuideWin.cpp`, `Passphrase.cpp`, `VerifyWin.cpp`, `BackupSeedWord.cpp`, `ConfirmSeedWord.cpp`, `KeyBoard.c`, `utils/Stack.c`) | stack of steps, words, PIN, passphrase, dialog | next, back, quit, letters, verdicts | the wallet made is the one its words were seen, picked or typed of; the record is the chip's account; the stack does not fill |
| PIN entry (`passwd_util.cpp`, `RegisterWindow.cpp`) | digits, tries (in the SE) | digit, delete, confirm | a new PIN passes the test and is typed twice; the last try erases |
| views of the coins (`coin/*/*_view.c`, `coin_util_hw.c`, `coin_adapter.c`) | sums, page, tables of coins | test, add up, show, remember | the page tells what is signed; sums do not wrap; a refused request changes nothing |
| signing windows (`TxVerifyCodeWin.cpp`, `TxShowWin.cpp`, `TxRawDataWin.cpp`, `BatchSignWin.cpp`, `SignHistoryWin.cpp`, `tx_common.c`) | message, session, view and answer of each, history | show, scroll, back, data, sign, save | what is signed is what was scanned last and shown; a batch is signed whole or not at all; no pointer to a deleted message |
| lists, settings, firmware update, events, loading window | see `PROJECT.json` | | |
| widgets, resources, QR encoder | layout, drawing, a third-party encoder | | not modelled |

The hazards, each at its line and with the properties that watch it, are in
`PROJECT.json`.

## 2. Plan

The order is by what the user would lose: the wallet itself, then its data, then
the order of events between the threads, then the requests and the answers.

1. `WalletSeed`: the records of the wallet and power losses; proofs. *Done.*
2. `Storage`: connection, statement and locks; proofs. *Done.*
3. `MsgQueue` with its abstract specification `MsgOutbox`; proof of the refinement. *Done.*
4. `ScanSession`: camera, merging, windows; it relies on the order `MsgOutbox`
   promises; proofs. *Done.*
5. `QrSplit`: the way back to the phone; proofs for all lengths. *Done.*
6. `DeviceSession`, one device from one start to the next, composed of
   - the views: `SignPage`, `EvmViews`, `ActionViews`, `OperationViews`, `UtxoViews`
     and `UtxoTotals` (proofs),
   - the windows of a request: `SignWindows` (proofs), and `SignSession` which puts the views
     behind them,
   - the wizards: `WizardSteps`, `WordKeyboard`, `SeedGuide`, `PassphraseGuide` (proofs).
     *Done.*
7. `Shutdown` (levels, the two callers, power off delays, battery; `shutdown()` that is
   refused ends the loop that called it) and `PowerKey` (the hook of `MainWindow.cpp`,
   with the promise of `MsgOutbox` as its environment: a long press deleted too late).
8. `SecureSession` (lock, handshake, retries, upgrade) and `ClientTable` (ids, limits
   and the client cache of `storage_manager.c`), then pairing, composed with
   `ScanSession` and `ClientTable`.
9. The list window, the nested message loop of the loading window, firmware update.

Every invariant of the passing runs is proved; the theorems still worth proving
are those of the components above.

## 3. The modules

`MC...` modules only give values to constants.  In every module an action is
one critical section, or one write that another thread or a power loss can come
between.  Operators named "Mutant of ..." in comments are plausible mistakes in the
code; no specification uses them.

### WalletSeed

| in the model | in the code |
|---|---|
| `se` | the account id of the SE's seed, read by `sapi_get_state_info` |
| `nvmId`, `nvmSet` | blocks 0 and 1 of the account record and of the settings backup (`misc/device.c`) |
| `file` | the settings file rewritten by `config_file_set` (`misc/config.c`) |
| `db` | the default coins in the coins table |
| `ram`, `ramId`, `pend` | `gHaveSeed`, `mCoinsVersion` and one more setting; `gSeedAccountId`; `gSync2NvmIndex` |
| `pc`, `job`, `buf`, `snap`, `left` | where the GUI thread and shutdownLoop are, and the locals of the routine they share |
| `Crash`, then `StartUp` | power loss; `settings_init` and `wallet_init_check` |

Every action is one write of the C code, in the code's order, and a write to an
NVM block has a torn middle.  `NvmFails` is the error returns of `writeNvmData` and
`clearNvmData` (`device.c:62-134`): the block stays as it was, torn, or with its header cleared,
a refused block 0 ends the routine before the backup, and no caller looks at the result.  A
start-up that finds a seed without a record (`AppMain.cpp:958`) may therefore end with
the flag up and no record (`refused`); `BootAgrees` allows this and nothing else.  Reading the NVM
is taken not to fail.  Start-up is over before the GUI thread's handlers begin, so one
program counter, `main`, stands for both.  Simplifications: reading and truncating the settings
file is one step, as are setting a RAM value and requesting its backup; the
default coins are saved in any order; the user starts handlers only when
`Global_App_Inited` is set; checks of the hardware at start-up succeed; an
orderly shutdown is a `Crash` at a quiet moment; `device_reformat_data_partition`
does nothing in this build; `CTRL_CMD_FACTORY_RESET` has no caller; the branch
`init_ret == 1` is unreachable, as nothing returns a positive value.

What the model showed, besides the finding of section 4: a power loss between
`sapi_set_passphrase` and the record of the new id, or an SE that fails twice
at start-up, makes the device drop a wallet it has; default coins cut off by a power
loss are made up for only if there are none at all; a setting changed less
than a second before a power loss is overridden by the NVM copy; `settings_set_have_seed` returns nothing
(`settings.c:384`), so its callers go on when a record was refused (`wallet_manager.c:336`).  No text of the
repository claims otherwise.

### Storage

`gLock` and `dLock` are the spin locks of `storage_manager.c` and `db_ctrl.c`; `conn`,
`handles` and `stmt` are `mSQLCon`, SQLite's open connections and
`mSqlstmt`; `inited`, `wclock`, `cache` the statics of `storage_manager.c`; `gen` numbers
the database files, as erasing unlinks one and opening makes the next.  The many
queries are of five shapes (the module's comment lists them), which differ in what
they do to the locks.  `storage_trySync2Disk` is called by shutdownLoop for ever, so
it is not counted by `MaxCalls`.  A call may fail where the code handles it: a file that does
not open (`OpenFails`), a `CREATE TABLE` (`CreateFails`), a row (`InsertFails`) or its encoding (`EncodeFails`).

Three variables are observations.  `dirty` says what an open connection has written:
`"inserted"` by the inserts, which set the write clock, `"executed"` by `dbc_executeSQL` (deletes, flags of
coins), which does not, so that it waits for the next insert or sync.  `cut` says of the current file that making its tables was
broken off, by a failing `CREATE TABLE`, which `storage_init` ignores (`storage_manager.c:89-91`), or by a power loss:
it stays without some tables for ever, and `InitedComplete` excepts just these files.  `late` says of the cached client
that its reader's file was closed between its row and its write to the cache, which no lock prevents:
`CacheCurrent` excepts just this.  `lost` marks a statement lock that a call kept.

Real deadlocks are reachable, and `StuckOnlyByFetchOrLeak` says there are no others:
a list (`storage_fetchTxsInfo`, `storage_fetchCoinInfo`) asks for the storage lock
with the statement's lock held, while closing and erasing take them the other way
round; and `dLock` is kept for good when `dbc_execSelectSQL` finds the connection
closed between its check and its lock (`db_ctrl.c:131`) or a row does not encode
after the statement was prepared.  Also seen: the call `dbc_close(); //close force`
in `dbc_open` never has anything to close, since the pointer was cleared before;
a query may return -1 because the connection was closed before its select.

### MsgQueue and MsgOutbox

`list` is the linked list, a sequence of cells; `mem` the cells' fields; `batch`
the cells the loop has cut off (`origmsg`).  Cells are static slots or heap cells
`1..MaxPosts`.  `Post` and `Delete` hold the mutex and are one step, `Look` and `Peek` are
the two unlocked reads of line 641, `GiveBack` and `Reopen` the two unlocked writes
of lines 710 and 711.  `Peek` may read another cell than `Look`, one that was freed
(then its content is arbitrary), or none (then the program faults: `deleteMessage`
can empty the list in between).  A poster may take any free slot, where the code
takes the first.  `MsgOutbox` knows only a set of waiting messages and the order of
handling; `KeepsPromise` is the refinement.  A cell stays `InBatch` until given back,
but its message leaves `taken` when it is handled.  A failed `malloc`
returns -1 and changes nothing; it is left out.  The wait uses the wall clock, which is
taken to run like the monotonic one.

### ScanSession

`lock` is `mLock` while the camera thread keeps it over several steps; the GUI thread and
the message loop hold it only within one.  `preview`, `enabled`, `last`, `buf`, `res` are
the adapter's state, `mQrEnable`, `mLastQrResult`, `mQrBuffer` and `mQrResult`.  A
transfer is a series of chunks; `Header[t]` stands for what merging compares (client,
type, number of chunks), so two transfers can have the same one.  The hash of the whole
is "all chunks are of one transfer".  `guiq` are the notifications to the scan
window, `posts` the preview messages in the order `MsgOutbox` keeps; `win` is
`mCurWindowID`, assigned at the end of `changeWindow`, after the preview was asked for.
An error dialog runs a message loop of its own, so notifications are handled while
it is open (`dialogs`).  All windows for requests are `"proc"`, all others
`"main"`; whether a result fits the state of the wallet is a free choice (`Drop` or `Hand`).

What it showed: the GUI thread waits for `mLock` (progress, error dialog) while the camera
thread holds it and waits in `SendMessage` for the GUI (`StuckOnlyByHandover`
says it is the only deadlock; `Able` lists who waits for nobody); closing the error dialog after the scan window was left
turns the preview on elsewhere (`odd = "late"`); a code read before the scan window
is the current one ends the preview and is not reported (`odd = "lost"`).

### QrSplit

The bytes of a message are its positions, a chunk is the range it carries with its
header; encryption keeps the length.  `Plan`, `Split` and `Fail` are `split_qr_packet`,
`Open`, `Timer`, `Arrow`, `Ok` the window.  Sizes are the code's integer formulas,
the header's two numbers are bytes (`% 256`).

### SignPage, EvmViews, ActionViews, OperationViews, UtxoViews

A sign view (`coin/*/*_view.c`) looks at a decoded request and either returns an error
or fills a page.  A request is a record of the answers the view's tests give (a name is
known, a path is good, an amount is of a class), not of the bytes.  A view is a function
from such a record to a page:

| in the model | in the code |
|---|---|
| `ret` | what `onShow` returns; `Tested` has the tests in the view's order, the first that fails decides |
| `kind`, `shows` | `db->tx_type` and the facts given a label: amount, fee, from, to, memo, ... |
| `wrong` | those whose text is not exactly what is signed: eight decimals, a double, a product that wraps, a text formatted onto itself |
| `cut` | those of which only the beginning and the end are shown |
| `pages` | `total_height` in screens |
| `logs` | what `db->send_value`, which the history keeps, holds |
| `save`, `drop` | the coin is remembered, the row of a renamed token deleted |

`EvmViews` has Ethereum and what looks like it, `ActionViews` Tron, Ripple, EOS and Neo,
`OperationViews` coins whose request names an operation, `UtxoViews` those with inputs
and outputs; `UtxoTotals` their loops, one turn a step, with `Top` for `LLONG_MAX`.

`PageTells` is about all of them.  No text of an accepted page is other than what is signed, but those
`Doubtful` names, which are what the model showed:

- amounts: views that print a double with eight decimals (`Doubles`), the amount of an Ethereum request with
  code of its own, a Tron amount `bignum2double` cannot convert, which goes unnoticed, so that an uninitialised
  buffer is shown (`tron_sign_view.c:110-117`), and Cardano, whose loop stops at the first output
  that is no transfer;
- fees: products of gas and price that wrap at 2^64, a fee in a token whose conversion is not looked at
  (`eth_sign_view.c:543-545`), a fee cap Filecoin cannot read;
- units put behind a number by `snprintf` from a buffer onto itself, in Bitcoin, Kaspa, Cardano, Solana and others,
  which is up to the C library;
- recipients: Cardano shows the last of several, an NFT of Bitcoin and an unlock of Nervos the first
  output, change or not.

A page of a transfer has its amount, its recipient and its fee and hands the amount to the history, but for the
transfers that have none (`Whole`), the coins whose pages do not say what they cost (`Unpriced`) and those whose
views leave `send_value` empty (`Unlogged`).  Where outputs are added up (`Recipients`) a recipient is named exactly if
somebody but the change gets something: a page of nothing but change and memos names none.

`CoinsKept` says which views change the tables of coins before they have accepted a request, and when the row of a
renamed token is deleted and not saved again: the path of the request is bad, its chain a custom one
(`eth_sign_view.c:357`, where it is never saved at 838), or it is not for a transfer (`sign_type` 3 and above among
these); old requests of all of these kinds are in `EthReqs`.  The "swap" of Solana is among its other operations of
an application.

### SignWindows and SignSession

| in the model | in the code |
|---|---|
| `heap` | the decoded messages: allocated, and of which class |
| `verify`, `show`, `raw`, `batch` | the members of the windows: message, session, view, what `onShow` returned, what is on the screen |
| `cur`, `todo` | `mCurWindowID`, and the queue of `MSG_SHOWWINDOW` and `MSG_CHANGE_WINDOW` |
| `modal` | the message loop of a dialog the GUI thread is in |
| `txs`, `history` | the transactions table and the kind of rows selected |
| `answer`, `last`, `odd` | observations: whose signatures are on the screen, what was scanned last, and whether a request that could not be processed was shown |

A window that is left keeps its members (`isHold`), the message belongs to
`TxVerifyCodeWin`, to the batch, or to `TxShowWin` when it comes from the history.
`Gone` is what a pointer to a deleted message becomes, wherever it is kept.  `HeaderLen` and
`VerifyCode` are the arithmetic of `tx_common.c`, `Segments` that of `splitString`.
`SignSession` lets the first request be one of a coin, whose view runs turn by turn; the
windows go on with the class of its page.  `SourceTold` allows for what the model showed: `freeWinData` does
nothing without a session, so a request that could not be processed leaves its view,
and the next one is taken to come from where that one came from (`odd`).  When no verification code
can be made (`HasCode`), `TxVerifyCodeWin` reports it and stays as it was: the label keeps the code of the request before, or none,
and OK signs all the same.  `CodeIsOfRequest` says exactly when the code shown is the request's own;
that a request is signed under a code of its own, `SignedUnderOwnCode`, is false.

### WizardSteps, WordKeyboard, SeedGuide, PassphraseGuide

`steps` is the stack of `utils/Stack.c`; `Push` has what the code does when it is full (a new
array, the old capacity).  A wizard is one `onResume` that loops on the top of
the stack: each `case` is an action enabled at that step (`At`), a dialog with
several answers is a record `dlg`.  `wiz` are the wizard's locals, with what the user saw, picked and
typed as observations; `chip` and `account` the seed in the SE and the account
recorded.  `PageTurned` to `ConfirmTimer` are `BackupSeedWord.cpp` and `ConfirmSeedWord.cpp`:
the pages of words, the choice among five items, the verdict that counts when a
timer fires.  `WordKeyboard` is the keyboard of `KeyBoard.c` for words: ranges of the
sorted list, the grid with its hidden rows and its empty item, the moves around its ends.

What it showed: after a failed verification of a recovered wallet the words are
erased, and the PIN that is asked for again silently does nothing; the step that stores a
passphrase tries again without a way back; with a stack that was ever full, a push loses what lies
beyond the old capacity, but no path through the steps gets there (`StackNeverFull`).

### DeviceSession

Composes the two: which window opens at a start, the main panel, the scan window and
the window it goes back to (`from`), `QrProcWin`, power losses (`Restart`; what they interrupt, write by
write, is `WalletSeed`).  The GUI thread is one: `cur`, `todo` and `modal` are shared.  `strayed`
records the four ways to a main panel without a wallet: an unreadable code while the
activation is scanned (`QrProcWin.cpp:64`); a reset that fails in its last part
and is then cancelled (`SettingWin.cpp:423`); and a PIN wrong too often before the history
(`SignHistoryWin.cpp:98`, `HistoryErases`) or while a phone is paired (`QrProcWin.cpp:262`, `BindErases`): `passwdKeyboard` has
erased the wallet and asked for the guide, and its caller asks for the main panel behind it, so that the
guide runs over an open panel.  `confirmGetPubkey` looks first whether there still is a wallet (`PubkeyErases`).

## 4. Runs and bounds

| run | properties | bounds and why they are enough |
|---|---|---|
| `seed_durable` | Durable, RecordAgrees, PairingHasCoins | two accounts, one coin, two power losses: one before and one after a wallet is stored, which is what `Durable` is about; storing, passphrases, resets and clean-ups, settings, pairing |
| `seed_faults` | SeedFlagSound, AccountIdFresh, BootAgrees | one power loss anywhere in storing a wallet or resetting the device, the case switch at any moment, failing SE commands and file writes, one NVM write or erasure that is refused (`MaxRefused`): the start-up whose record is refused and the start-up after it are both reached; no coins, of which the three properties do not speak; wrong PINs destroy the seed by the first steps of a reset and are in `seed_live`, the passphrase is in `seed_durable`; with faults the three theorems cover both |
| `seed_live` | BootEnds, BackupCatchesUp | one account; fairness of both threads |
| `seed_backup` | BackupIsRead (violated) | one power loss suffices |
| `storage` | StmtOwned, ConnSeesFile, InitedComplete, StuckOnlyByFetchOrLeak, CacheCurrent, DirtyFlushed, CallsEnd | the GUI thread with all its calls, the camera thread, and shutdownLoop, which erases and whose sync is not counted; three calls in all (one opens, then the three threads meet), lists of two rows, three files, a power loss, every fault |
| `msgq` | SlotsAccounted, NoOversleep, KeepsPromise, EveryMessageEnds | three messages of two kinds, one static slot and the heap, delays 0 to 2, time to 4: posting and deleting during each step of the loop |
| `scan` | WholeTransfer, ResultHeld, PreviewFollowsWindow, StuckOnlyByHandover | two transfers of two chunks with the same header and one of one chunk from an unknown client; five codes, three keys, a shutdown |
| `scan_logo` | ClosedBeforeLogo (violated) | one code, two keys |
| `split` | PiecesCover, Readable, AllShown | every length up to 330 with chunk sizes at and beyond both bounds: one chunk, the 220-byte page, many chunks |
| `device` | SignsLastScanned, BatchAllOrNone, MessagesOwned, CodeIsOfRequest, SourceTold, PageTells, CoinsKept, TotalsAgree, SeedIsChosen, WordsOffered, StackNeverFull, ChipHasAccount, PanelHasSeed | see below |
| `device_code` | SignedUnderOwnCode (violated) | as `device` |
| `split_long` | ChunksCarryMessage (violated) | lengths about 6800 with the shipped chunk size |

`device` has five message cells (a batch of two, the request in `TxVerifyCodeWin` and one of the history
fit, and one is free), six classes of requests and four batches for the windows, and every
request `RequestsOf` lists for 26 kinds of views: for each, all combinations of its tests, and
for accepted ones those of its amounts and texts.  `Values` are -1 to 3 with `Top` = 3, two inputs and two outputs: overflow, zero and
negative values, change and rows.  Mnemonics of three and four words from a list of seven, pages
of two, a pool of three with items of two, so that words repeat, the last page is
short and the pool is moved back at the end; the grid has two rows.  Three PINs (two good,
one refused) and three passphrases (two good, one refused).  Guards bound the rest: settings,
wizards and power losses come before the first request (`Unscanned`), requests
are scanned with the wallet of the start (`Signable`); the letters of the first
word of a recovery are keys, other words are words of some mnemonic.

The bounds are `MaxCrash`, `MaxRefused`, `MaxCalls`, `MaxRows`, `MaxGen`, `MaxPosts`, `MaxTime`,
`MaxFrames` and `MaxKeys`, and in `device` `MaxItems`, `MaxText` and the sizes named above;
each is a guard on the actions it counts.  Deadlock is checked in `device`, where some window or dialog always has
a key; not in the others, as in those modules the system may rest: the user does nothing more, or the bound is
reached; real deadlocks are stated as properties instead.

The four violated runs are findings: the backup block of an NVM record is not
read after a torn first block (`misc/device.c:156`); the scan is not always closed
before the shutdown logo (`window/AppMain.cpp:436`); and rounding up the chunk size of
a long message cuts it wrongly (`core/wallet/qr_pack.c:614`): 6803 bytes at the shipped
size give 82 chunks of 84, and the 81st reads one byte beyond the message; and a request without a verification
code is signed under the one shown before (`window/TxVerifyCodeWin.cpp:242`), where a batch is left (`BatchSignWin.cpp:424-427`).

`PiecesCover` therefore has the hypothesis `RoundingFits` (number of chunks + 3 at
most the bytes per chunk), which every message of the lengths in use meets;
`DirtyFlushed` and `CallsEnd` except the states where a lock is lost for good
(`Jammed`, the two deadlocks above), and `DirtyFlushed` promises what was inserted, with what was executed
before; `Decodable` speaks of up to 255 chunks, what a byte can count; `InitedComplete`, `CacheCurrent`
and `BootAgrees` have the exceptions of section 3 (`cut`, `late`, `refused`).

## 5. Fairness

- `WalletSeed`: each thread that can run does (`WF` of start-up and of every step
  of the GUI thread, and of the backup and the steps of shutdownLoop, which the code
  runs every second).  The user, the case switch and the power supply owe nothing.
- `Storage`: a call that has begun goes on, three seconds pass, shutdownLoop calls
  `storage_trySync2Disk` again.  Spin locks are not fair in the code: nothing
  more than weak fairness per thread is assumed.
- `MsgQueue`: the loop runs and the clock goes on.  Posters and deleters owe nothing.
- `QrSplit`: splitting and opening do not wait, and the timer of the window runs.

## 6. Proofs

TLAPS checks these for every value of the constants; each property is also one of
a run.

**`WalletSeedProofs`**: `TypeCorrect`, `AccountIdAlwaysFresh`, `FlagIsSound`, `StartUpAgrees`, with
and without faults; `RecordIsTheAccounts`, `StoredSurvives`, `PairingFillsCoins`, without.

- Types are not inductive alone: a read of the account record is of an account only because
  the writers write accounts (`WritesAnAccount`).
- `SeedFlagSound` needs `FlagParts`: shutdownLoop only backs up while the device is not
  doomed (`ShutOnlyBacksUp`), during start-up the flag that `wallet_init_check` lets
  through agrees with the SE (`BootFlag`), and once ready each handler that
  removes the seed has cleared the flag before (`ReadyFlag`).
- The record adds to that what each program counter has written. `BootRecord` is about start-up, which writes a
  missing record for the seed the SE holds and lets no other record pass: what it leaves is `Settled`, the record of the SE's account,
  or none after the NVM refused one.  That is `BootAgrees`; without faults nothing is refused (`RefusedByFault`).
  `ReadyRecord` is about the handlers: the flag is raised behind the record and lowered before it goes.
- `Durable` speaks of the first power loss after a wallet was reported (`since`), at any step.  `ReadyKeeps`: from the report to the next
  seed only settings and coins are written, so the record and the flag stand.  `BootKeeps`: start-up
  after the loss finds one of the two, and goes through the writes that bring back the other.
- `PairInv`: a pairing keeps to its path until it returns, and there is a coin behind the
  point where it counts them.  It has the hypothesis that there are default coins.
- `~Faults` is the hypothesis of `seed_durable` too: SE commands and file writes do not fail, the case is not opened.
  With faults the formulas are false (section 3).

**`StorageProofs`**: `StorageTypes`, `StatementsAreOwned`, `NoConnectionIsLost`, `OpenedIsComplete`,
`DeadlocksAreKnown`, `CacheIsCurrent`, with any number of threads, files, faults and power losses.

- The inductive invariant: who is within a section owns its lock, within the opening
  no connection is open or a select running, and a connection that is open is of
  the current file.
- `Guarded` adds that only a thread that opens or closes holds the storage lock (`GHeld`), that nobody takes the
  database for opened meanwhile (`NotYet`), and that a file that counts as opened has its tables, unless making them was
  broken off (`TablesMade`).
  The deadlocks follow: if nobody has leaked the statement's lock, whoever holds a lock can go on, or is
  the thread that fetches a row.
- The cache is filled without a lock, by any thread.  `CacheOwned`: a client that is not `late` is of the current file, and that
  file is open, or is being erased, which clears the cache; a reader that is overtaken sets `late`.

**`MsgQueueProofs`**: `CellsAreAccounted`, `WaitIsBounded`, and `QueueKeepsPromise`, the refinement, for
any number of messages, kinds, slots and delays.

- The inductive invariant: every cell in use is at one place (`Linked`), the list is in the
  order of due times and posting (`Ordered`), the batch is what was due at the time the loop read (`Batched`).
- The mapping: `pending` is the messages of the list, `taken` the ones of the batch that are not handled; posting,
  deleting, cutting the batch off the list, handling and the clock are steps of `MsgOutbox`, all others
  stutter.  `MsgOutbox` takes *all* messages due, in their order: that what the loop cuts
  off at the first message that is not due are just these is where `Ordered` is needed.

**`ScanSessionProofs`**: `RequestsAreWhole`, `ResultStandsStill`, `CameraFollowsWindow`, `OnlyHandoverBlocks`, for any transfers,
headers, codes, keys and shutdowns.

- `ResultInv`: the camera thread has its mutex until it returns from `onQrResult` (`Locked`), which is why
  the GUI may read the result through a pointer without it; the chunks collected are of transfers with the header of
  the buffer (`Collected`), the result has the same header while the camera decodes (`InStep`), and what is
  handed over, and what the window has, is of one transfer (`Handed`): the hash of the whole is what
  keeps out a mixture of two.
- `PreviewInv`: what is queued last for the camera is what the window asks for (`LastPostFits`), the two
  known exceptions aside, and when nothing is queued the preview is that (`PictureFits`).
- `OnlyHandoverBlocks` needs that the mutex has the owner its places tell: if nobody is `Able` and something
  waits, the mutex is taken, its owner is the camera thread in one of its two hand-overs, and the
  GUI thread is in one of its three sections.

**`QrSplitProofs`**: `TypeCorrect`, `ThePiecesCover`, `ChunksFit`, `HeadersDecode`, `PiecesAreReadable`, for every
length and configuration.  `CeilBounds` and `PlanBounds` are the arithmetic
of rounding up; the inductive invariant says that the chunks made so far are
the ones their numbers give (`Given`), and that `offset` is where the next one
begins.  `ThePiecesCover` needs `RoundingFits`; without it the formula is false, as
`split_long` shows.

**`SignWindowsProofs`, `DeviceSessionProofs`**: `SignsWhatWasScanned`, `BatchesAreWhole`, `NoMessageDangles`,
`CodesMatch`, `SourcesAreTold`, for any classes of requests, batches, size of the heap, wizards and restarts; the
sums and the pages of the views.

- `WindowsInv` begins with the queue of window messages, which has few shapes (`QueueShape`); what each window's
  members are is then stated for each phase of a change (`VerifyFlow`, `ShowFlow`, `RawFlow`, `BatchFlow`).
- `Owned`: an allocated message has one owner, the window of codes, the batch, an item of it or the
  history, and an owner has an allocated message.
- `AnswerFlow`: the signatures on the screen are those of the message whose session is open in the window in front.  `Untouched`: what
  no request has reached is as at the start.  `SourceFlow`: the view was told what the window knows,
  or something could not be processed (`odd`).
- `SignWindowsProofs` proves it for each action of `SignWindows`; `DeviceSessionProofs` for the steps of
  the whole session, where wizards and scans keep to their own windows (`WizardsAside`).
- `TotalsAlwaysAgree` and `SessionTotalsAgree`, for every range of numbers, all values and any number of inputs and
  outputs.  `TotalsInv` says that the change and the rows are the outputs as long as no
  error stops the loops, and what the fee is at the end; every step of the session is a step of
  `UtxoTotals` or leaves the sums alone (`StepAddsUp`).

- `PagesTell` and `CoinsStay`, for every request of every coin.  A page is followed from its facts to what the
  view returns: `Telling` is what a page of a transfer must have while it is built, each step of building
  (a misprint, a text cut, more facts, a test that may refuse it) keeps it, and saving it turns it into `Told`.  Then
  there is one lemma per view, over all the requests of its coin (`SolTells`, `EthTells`, ...), and `ViewTells` for
  all.  `TestedFails` and `TestedPasses` say what a row of tests returns; Aptos needs the first, because a
  request of an unknown kind has no page, and Ethereum both, because a row under an old name may only be
  deleted when the same request saves it.  In the session `PageInv` has the request a coin and the page its view, and `TotalsInv`
  gives the pages of outputs their sums.

**`WizardProofs`**: `StacksSuffice`, `PanelIsOfAWallet`, `AccountIsTheChips`, `WalletIsTheUsers`, `OffersAreTrue`,
for any words, mnemonics, PINs, passphrases and sizes of pages and grids.  They are proved with one invariant,
`WizardInv`, which holds along with `SessionInv`.

- The stack is the path to where a wizard is.  `Level` numbers the 20 steps in such an order that every way on leads
  up (`Rising`), so the stack never has more than 20 entries, and that is its capacity (`StackNeverFull`).
- A back key returns to any step on the stack.  `Earned` and `Fits` therefore say of each *step* what
  must have happened before it (pages seen, words picked, a passphrase typed twice), and `AllEarned` and `AllFit`
  that it did for all the steps on the stack.  `GuideDialog` and `PhraseDialog` are the same within a dialog.
- `WordsAreFound` and `WordsAreSpelled` are about the searches of `words_util.c`.  In an alphabetical list the words
  with the same beginning are neighbours (`PrefixedIsRange`), so the first and the last match bound the range; where
  the table has no entry for the first letter the search begins at a neighbour's, which is where the
  assumption that no two neighbouring letters lack words is needed.
- `OffersAreTrue` adds `OfferInv`.  `KeyboardInv` and `GridInv` say of the keyboard that the list is the one of the
  letters typed and that the highlight is within it, for each key and each wrap around; `ConfirmOffers`
  says of the words asked back that the one due is among the items and that a verdict is that of the selected one.
- `LoopPlace` says which window each wizard runs over (the guide over the main panel in two of the four ways `strayed` records);
  `SeedBehind` relates windows and wallet: which can be shown without one.  `GuideSeed` says from which step on
  the guide has made the wallet; `SeedTypes` that the account is that of the chip.

Assumptions are the named ASSUMEs on constants only, each of which the runs evaluate: message pointers, marks
and classes are different values (`PointersAssumption`, `ClassesAssumption`), mnemonics have one of the lengths of
`Counts` and pages at least one word (`WizardAssumption`), records are none of the marks
(`RecordsAssumption`), and there is a mnemonic and a PIN to start with (`FirstAssumption`).  The list of words is
alphabetical and no two neighbouring first letters lack words (`WordListAssumption`): the list itself is
not under `src`, but the table of its first letters is (`words_util.c:8`), and of those only x is missing.

Only model-checked:

- liveness (`BootEnds`, `BackupCatchesUp`, `DirtyFlushed`, `CallsEnd`, `EveryMessageEnds`, `AllShown`),
  which TLAPS does not prove;
- the four violated properties, which are false.

## 7. What is left out

- Components with status `not_modelled` or `partly` in `PROJECT.json`, and why.
- Code outside `src`: the SE's firmware, MiniGUI, SQLite, the camera and power drivers.
  They appear as the answers the code handles (a command fails or not, a
  `SendMessage` waits, a file opens or not).
- In `WalletSeed`: settings beyond one that stands for them, the version fields of
  firmware updates, the window shown after an update, the flush that
  `shutdown()` makes when the message loop calls it.
- In `Storage`: what the tables hold.
- In `SignWindows`: a PIN wrong too often for a signature, behind which there is only the guide; a request that
  does not find memory.
- In the views: wording, layout, icons and the currency value next to an amount.
- In `DeviceSession`: requests to a wallet made after the start; what is in the answers to a pairing and to a request
  for keys; a scan opened by the power key from a window other than the main panel.
- In `ScanSession`: the contents of requests, a shutdown by the message loop
  (shutdownLoop's is modelled), pictures and layout.
