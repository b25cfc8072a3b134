----------------------------- MODULE WalletSeed -----------------------------
(***************************************************************************)
(* Where the wallet's existence is recorded, and how the records are kept  *)
(* in step over power losses.                                              *)
(*                                                                         *)
(* The secure element (SE) owns the seed.  The application keeps three     *)
(* records of its own about it: the key HAVE_SEED of the settings file, a  *)
(* copy of all settings in the private flash (NVM), and the account id in  *)
(* another area of the NVM.  Every NVM area has a block 0 and a backup     *)
(* block 1.  Nothing is transactional: every handler below is the list of  *)
(* the single writes its C function makes, in the code's order, and the    *)
(* power may go (Crash) between any two of them.                           *)
(*                                                                         *)
(* Two threads run: "main" is the start-up code and then the GUI thread,   *)
(* "shut" is AppMain::shutdownLoop, which copies changed settings to the   *)
(* NVM every second and destroys the wallet when the case is opened.       *)
(* Each has a program counter; a shared routine (settings_save, the NVM    *)
(* writers) finds its arguments and its return label in job[t].            *)
(***************************************************************************)
EXTENDS Naturals

CONSTANTS
  Ids,       \* account ids the SE can report for a seed (with a passphrase)
  NoId,      \* account id 0: no seed
  Coins,     \* the default coins of wallet_initDefaultCoin
  Blank,     \* an erased NVM block: no valid header
  Torn,      \* an NVM block whose header is valid and whose digest is not
  Absent,    \* a key that is not in the settings file
  Handlers,  \* the handlers that may be started
  Faults,    \* TRUE: SE commands, writes of the settings file and of the NVM may fail
  MaxCrash,  \* bound on the number of power losses
  MaxRefused \* bound on the number of NVM writes that fail

ASSUME ConstantsAssumption ==
  /\ NoId \notin Ids /\ Blank \notin Ids /\ Torn \notin Ids
  /\ Blank # NoId /\ Torn # NoId /\ Blank # Torn
  /\ Absent \notin {0, 1}
  /\ Handlers \subseteq {"store", "phrase", "destroy", "reset", "pair", "set",
                         "clean", "hwBreak"}
  /\ Faults \in BOOLEAN
  /\ MaxCrash \in Nat /\ MaxRefused \in Nat

Threads == {"main", "shut"}
Keys    == {"seed", "coins", "lang"}
Setting == [Keys -> {0, 1}]
FileContent == [Keys -> {0, 1, Absent}]

ASSUME BlockAssumption == Blank \notin Setting /\ Torn \notin Setting

VARIABLES
  se,        \* SE: the account id of the seed it holds, or NoId
  nvmId,     \* NVM: the two blocks of the seed account record
  nvmSet,    \* NVM: the two blocks of the settings backup
  file,      \* the settings file, as a map of its keys
  db,        \* the default coins present in the coins table
  ram,       \* gHaveSeed, mCoinsVersion and another setting
  ramId,     \* gSeedAccountId
  pend,      \* gSync2NvmIndex # 0
  mode,      \* "boot" until Global_App_Inited, then "ready"
  op, pc, job, buf, snap, left,   \* control state of the threads
  doomed,    \* destoryDevice has begun: keys are shielded, power-off follows
  committed, since, crashes,      \* observation only, see Durable
  refused,   \* observation only: the account record could not be written since
             \* the start, see BootAgrees
  refusals   \* NVM writes that failed

persistent == <<se, nvmId, nvmSet, file, db>>
volatile   == <<ram, ramId, pend>>
observed   == <<committed, since, crashes, refused, refusals>>
vars == <<persistent, volatile, mode, op, pc, job, buf, snap, left, doomed,
          observed>>

Empty   == [k \in Keys |-> Absent]
NoJob   == [id |-> NoId, key |-> "none", val |-> 0, ret |-> "idle", blk |-> 0]
Default == [k \in Keys |-> 0]

-----------------------------------------------------------------------------
(* Control: jumps, calls of the shared routines, and the NVM readers.      *)

Goto(t, l) == pc' = [pc EXCEPT ![t] = l]
Call(t, j, l) == job' = [job EXCEPT ![t] = j] /\ Goto(t, l)

Save(t, k, v, r) ==
  Call(t, [id |-> NoId, key |-> k, val |-> v, ret |-> r, blk |-> 0], "save")

\* Mutant of SetHaveSeed: device_save_seed_account is not called.
SetHaveSeedNoRecord(t, i, r) == Save(t, "seed", IF i = NoId THEN 0 ELSE 1, r)

SetHaveSeed(t, i, r) ==
  Call(t, [id |-> i, key |-> "seed", val |-> IF i = NoId THEN 0 ELSE 1,
           ret |-> r, blk |-> 0],
       IF i = NoId THEN "idClear" ELSE "idTear")

SaveIdOnly(t, i, r) ==
  Call(t, [id |-> i, key |-> "none", val |-> 0, ret |-> r, blk |-> 0], "idTear")

\* Block 1 is read only when block 0 has no valid header: a block 0 with a
\* valid header and a bad digest fails the read.
ReadNvm(area) == IF area[0] = Blank THEN area[1] ELSE area[0]

ReadSeedAccount ==
  IF ReadNvm(nvmId) \in Ids THEN ReadNvm(nvmId) ELSE NoId

ReadFile == [k \in Keys |-> IF file[k] = Absent THEN 0 ELSE file[k]]

Loaded == IF ReadNvm(nvmSet) \in Setting THEN ReadNvm(nvmSet) ELSE ReadFile

-----------------------------------------------------------------------------
(* settings_save and config_file_set.                                      *)

\* Mutant of Applied: a setting changed after start-up asks for no backup.
AppliedNoBackup(t) ==
  /\ ram' = [ram EXCEPT ![job[t].key] = job[t].val]
  /\ IF mode = "boot"
       THEN snap' = [snap EXCEPT ![t] = ram'] /\ Goto(t, "setTear")
       ELSE Goto(t, job[t].ret) /\ UNCHANGED snap
  /\ UNCHANGED pend

\* The value is in the file: the RAM copy follows, and the backup is written
\* at once during start-up, by shutdownLoop later.
Applied(t) ==
  /\ ram' = [ram EXCEPT ![job[t].key] = job[t].val]
  /\ IF mode = "boot"
       THEN /\ snap' = [snap EXCEPT ![t] = ram']
            /\ Goto(t, "setTear")
            /\ UNCHANGED pend
       ELSE /\ pend' = TRUE
            /\ Goto(t, job[t].ret)
            /\ UNCHANGED snap

SaveSame(t) ==
  /\ pc[t] = "save"
  /\ file[job[t].key] = job[t].val
  /\ Applied(t)
  /\ UNCHANGED <<persistent, ramId, mode, op, job, buf, left, doomed, observed>>

SaveTruncate(t) ==
  /\ pc[t] = "save"
  /\ file[job[t].key] # job[t].val
  /\ buf' = [buf EXCEPT ![t] = [file EXCEPT ![job[t].key] = job[t].val]]
  /\ file' = Empty
  /\ Goto(t, "write")
  /\ UNCHANGED <<se, nvmId, nvmSet, db, volatile, mode, op, job, snap, left,
                 doomed, observed>>

SaveWrite(t) ==
  /\ pc[t] = "write"
  /\ file' = buf[t]
  /\ buf' = [buf EXCEPT ![t] = Empty]
  /\ Applied(t)
  /\ UNCHANGED <<se, nvmId, nvmSet, db, ramId, mode, op, job, left, doomed,
                 observed>>

\* settings_save returns an error and changes nothing; settings_set_have_seed
\* ignores that and sets gHaveSeed all the same.
SaveFails(t) ==
  /\ Faults
  /\ pc[t] = "save"
  /\ ram' = IF job[t].key = "seed" THEN [ram EXCEPT !["seed"] = job[t].val]
                                   ELSE ram
  /\ Goto(t, job[t].ret)
  /\ UNCHANGED <<persistent, ramId, pend, mode, op, job, buf, snap, left,
                 doomed, observed>>

-----------------------------------------------------------------------------
(* writeNvmData and clearNvmData on the two areas.                         *)

\* The header and part of the data are out: over an erased block that is a
\* torn record, over a valid one it may still be the old record.
Tear(block) == IF block = Blank THEN {Torn} ELSE {Torn, block}

\* Mutant of NextBlock: the backup block starts the routine again.
NextBlockAgain(t, again, l) ==
  /\ job' = [job EXCEPT ![t].blk = 1 - @]
  /\ Goto(t, again)

NextBlock(t, again, l) ==
  /\ job' = [job EXCEPT ![t].blk = 1 - @]
  /\ Goto(t, IF job[t].blk = 0 THEN again ELSE l)

IdTear(t) ==
  /\ pc[t] = "idTear"
  /\ \E v \in Tear(nvmId[job[t].blk]) : nvmId' = [nvmId EXCEPT ![job[t].blk] = v]
  /\ Goto(t, "idWrite")
  /\ UNCHANGED <<se, nvmSet, file, db, volatile, mode, op, job, buf, snap, left,
                 doomed, observed>>

IdWrite(t) ==
  /\ pc[t] = "idWrite"
  /\ nvmId' = [nvmId EXCEPT ![job[t].blk] = job[t].id]
  /\ NextBlock(t, "idTear", IF job[t].key = "seed" THEN "save" ELSE job[t].ret)
  /\ UNCHANGED <<se, nvmSet, file, db, volatile, mode, op, buf, snap, left,
                 doomed, observed>>

IdClear(t) ==
  /\ pc[t] = "idClear"
  /\ nvmId' = [nvmId EXCEPT ![job[t].blk] = Blank]
  /\ NextBlock(t, "idClear", IF job[t].key = "seed" THEN "save" ELSE job[t].ret)
  /\ ramId' = IF job[t].blk = 1 /\ job[t].key = "seed" THEN NoId ELSE ramId
  /\ UNCHANGED <<se, nvmSet, file, db, ram, pend, mode, op, buf, snap, left,
                 doomed, observed>>

SetTear(t) ==
  /\ pc[t] = "setTear"
  /\ \E v \in Tear(nvmSet[job[t].blk]) :
       nvmSet' = [nvmSet EXCEPT ![job[t].blk] = v]
  /\ Goto(t, "setWrite")
  /\ UNCHANGED <<se, nvmId, file, db, volatile, mode, op, job, buf, snap, left,
                 doomed, observed>>

SetWrite(t) ==
  /\ pc[t] = "setWrite"
  /\ nvmSet' = [nvmSet EXCEPT ![job[t].blk] = snap[t]]
  /\ snap' = [snap EXCEPT ![t] = IF job[t].blk = 0 THEN @ ELSE Default]
  /\ NextBlock(t, "setTear", job[t].ret)
  /\ UNCHANGED <<se, nvmId, file, db, volatile, mode, op, buf, left, doomed,
                 observed>>

SetClear(t) ==
  /\ pc[t] = "setClear"
  /\ nvmSet' = [nvmSet EXCEPT ![job[t].blk] = Blank]
  /\ NextBlock(t, "setClear", "idClear")
  /\ UNCHANGED <<se, nvmId, file, db, volatile, mode, op, buf, snap, left,
                 doomed, observed>>

\* The NVM does not open, or does not take all bytes.  A block to be written
\* stays as it was, or as Tear left it; one to be cleared is half cleared, its
\* header first, or not at all.  A failing block 0 ends the routine before the
\* backup, a failing backup is nobody's concern, and no caller of the routine
\* looks at its result.
NvmFails(t) ==
  /\ Faults /\ refusals < MaxRefused
  /\ refusals' = refusals + 1
  /\ pc[t] \in {"idTear", "idWrite", "idClear", "setTear", "setWrite", "setClear"}
  /\ \/ pc[t] = "idClear" /\ nvmId' = [nvmId EXCEPT ![job[t].blk] = Blank]
     \/ UNCHANGED nvmId
  /\ \/ pc[t] = "setClear" /\ nvmSet' = [nvmSet EXCEPT ![job[t].blk] = Blank]
     \/ UNCHANGED nvmSet
  /\ job' = [job EXCEPT ![t].blk = 0]
  /\ Goto(t, IF pc[t] = "setClear" THEN "idClear"
             ELSE IF pc[t] \in {"idTear", "idWrite", "idClear"} /\ job[t].key = "seed"
                    THEN "save"
                    ELSE job[t].ret)
  /\ ramId' = IF pc[t] = "idClear" /\ job[t].key = "seed" THEN NoId ELSE ramId
  /\ snap' = IF pc[t] \in {"setTear", "setWrite"} THEN [snap EXCEPT ![t] = Default]
                                                ELSE snap
  /\ refused' = (refused \/ (pc[t] \in {"idTear", "idWrite"} /\ job[t].blk = 0))
  /\ UNCHANGED <<se, file, db, ram, pend, mode, op, buf, left, doomed, committed,
                 since, crashes>>

-----------------------------------------------------------------------------
(* Start-up: settings_init, then wallet_init and wallet_init_check.        *)

SettingsInit ==
  /\ pc["main"] = "init"
  /\ ram' = Loaded
  /\ IF Loaded["seed"] = 0 /\ ReadSeedAccount # NoId
       THEN SetHaveSeed("main", ReadSeedAccount, "seInit")
       ELSE Goto("main", "seInit") /\ UNCHANGED job
  /\ UNCHANGED <<persistent, ramId, pend, mode, op, buf, snap, left, doomed,
                 observed>>

\* Mutant of SeCheck: any account record of a seeded device is accepted.
SeCheckAnyAccount ==
  /\ pc["main"] = "seInit"
  /\ ramId' = se
  /\ IF ram["seed"] = 1 /\ se = NoId
       THEN SetHaveSeed("main", NoId, "up")
       ELSE Goto("main", "up") /\ UNCHANGED job
  /\ UNCHANGED <<persistent, ram, pend, mode, op, buf, snap, left, doomed,
                 observed>>

SeCheck ==
  /\ pc["main"] = "seInit"
  /\ ramId' = se
  /\ IF ram["seed"] = 1 /\ (se = NoId \/ ReadSeedAccount \notin {NoId, se})
       THEN SetHaveSeed("main", NoId, "up")
       ELSE IF ram["seed"] = 1 /\ ReadSeedAccount = NoId
              THEN SaveIdOnly("main", se, "up")
              ELSE Goto("main", "up") /\ UNCHANGED job
  /\ UNCHANGED <<persistent, ram, pend, mode, op, buf, snap, left, doomed,
                 observed>>

SeInitFails ==
  /\ Faults
  /\ pc["main"] = "seInit"
  /\ IF ram["seed"] = 1
       THEN SetHaveSeed("main", NoId, "up")
       ELSE Goto("main", "up") /\ UNCHANGED job
  /\ UNCHANGED <<persistent, volatile, mode, op, buf, snap, left, doomed,
                 observed>>

AppInited ==
  /\ pc["main"] = "up"
  /\ mode' = "ready"
  /\ op' = [op EXCEPT !["main"] = "none"]
  /\ Call("main", NoJob, "idle")
  /\ UNCHANGED <<persistent, volatile, buf, snap, left, doomed, observed>>

-----------------------------------------------------------------------------
(* What the user and the hardware start.                                   *)

Begin(t, h, l) ==
  /\ h \in Handlers
  /\ mode = "ready"
  /\ pc[t] = "idle"
  /\ op' = [op EXCEPT ![t] = h]
  /\ Goto(t, l)
  /\ UNCHANGED <<persistent, ram, pend, mode, buf, snap, left, since, crashes,
                 refused, refusals>>

\* GuideWin: only a device without a wallet shows the guide.
StoreSeed ==
  /\ ram["seed"] = 0 /\ ~doomed
  /\ Begin("main", "store", "cleanDb")
  /\ committed' = NoId
  /\ UNCHANGED <<ramId, job, doomed>>

\* GuideWin::clean_data, when the guide finds a database.
GuideClean ==
  /\ ram["seed"] = 0 /\ ~doomed
  /\ Begin("main", "clean", "cleanDb")
  /\ UNCHANGED <<ramId, job, doomed, committed>>

\* Passphrase window: get_have_mnemonic refuses when the SE has no seed.
StorePassphrase ==
  /\ ram["seed"] = 1 /\ se # NoId /\ ~doomed
  /\ Begin("main", "phrase", "sePhrase")
  /\ ramId' = se
  /\ committed' = NoId
  /\ UNCHANGED <<job, doomed>>

\* Too many wrong passwords ("destroy"), or SettingWin::resetDevice ("reset").
DestroySeed ==
  /\ ram["seed"] = 1 /\ ~doomed
  /\ \E h \in {"destroy", "reset"} : Begin("main", h, "cleanDb")
  /\ committed' = NoId
  /\ UNCHANGED <<ramId, job, doomed>>

PairApp ==
  /\ ram["seed"] = 1 /\ ~doomed
  /\ Begin("main", "pair", "pairVersion")
  /\ UNCHANGED <<ramId, job, doomed, committed>>

ChangeSetting ==
  /\ ~doomed
  /\ job' = [job EXCEPT !["main"] = [NoJob EXCEPT !.key = "lang",
                                                  !.val = 1 - ram["lang"],
                                                  !.ret = "done"]]
  /\ Begin("main", "set", "save")
  /\ UNCHANGED <<ramId, doomed, committed>>

HwBreak ==
  /\ ram["seed"] = 1
  /\ Begin("shut", "hwBreak", "cleanDb")
  /\ doomed' = TRUE
  /\ committed' = NoId
  /\ UNCHANGED <<ramId, job>>

\* settings_backup_to_nvm(0) from shutdownLoop.
Backup ==
  /\ mode = "ready"
  /\ pc["shut"] = "idle"
  /\ pend
  /\ pend' = FALSE
  /\ snap' = [snap EXCEPT !["shut"] = ram]
  /\ Call("shut", NoJob, "setTear")
  /\ UNCHANGED <<persistent, ram, ramId, mode, op, buf, left, doomed, observed>>

-----------------------------------------------------------------------------
(* The handlers' own steps.                                                *)

CleanDb(t) ==
  /\ pc[t] = "cleanDb"
  /\ db' = {}
  /\ IF op[t] = "clean"
       THEN Goto(t, "reset") /\ UNCHANGED job
       ELSE Save(t, "coins", 0, IF op[t] = "store" THEN "seStore" ELSE "clearFlag")
  /\ UNCHANGED <<se, nvmId, nvmSet, file, volatile, mode, op, buf, snap, left,
                 doomed, observed>>

\* Mutant of ClearFlag: the seed is destroyed with the flag still set.
ClearFlagSkipped(t) ==
  /\ pc[t] = "clearFlag"
  /\ Goto(t, "seDestroy")
  /\ UNCHANGED <<persistent, volatile, mode, op, job, buf, snap, left, doomed,
                 observed>>

ClearFlag(t) ==
  /\ pc[t] = "clearFlag"
  /\ SetHaveSeed(t, NoId, "seDestroy")
  /\ UNCHANGED <<persistent, volatile, mode, op, buf, snap, left, doomed,
                 observed>>

\* Mutant of SeWrite: gSeedAccountId is not reset.
SeWriteKeepsId(t) ==
  /\ pc[t] \in {"seStore", "sePhrase"}
  /\ \/ (\E i \in Ids : se' = i) /\ Goto(t, "getId")
     \/ Faults /\ UNCHANGED se /\ Goto(t, "done")
  /\ UNCHANGED <<nvmId, nvmSet, file, db, volatile, mode, op, job, buf, snap,
                 left, doomed, observed>>

\* sapi_store_seed and sapi_set_passphrase: the SE ends up with the seed of
\* some account; an error leaves it as it was and ends the handler.
SeWrite(t) ==
  /\ pc[t] \in {"seStore", "sePhrase"}
  /\ ramId' = NoId
  /\ \/ (\E i \in Ids : se' = i) /\ Goto(t, "getId")
     \/ Faults /\ UNCHANGED se /\ Goto(t, "done")
     \/ pc[t] = "sePhrase" /\ se = NoId /\ UNCHANGED se /\ Goto(t, "done")
  /\ UNCHANGED <<nvmId, nvmSet, file, db, ram, pend, mode, op, job, buf, snap,
                 left, doomed, observed>>

GetId(t) ==
  /\ pc[t] = "getId"
  /\ \/ se # NoId /\ ramId' = se /\ SetHaveSeed(t, se, "coinsVersion")
     \/ (Faults \/ se = NoId) /\ ramId' = NoId /\ Goto(t, "done") /\ UNCHANGED job
  /\ UNCHANGED <<persistent, ram, pend, mode, op, buf, snap, left, doomed,
                 observed>>

\* wallet_initDefaultCoin: the version is saved before the coins.
CoinsVersion(t) ==
  /\ pc[t] = "coinsVersion"
  /\ left' = Coins
  /\ Save(t, "coins", 1, "saveCoin")
  /\ UNCHANGED <<persistent, volatile, mode, op, buf, snap, doomed, observed>>

SaveCoin(t) ==
  /\ pc[t] = "saveCoin"
  /\ \E c \in left :
       /\ left' = left \ {c}
       /\ \/ se # NoId /\ db' = db \cup {c}
          \/ (Faults \/ se = NoId) /\ UNCHANGED db
  /\ ramId' = IF ramId = NoId THEN se ELSE ramId
  /\ UNCHANGED <<se, nvmId, nvmSet, file, ram, pend, mode, op, pc, job, buf, snap,
                 doomed, observed>>

CoinsEnd(t) ==
  /\ pc[t] = "saveCoin" /\ left = {}
  /\ Goto(t, CASE op[t] = "store" -> "verify"
               [] op[t] = "pair"  -> "pairCount"
               [] OTHER           -> "done")
  /\ UNCHANGED <<persistent, volatile, mode, op, job, buf, snap, left, doomed,
                 observed>>

\* GuideWin reads the wallet back; on a mismatch it drops the flag and leaves
\* the seed in the SE.
Verify(t) ==
  /\ pc[t] = "verify"
  /\ \/ Goto(t, "done") /\ UNCHANGED job
     \/ Faults /\ SetHaveSeed(t, NoId, "done")
  /\ UNCHANGED <<persistent, volatile, mode, op, buf, snap, left, doomed,
                 observed>>

\* QrProcWin::syncAllCoins.
PairVersion(t) ==
  /\ pc[t] = "pairVersion"
  /\ Goto(t, IF ram["coins"] = 0 THEN "coinsVersion" ELSE "pairCount")
  /\ UNCHANGED <<persistent, volatile, mode, op, job, buf, snap, left, doomed,
                 observed>>

\* Mutant of PairCount: an empty coins table is not filled again.
PairCountOnly(t) ==
  /\ pc[t] = "pairCount"
  /\ Goto(t, "done")
  /\ UNCHANGED <<persistent, volatile, mode, op, job, buf, snap, left, doomed,
                 observed>>

PairCount(t) ==
  /\ pc[t] = "pairCount"
  /\ IF db = {}
       THEN op' = [op EXCEPT ![t] = "pairAgain"] /\ Goto(t, "coinsVersion")
       ELSE UNCHANGED op /\ Goto(t, "done")
  /\ UNCHANGED <<persistent, volatile, mode, job, buf, snap, left, doomed,
                 observed>>

SeDestroy(t) ==
  /\ pc[t] = "seDestroy"
  /\ ramId' = NoId
  /\ se' = NoId \/ (Faults /\ UNCHANGED se)
  /\ Goto(t, IF op[t] = "destroy" THEN "done" ELSE "reset")
  /\ UNCHANGED <<nvmId, nvmSet, file, db, ram, pend, mode, op, job, buf, snap,
                 left, doomed, observed>>

FactoryReset(t) ==
  /\ pc[t] = "reset"
  /\ file' = Empty
  /\ ram' = [ram EXCEPT !["seed"] = 0, !["coins"] = 0]
  /\ Call(t, [NoJob EXCEPT !.ret = "keepLang"], "setClear")
  /\ UNCHANGED <<se, nvmId, nvmSet, db, ramId, pend, mode, op, buf, snap, left,
                 doomed, observed>>

KeepLang(t) ==
  /\ pc[t] = "keepLang"
  /\ IF ram["lang"] # 0 THEN Save(t, "lang", ram["lang"], "done")
                        ELSE Goto(t, "done") /\ UNCHANGED job
  /\ UNCHANGED <<persistent, volatile, mode, op, buf, snap, left, doomed,
                 observed>>

\* The handler returns.  A wallet that was stored is from now on one the
\* device has told its user about.
Done(t) ==
  /\ pc[t] = "done"
  /\ op' = [op EXCEPT ![t] = "none"]
  /\ Call(t, NoJob, "idle")
  /\ IF op[t] \in {"store", "phrase"} /\ ram["seed"] = 1 /\ ~doomed
       THEN committed' = ramId /\ since' = 0
       ELSE UNCHANGED <<committed, since>>
  /\ UNCHANGED <<persistent, volatile, mode, buf, snap, left, doomed,
                 crashes, refused, refusals>>

-----------------------------------------------------------------------------
\* Power loss, or any shutdown, and the next start.
Crash ==
  /\ crashes < MaxCrash
  /\ crashes' = crashes + 1
  /\ since' = since + 1
  /\ ram' = Default /\ ramId' = NoId /\ pend' = FALSE
  /\ mode' = "boot"
  /\ op' = [t \in Threads |-> IF t = "main" THEN "boot" ELSE "none"]
  /\ pc' = [t \in Threads |-> IF t = "main" THEN "init" ELSE "idle"]
  /\ job' = [t \in Threads |-> NoJob]
  /\ buf' = [t \in Threads |-> Empty]
  /\ snap' = [t \in Threads |-> Default]
  /\ left' = {}
  /\ doomed' = FALSE /\ refused' = FALSE
  /\ UNCHANGED <<persistent, committed, refusals>>

\* A device that leaves the factory: nothing stored anywhere.
Init ==
  /\ se = NoId
  /\ nvmId = [b \in {0, 1} |-> Blank]
  /\ nvmSet = [b \in {0, 1} |-> Blank]
  /\ file = Empty
  /\ db = {}
  /\ ram = Default /\ ramId = NoId /\ pend = FALSE
  /\ mode = "boot"
  /\ op = [t \in Threads |-> IF t = "main" THEN "boot" ELSE "none"]
  /\ pc = [t \in Threads |-> IF t = "main" THEN "init" ELSE "idle"]
  /\ job = [t \in Threads |-> NoJob]
  /\ buf = [t \in Threads |-> Empty]
  /\ snap = [t \in Threads |-> Default]
  /\ left = {}
  /\ doomed = FALSE
  /\ committed = NoId /\ since = 0 /\ crashes = 0
  /\ refused = FALSE /\ refusals = 0

Step(t) ==
  \/ SaveSame(t) \/ SaveTruncate(t) \/ SaveWrite(t) \/ SaveFails(t)
  \/ IdTear(t) \/ IdWrite(t) \/ IdClear(t)
  \/ SetTear(t) \/ SetWrite(t) \/ SetClear(t) \/ NvmFails(t)
  \/ CleanDb(t) \/ ClearFlag(t) \/ SeWrite(t) \/ GetId(t)
  \/ CoinsVersion(t) \/ SaveCoin(t) \/ CoinsEnd(t) \/ Verify(t)
  \/ PairVersion(t) \/ PairCount(t)
  \/ SeDestroy(t) \/ FactoryReset(t) \/ KeepLang(t) \/ Done(t)

StartUp == SettingsInit \/ SeCheck \/ SeInitFails \/ AppInited

User == StoreSeed \/ GuideClean \/ StorePassphrase \/ DestroySeed
        \/ PairApp \/ ChangeSetting

Next ==
  \/ \E t \in Threads : Step(t)
  \/ StartUp \/ User \/ HwBreak \/ Backup \/ Crash

Spec == Init /\ [][Next]_vars

\* A thread that can run does run; the user, the case switch and the power
\* supply owe nothing.
Fairness == /\ WF_vars(StartUp \/ Step("main"))
            /\ WF_vars(Backup \/ Step("shut"))

FairSpec == Spec /\ Fairness

-----------------------------------------------------------------------------
(* Properties.                                                             *)

SettingBlock == Setting \cup {Blank, Torn}
IdBlock      == Ids \cup {Blank, Torn}
Ops    == {"none", "boot", "store", "phrase", "destroy", "reset", "pair",
           "pairAgain", "set", "clean", "hwBreak"}
Labels == {"init", "seInit", "up", "idle", "done", "save", "write",
           "idTear", "idWrite", "idClear", "setTear", "setWrite", "setClear",
           "cleanDb", "clearFlag", "seStore", "sePhrase", "getId",
           "coinsVersion", "saveCoin", "verify", "pairVersion", "pairCount",
           "seDestroy", "reset", "keepLang"}
Returns == {"idle", "seInit", "up", "done", "seStore", "clearFlag", "seDestroy",
            "coinsVersion", "saveCoin", "keepLang"}
Jobs   == [id : Ids \cup {NoId}, key : Keys \cup {"none"}, val : {0, 1},
           ret : Returns, blk : {0, 1}]

\* Every variable has its type.
TypeOK ==
  /\ se \in Ids \cup {NoId}
  /\ nvmId \in [{0, 1} -> IdBlock]
  /\ nvmSet \in [{0, 1} -> SettingBlock]
  /\ file \in FileContent
  /\ db \subseteq Coins
  /\ ram \in Setting
  /\ ramId \in Ids \cup {NoId}
  /\ pend \in BOOLEAN
  /\ mode \in {"boot", "ready"}
  /\ op \in [Threads -> Ops]
  /\ pc \in [Threads -> Labels]
  /\ job \in [Threads -> Jobs]
  /\ buf \in [Threads -> FileContent]
  /\ snap \in [Threads -> Setting]
  /\ left \subseteq Coins
  /\ doomed \in BOOLEAN
  /\ committed \in Ids \cup {NoId}
  /\ since \in Nat /\ crashes \in Nat /\ refusals \in Nat
  /\ refused \in BOOLEAN

\* A running device that says it has a wallet has one: the SE holds a seed.
\* It says so from the moment the start-up check has ended, however the
\* records were left by earlier power losses, and in the middle of every
\* handler; only a device whose case was opened is exempt until it is off.
SeedFlagSound ==
  mode = "ready" /\ ~doomed /\ ram["seed"] = 1 => se # NoId

\* The cached account id, under which database rows are keyed, is never the
\* id of an earlier seed.
AccountIdFresh == ~doomed => ramId \in {NoId, se}

\* wallet_init_check: a start-up that ends with a wallet ends with a readable
\* account record, and it is the SE's account.  Nobody looks at the result of
\* writing a missing record (AppMain.cpp:958): when block 0 was refused, there
\* may be none, but never the record of another account.
BootAgrees ==
  [][mode = "boot" /\ mode' = "ready" /\ ram'["seed"] = 1
       => /\ se' # NoId
          /\ ReadSeedAccount' \in {NoId, se'}
          /\ ReadSeedAccount' = NoId => refused']_vars

\* Between two handlers the account record of a device with a wallet is
\* readable and is the SE's account.
RecordAgrees ==
  mode = "ready" /\ pc["main"] = "idle" /\ ~doomed /\ ram["seed"] = 1
    => ReadSeedAccount = se

\* A wallet the device has reported as stored is still there after a power
\* loss at any later point, settings changes and backups included.
Durable ==
  mode = "ready" /\ committed # NoId /\ since <= 1
    => ram["seed"] = 1 /\ se = committed /\ ReadSeedAccount = committed

\* Pairing repairs a coins table that a power loss left empty behind a saved
\* coins version.
PairingHasCoins ==
  [][op["main"] \in {"pair", "pairAgain"} /\ op'["main"] = "none" /\ ~doomed
       /\ mode' = "ready" => db # {}]_vars

\* The block 1 that every writer fills is a backup: as long as it holds a
\* valid account record, the start-up code finds an account.
BackupIsRead ==
  pc["main"] = "init" /\ nvmId[1] \in Ids => ReadSeedAccount # NoId

\* Start-up always comes to an end.
BootEnds == mode = "boot" ~> mode = "ready"

\* Once the user stops, the settings backup, which overrides the file at the
\* next start, does not stay behind the settings in memory.
BackupCatchesUp ==
  <>[](mode = "ready" /\ pc["main"] = "idle")
    => <>[](ReadNvm(nvmSet) \in {Blank, Torn, ram})
=============================================================================
