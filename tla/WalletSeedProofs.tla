-------------------------- MODULE WalletSeedProofs --------------------------
(***************************************************************************)
(* Theorems about WalletSeed, for every set of accounts and coins, every   *)
(* choice of handlers and any number of power losses.  Those on types, the *)
(* wallet flag, the cached account id and start-up hold with and without   *)
(* faults; those on the account record, what was stored, and pairing say   *)
(* that they assume none.                                                  *)
(***************************************************************************)
EXTENDS WalletSeed, TLAPS

-----------------------------------------------------------------------------
(* Types.                                                                  *)

\* An account record is written only for a seed that exists.
WritesAnAccount ==
  \A t \in Threads : pc[t] \in {"idTear", "idWrite"} => job[t].id \in Ids

TypeInv == TypeOK /\ WritesAnAccount

LEMMA NoJobType == NoJob \in Jobs
BY DEF NoJob, Jobs, Returns

LEMMA SettingType ==
  /\ Default \in Setting
  /\ Empty \in FileContent
  /\ Setting \subseteq FileContent
BY DEF Default, Empty, Setting, FileContent

LEMMA TypeInit == Init => TypeInv
<1>. SUFFICES ASSUME Init PROVE TypeInv
  OBVIOUS
<1>1. /\ op \in [Threads -> Ops]
      /\ pc \in [Threads -> Labels]
  BY DEF Init, Threads, Ops, Labels
<1>2. /\ job \in [Threads -> Jobs]
      /\ buf \in [Threads -> FileContent]
      /\ snap \in [Threads -> Setting]
  BY NoJobType, SettingType DEF Init
<1>3. /\ nvmId \in [{0, 1} -> IdBlock]
      /\ nvmSet \in [{0, 1} -> SettingBlock]
  BY DEF Init, IdBlock, SettingBlock
<1>4. WritesAnAccount
  BY DEF Init, WritesAnAccount
<1>. QED
  BY <1>1, <1>2, <1>3, <1>4, SettingType DEF Init, TypeInv, TypeOK

\* What start-up reads from the flash and the file has the right type.
LEMMA ReadType ==
  ASSUME TypeOK
  PROVE  /\ ReadSeedAccount \in Ids \cup {NoId}
         /\ Loaded \in Setting
<1>1. ReadSeedAccount \in Ids \cup {NoId}
  BY DEF ReadSeedAccount
<1>2. ReadFile \in Setting
  BY ConstantsAssumption DEF TypeOK, ReadFile, FileContent, Setting
<1>. QED  BY <1>1, <1>2 DEF Loaded

\* The fields of a job.
LEMMA JobType ==
  ASSUME TypeOK, NEW t \in Threads
  PROVE  /\ job[t] \in Jobs
         /\ job[t].id \in Ids \cup {NoId}
         /\ job[t].key \in Keys \cup {"none"}
         /\ job[t].val \in {0, 1}
         /\ job[t].ret \in Returns
         /\ job[t].ret \in Labels
         /\ job[t].blk \in {0, 1}
BY DEF TypeOK, Jobs, Returns, Labels

LEMMA NextBlockType ==
  ASSUME TypeInv, NEW t \in Threads, NEW again \in Labels, NEW l \in Labels,
         NextBlock(t, again, l),
         again # "idWrite", again = "idTear" => job[t].id \in Ids,
         l \notin {"idTear", "idWrite"}
  PROVE  /\ job' \in [Threads -> Jobs]
         /\ pc' \in [Threads -> Labels]
         /\ WritesAnAccount'
<1>1. [job[t] EXCEPT !.blk = 1 - @] \in Jobs
  BY JobType DEF Jobs, TypeInv
<1>2. job' = [job EXCEPT ![t] = [job[t] EXCEPT !.blk = 1 - @]]
  BY DEF NextBlock
<1>3. /\ job'[t].id = job[t].id
      /\ \A u \in Threads \ {t} : job'[u] = job[u] /\ pc'[u] = pc[u]
      /\ pc'[t] \in {again, l}
  BY <1>1, <1>2, JobType DEF NextBlock, Goto, TypeInv, TypeOK, Jobs
<1>4. job' \in [Threads -> Jobs]
  BY <1>1, <1>2 DEF TypeInv, TypeOK
<1>5. pc' \in [Threads -> Labels]
  <2>1. pc \in [Threads -> Labels]
    BY DEF TypeInv, TypeOK
  <2>2. pc' = [pc EXCEPT ![t] = pc'[t]]
    BY <2>1 DEF NextBlock, Goto
  <2>3. pc'[t] \in Labels
    BY <1>3
  <2>. QED  BY <2>1, <2>2, <2>3
<1>6. WritesAnAccount'
  BY <1>3 DEF TypeInv, WritesAnAccount
<1>. QED  BY <1>4, <1>5, <1>6

\* A jump, and a call of a shared routine.
LEMMA GotoType ==
  ASSUME TypeInv, NEW t \in Threads, NEW l \in Labels, Goto(t, l),
         UNCHANGED job,
         l \in {"idTear", "idWrite"} => job[t].id \in Ids
  PROVE  pc' \in [Threads -> Labels] /\ WritesAnAccount'
BY DEF TypeInv, TypeOK, WritesAnAccount, Goto

LEMMA CallType ==
  ASSUME TypeInv, NEW t \in Threads, NEW l \in Labels, NEW j \in Jobs,
         Call(t, j, l),
         l \in {"idTear", "idWrite"} => j.id \in Ids
  PROVE  /\ pc' \in [Threads -> Labels]
         /\ job' \in [Threads -> Jobs]
         /\ WritesAnAccount'
<1>1. pc' \in [Threads -> Labels] /\ job' \in [Threads -> Jobs]
  BY DEF TypeInv, TypeOK, Call, Goto
<1>2. WritesAnAccount'
  BY DEF TypeInv, TypeOK, WritesAnAccount, Call, Goto
<1>. QED  BY <1>1, <1>2

LEMMA SaveType ==
  ASSUME TypeInv, NEW t \in Threads, NEW k \in Keys, NEW v \in {0, 1},
         NEW r \in Returns, Save(t, k, v, r)
  PROVE  /\ pc' \in [Threads -> Labels]
         /\ job' \in [Threads -> Jobs]
         /\ WritesAnAccount'
<1>. DEFINE j == [id |-> NoId, key |-> k, val |-> v, ret |-> r, blk |-> 0]
<1>1. j \in Jobs
  BY DEF Jobs
<1>2. "save" \in Labels
  BY DEF Labels
<1>3. Call(t, j, "save")
  BY DEF Save
<1>. QED  BY <1>1, <1>2, <1>3, CallType

LEMMA SetHaveSeedType ==
  ASSUME TypeInv, NEW t \in Threads, NEW i \in Ids \cup {NoId},
         NEW r \in Returns, SetHaveSeed(t, i, r)
  PROVE  /\ pc' \in [Threads -> Labels]
         /\ job' \in [Threads -> Jobs]
         /\ WritesAnAccount'
<1>. DEFINE j(v) == [id |-> i, key |-> "seed", val |-> v, ret |-> r, blk |-> 0]
<1>1. \A v \in {0, 1} : j(v) \in Jobs /\ j(v).id = i
  BY DEF Jobs, Keys
<1>2. {"idTear", "idClear"} \subseteq Labels
  BY DEF Labels
<1>. HIDE DEF j
<1>3. CASE i = NoId
  <2>1. Call(t, j(0), "idClear")
    BY <1>3 DEF SetHaveSeed, j
  <2>. QED  BY <1>1, <1>2, <2>1, CallType
<1>4. CASE i # NoId
  <2>1. Call(t, j(1), "idTear")
    BY <1>4 DEF SetHaveSeed, j
  <2>. QED  BY <1>1, <1>2, <1>4, <2>1, CallType
<1>. QED  BY <1>3, <1>4

LEMMA SaveIdOnlyType ==
  ASSUME TypeInv, NEW t \in Threads, NEW i \in Ids, NEW r \in Returns,
         SaveIdOnly(t, i, r)
  PROVE  /\ pc' \in [Threads -> Labels]
         /\ job' \in [Threads -> Jobs]
         /\ WritesAnAccount'
<1>. DEFINE j == [id |-> i, key |-> "none", val |-> 0, ret |-> r, blk |-> 0]
<1>1. j \in Jobs /\ j.id = i
  BY DEF Jobs
<1>2. "idTear" \in Labels
  BY DEF Labels
<1>3. Call(t, j, "idTear")
  BY DEF SaveIdOnly
<1>. HIDE DEF j
<1>. QED  BY <1>1, <1>2, <1>3, CallType

-----------------------------------------------------------------------------
(* The shared routines keep the types.                                     *)

LEMMA AppliedType ==
  ASSUME TypeInv, NEW t \in Threads, Applied(t), UNCHANGED job
  PROVE  /\ ram' \in Setting
         /\ pend' \in BOOLEAN
         /\ snap' \in [Threads -> Setting]
         /\ pc' \in [Threads -> Labels]
         /\ WritesAnAccount'
<1>1. ram' \in Setting
  BY JobType DEF TypeInv, TypeOK, Applied, Setting
<1>2. pend' \in BOOLEAN /\ snap' \in [Threads -> Setting]
  BY <1>1 DEF TypeInv, TypeOK, Applied
<1>3. "setTear" \in Labels /\ job[t].ret \in Labels
  BY JobType DEF Labels, TypeInv
<1>4. Goto(t, "setTear") \/ Goto(t, job[t].ret)
  BY DEF Applied
<1>5. job[t].ret \notin {"idTear", "idWrite"}
  BY JobType DEF TypeInv, Returns
<1>. QED  BY <1>1, <1>2, <1>3, <1>4, <1>5, GotoType

LEMMA TypeSave ==
  ASSUME TypeInv, NEW t \in Threads,
         SaveSame(t) \/ SaveTruncate(t) \/ SaveWrite(t) \/ SaveFails(t)
  PROVE  TypeInv'
<1>. USE DEF persistent, volatile, observed
<1>1. CASE SaveSame(t)
  BY <1>1, AppliedType DEF SaveSame, TypeInv, TypeOK
<1>2. CASE SaveTruncate(t)
  <2>1. "write" \in Labels
    BY DEF Labels
  <2>2. [file EXCEPT ![job[t].key] = job[t].val] \in FileContent
    BY JobType DEF TypeInv, TypeOK, FileContent
  <2>3. pc' \in [Threads -> Labels] /\ WritesAnAccount'
    BY <1>2, <2>1, GotoType DEF SaveTruncate
  <2>4. file' \in FileContent /\ buf' \in [Threads -> FileContent]
    BY <1>2, <2>2, SettingType DEF SaveTruncate, TypeInv, TypeOK
  <2>. QED  BY <1>2, <2>3, <2>4 DEF SaveTruncate, TypeInv, TypeOK
<1>3. CASE SaveWrite(t)
  <2>1. file' \in FileContent /\ buf' \in [Threads -> FileContent]
    BY <1>3, SettingType DEF SaveWrite, TypeInv, TypeOK
  <2>. QED  BY <1>3, <2>1, AppliedType DEF SaveWrite, TypeInv, TypeOK
<1>4. CASE SaveFails(t)
  <2>1. ram' \in Setting
    BY <1>4, JobType DEF SaveFails, TypeInv, TypeOK, Setting
  <2>2. job[t].ret \in Labels /\ job[t].ret \notin {"idTear", "idWrite"}
    BY JobType DEF TypeInv, Returns
  <2>3. pc' \in [Threads -> Labels] /\ WritesAnAccount'
    BY <1>4, <2>2, GotoType DEF SaveFails
  <2>. QED  BY <1>4, <2>1, <2>3 DEF SaveFails, TypeInv, TypeOK
<1>. QED  BY <1>1, <1>2, <1>3, <1>4

LEMMA TypeFlash ==
  ASSUME TypeInv, NEW t \in Threads,
         \/ IdTear(t) \/ IdWrite(t) \/ IdClear(t)
         \/ SetTear(t) \/ SetWrite(t) \/ SetClear(t) \/ NvmFails(t)
  PROVE  TypeInv'
<1>. USE DEF persistent, volatile, observed
<1>l. /\ {"idTear", "idWrite", "idClear", "setTear", "setWrite", "setClear",
           "save"} \subseteq Labels
      /\ job[t].ret \in Labels
      /\ job[t].ret \notin {"idTear", "idWrite"}
      /\ job[t].blk \in {0, 1}
  BY JobType DEF Labels, TypeInv, Returns
<1>1. CASE IdTear(t)
  <2>1. \A v \in Tear(nvmId[job[t].blk]) : v \in IdBlock
    BY <1>l DEF Tear, TypeInv, TypeOK, IdBlock
  <2>2. nvmId' \in [{0, 1} -> IdBlock]
    BY <1>1, <2>1 DEF IdTear, TypeInv, TypeOK
  <2>3. pc' \in [Threads -> Labels] /\ WritesAnAccount'
    BY <1>1, <1>l, GotoType DEF IdTear, TypeInv, WritesAnAccount
  <2>. QED  BY <1>1, <2>2, <2>3 DEF IdTear, TypeInv, TypeOK
<1>2. CASE IdWrite(t)
  <2>1. job[t].id \in Ids
    BY <1>2 DEF IdWrite, TypeInv, WritesAnAccount
  <2>2. nvmId' \in [{0, 1} -> IdBlock]
    BY <1>2, <2>1 DEF IdWrite, TypeInv, TypeOK, IdBlock
  <2>3. PICK l \in Labels : NextBlock(t, "idTear", l)
                            /\ l \notin {"idTear", "idWrite"}
    BY <1>2, <1>l DEF IdWrite
  <2>. QED  BY <1>2, <1>l, <2>1, <2>2, <2>3, NextBlockType
            DEF IdWrite, TypeInv, TypeOK
<1>3. CASE IdClear(t)
  <2>1. nvmId' \in [{0, 1} -> IdBlock] /\ ramId' \in Ids \cup {NoId}
    BY <1>3 DEF IdClear, TypeInv, TypeOK, IdBlock
  <2>2. PICK l \in Labels : NextBlock(t, "idClear", l)
                            /\ l \notin {"idTear", "idWrite"}
    BY <1>3, <1>l DEF IdClear
  <2>. QED  BY <1>3, <1>l, <2>1, <2>2, NextBlockType
            DEF IdClear, TypeInv, TypeOK
<1>4. CASE SetTear(t)
  <2>1. \A v \in Tear(nvmSet[job[t].blk]) : v \in SettingBlock
    BY <1>l DEF Tear, TypeInv, TypeOK, SettingBlock
  <2>2. nvmSet' \in [{0, 1} -> SettingBlock]
    BY <1>4, <2>1 DEF SetTear, TypeInv, TypeOK
  <2>3. pc' \in [Threads -> Labels] /\ WritesAnAccount'
    BY <1>4, <1>l, GotoType DEF SetTear
  <2>. QED  BY <1>4, <2>2, <2>3 DEF SetTear, TypeInv, TypeOK
<1>5. CASE SetWrite(t)
  <2>1. /\ nvmSet' \in [{0, 1} -> SettingBlock]
        /\ snap' \in [Threads -> Setting]
    BY <1>5, SettingType DEF SetWrite, TypeInv, TypeOK, SettingBlock
  <2>2. NextBlock(t, "setTear", job[t].ret)
    BY <1>5 DEF SetWrite
  <2>. QED  BY <1>5, <1>l, <2>1, <2>2, NextBlockType
            DEF SetWrite, TypeInv, TypeOK
<1>6. CASE SetClear(t)
  <2>1. nvmSet' \in [{0, 1} -> SettingBlock]
    BY <1>6 DEF SetClear, TypeInv, TypeOK, SettingBlock
  <2>2. NextBlock(t, "setClear", "idClear")
    BY <1>6 DEF SetClear
  <2>. QED  BY <1>6, <1>l, <2>1, <2>2, NextBlockType
            DEF SetClear, TypeInv, TypeOK
<1>7. CASE NvmFails(t)
  <2>1. nvmId' \in [{0, 1} -> IdBlock] /\ nvmSet' \in [{0, 1} -> SettingBlock]
    BY <1>7 DEF NvmFails, TypeInv, TypeOK, IdBlock, SettingBlock
  <2>2. PICK l \in Labels : Goto(t, l) /\ l \notin {"idTear", "idWrite"}
    BY <1>7, <1>l DEF NvmFails
  <2>3. [job[t] EXCEPT !.blk = 0] \in Jobs
    BY JobType DEF Jobs, TypeInv
  <2>4. job' = [job EXCEPT ![t] = [job[t] EXCEPT !.blk = 0]]
    BY <1>7 DEF NvmFails
  <2>5. /\ pc' \in [Threads -> Labels] /\ job' \in [Threads -> Jobs]
        /\ WritesAnAccount'
    BY <2>2, <2>3, <2>4, CallType DEF Call
  <2>6. snap' \in [Threads -> Setting] /\ ramId' \in Ids \cup {NoId}
    BY <1>7, SettingType DEF NvmFails, TypeInv, TypeOK
  <2>7. refused' \in BOOLEAN /\ refusals' \in Nat
    BY <1>7 DEF NvmFails, TypeInv, TypeOK
  <2>. QED  BY <1>7, <2>1, <2>5, <2>6, <2>7 DEF NvmFails, TypeInv, TypeOK
<1>. QED  BY <1>1, <1>2, <1>3, <1>4, <1>5, <1>6, <1>7

LEMMA TypeHandler ==
  ASSUME TypeInv, NEW t \in Threads,
         \/ CleanDb(t) \/ ClearFlag(t) \/ SeWrite(t) \/ GetId(t)
         \/ CoinsVersion(t) \/ SaveCoin(t) \/ CoinsEnd(t) \/ Verify(t)
         \/ PairVersion(t) \/ PairCount(t)
         \/ SeDestroy(t) \/ FactoryReset(t) \/ KeepLang(t) \/ Done(t)
  PROVE  TypeInv'
<1>. USE DEF persistent, volatile, observed
<1>l. /\ {"idle", "done", "reset", "getId", "saveCoin", "verify", "pairCount",
           "coinsVersion", "seDestroy", "setClear"} \subseteq Labels
      /\ {"seStore", "clearFlag", "seDestroy", "saveCoin", "coinsVersion",
           "done", "keepLang"} \subseteq Returns
      /\ "coins" \in Keys /\ "lang" \in Keys
      /\ NoId \in Ids \cup {NoId}
      /\ se \in Ids \cup {NoId}
  BY DEF Labels, Returns, Keys, TypeInv, TypeOK
<1>1. CASE CleanDb(t)
  <2>1. \/ Goto(t, "reset") /\ UNCHANGED job
        \/ \E r \in Returns : Save(t, "coins", 0, r)
    BY <1>1, <1>l DEF CleanDb
  <2>2. /\ pc' \in [Threads -> Labels] /\ job' \in [Threads -> Jobs]
        /\ WritesAnAccount'
    BY <2>1, <1>l, GotoType, SaveType DEF TypeInv, TypeOK
  <2>. QED  BY <1>1, <2>2 DEF CleanDb, TypeInv, TypeOK
<1>2. CASE ClearFlag(t)
  <2>1. SetHaveSeed(t, NoId, "seDestroy")
    BY <1>2 DEF ClearFlag
  <2>2. /\ pc' \in [Threads -> Labels] /\ job' \in [Threads -> Jobs]
        /\ WritesAnAccount'
    BY <2>1, <1>l, SetHaveSeedType
  <2>. QED  BY <1>2, <2>2 DEF ClearFlag, TypeInv, TypeOK
<1>3. CASE SeWrite(t)
  BY <1>3, <1>l, GotoType DEF SeWrite, TypeInv, TypeOK
<1>4. CASE GetId(t)
  <2>1. \/ SetHaveSeed(t, se, "coinsVersion")
        \/ Goto(t, "done") /\ UNCHANGED job
    BY <1>4 DEF GetId
  <2>2. /\ pc' \in [Threads -> Labels] /\ job' \in [Threads -> Jobs]
        /\ WritesAnAccount'
    BY <2>1, <1>l, GotoType, SetHaveSeedType DEF TypeInv, TypeOK
  <2>. QED  BY <1>4, <2>2 DEF GetId, TypeInv, TypeOK
<1>5. CASE CoinsVersion(t)
  BY <1>5, <1>l, SaveType DEF CoinsVersion, TypeInv, TypeOK
<1>6. CASE SaveCoin(t)
  BY <1>6 DEF SaveCoin, TypeInv, TypeOK, WritesAnAccount
<1>7. CASE CoinsEnd(t)
  <2>1. \E l \in {"verify", "pairCount", "done"} : Goto(t, l)
    BY <1>7 DEF CoinsEnd
  <2>. QED  BY <1>7, <2>1, <1>l, GotoType DEF CoinsEnd, TypeInv, TypeOK
<1>8. CASE Verify(t)
  <2>1. \/ SetHaveSeed(t, NoId, "done")
        \/ Goto(t, "done") /\ UNCHANGED job
    BY <1>8 DEF Verify
  <2>2. /\ pc' \in [Threads -> Labels] /\ job' \in [Threads -> Jobs]
        /\ WritesAnAccount'
    BY <2>1, <1>l, GotoType, SetHaveSeedType DEF TypeInv, TypeOK
  <2>. QED  BY <1>8, <2>2 DEF Verify, TypeInv, TypeOK
<1>9. CASE PairVersion(t)
  BY <1>9, <1>l, GotoType DEF PairVersion, TypeInv, TypeOK
<1>10. CASE PairCount(t)
  <2>1. op' \in [Threads -> Ops]
    BY <1>10 DEF PairCount, TypeInv, TypeOK, Ops
  <2>. QED  BY <1>10, <2>1, <1>l, GotoType DEF PairCount, TypeInv, TypeOK
<1>11. CASE SeDestroy(t)
  BY <1>11, <1>l, GotoType DEF SeDestroy, TypeInv, TypeOK
<1>12. CASE FactoryReset(t)
  <2>1. [NoJob EXCEPT !.ret = "keepLang"] \in Jobs
    BY <1>l DEF NoJob, Jobs
  <2>2. ram' \in Setting
    BY <1>12 DEF FactoryReset, TypeInv, TypeOK, Setting
  <2>. QED  BY <1>12, <2>1, <2>2, <1>l, CallType, SettingType
            DEF FactoryReset, TypeInv, TypeOK
<1>13. CASE KeepLang(t)
  <2>1. ram["lang"] \in {0, 1}
    BY <1>l DEF TypeInv, TypeOK, Setting
  <2>. QED  BY <1>13, <2>1, <1>l, GotoType, SaveType
            DEF KeepLang, TypeInv, TypeOK
<1>14. CASE Done(t)
  <2>1. op' \in [Threads -> Ops]
    BY <1>14 DEF Done, TypeInv, TypeOK, Ops
  <2>. QED  BY <1>14, <2>1, <1>l, NoJobType, CallType DEF Done, TypeInv, TypeOK
<1>. QED  BY <1>1, <1>2, <1>3, <1>4, <1>5, <1>6, <1>7, <1>8, <1>9, <1>10,
             <1>11, <1>12, <1>13, <1>14

LEMMA TypeStartUp ==
  ASSUME TypeInv, StartUp
  PROVE  TypeInv'
<1>. USE DEF persistent, volatile, observed
<1>l. /\ {"seInit", "up", "idle"} \subseteq Labels
      /\ {"seInit", "up"} \subseteq Returns
      /\ "main" \in Threads
      /\ NoId \in Ids \cup {NoId}
      /\ se \in Ids \cup {NoId}
      /\ ReadSeedAccount \in Ids \cup {NoId}
      /\ Loaded \in Setting
  BY ReadType DEF Labels, Returns, Threads, TypeInv, TypeOK
<1>1. CASE SettingsInit
  <2>1. \/ SetHaveSeed("main", ReadSeedAccount, "seInit")
        \/ Goto("main", "seInit") /\ UNCHANGED job
    BY <1>1 DEF SettingsInit
  <2>2. /\ pc' \in [Threads -> Labels] /\ job' \in [Threads -> Jobs]
        /\ WritesAnAccount'
    BY <2>1, <1>l, GotoType, SetHaveSeedType DEF TypeInv, TypeOK
  <2>. QED  BY <1>1, <2>2, <1>l DEF SettingsInit, TypeInv, TypeOK
<1>2. CASE SeCheck
  <2>1. \/ SetHaveSeed("main", NoId, "up")
        \/ se # NoId /\ SaveIdOnly("main", se, "up")
        \/ Goto("main", "up") /\ UNCHANGED job
    BY <1>2 DEF SeCheck
  <2>2. /\ pc' \in [Threads -> Labels] /\ job' \in [Threads -> Jobs]
        /\ WritesAnAccount'
    BY <2>1, <1>l, GotoType, SetHaveSeedType, SaveIdOnlyType
       DEF TypeInv, TypeOK
  <2>. QED  BY <1>2, <2>2, <1>l DEF SeCheck, TypeInv, TypeOK
<1>3. CASE SeInitFails
  <2>1. \/ SetHaveSeed("main", NoId, "up")
        \/ Goto("main", "up") /\ UNCHANGED job
    BY <1>3 DEF SeInitFails
  <2>2. /\ pc' \in [Threads -> Labels] /\ job' \in [Threads -> Jobs]
        /\ WritesAnAccount'
    BY <2>1, <1>l, GotoType, SetHaveSeedType DEF TypeInv, TypeOK
  <2>. QED  BY <1>3, <2>2 DEF SeInitFails, TypeInv, TypeOK
<1>4. CASE AppInited
  <2>1. op' \in [Threads -> Ops]
    BY <1>4 DEF AppInited, TypeInv, TypeOK, Ops
  <2>. QED  BY <1>4, <2>1, <1>l, NoJobType, CallType
            DEF AppInited, TypeInv, TypeOK
<1>. QED  BY <1>1, <1>2, <1>3, <1>4 DEF StartUp

LEMMA BeginType ==
  ASSUME TypeInv, NEW t \in Threads, NEW h, NEW l, Begin(t, h, l),
         l \in {"cleanDb", "sePhrase", "pairVersion", "save"}
  PROVE  /\ op' \in [Threads -> Ops]
         /\ pc' \in [Threads -> Labels]
         /\ job' = job => WritesAnAccount'
<1>1. h \in Ops /\ l \in Labels
  BY ConstantsAssumption DEF Begin, Ops, Labels
<1>. QED  BY <1>1, GotoType DEF Begin, Goto, TypeInv, TypeOK

LEMMA TypeUser ==
  ASSUME TypeInv, User \/ HwBreak
  PROVE  TypeInv'
<1>. USE DEF persistent, volatile, observed
<1>l. Threads = {"main", "shut"} /\ NoId \in Ids \cup {NoId}
  BY DEF Threads
<1>1. CASE StoreSeed
  BY <1>1, <1>l, BeginType DEF StoreSeed, Begin, TypeInv, TypeOK
<1>2. CASE GuideClean
  BY <1>2, <1>l, BeginType DEF GuideClean, Begin, TypeInv, TypeOK
<1>3. CASE StorePassphrase
  BY <1>3, <1>l, BeginType DEF StorePassphrase, Begin, TypeInv, TypeOK
<1>4. CASE DestroySeed
  BY <1>4, <1>l, BeginType DEF DestroySeed, Begin, TypeInv, TypeOK
<1>5. CASE PairApp
  BY <1>5, <1>l, BeginType DEF PairApp, Begin, TypeInv, TypeOK
<1>6. CASE ChangeSetting
  <2>0. ram["lang"] \in {0, 1}
    BY DEF TypeInv, TypeOK, Setting, Keys
  <2>1. [NoJob EXCEPT !.key = "lang", !.val = 1 - ram["lang"], !.ret = "done"]
          \in Jobs
    <3>1. \A v \in {0, 1} :
            [NoJob EXCEPT !.key = "lang", !.val = v, !.ret = "done"] \in Jobs
      BY DEF NoJob, Jobs, Keys, Returns
    <3>2. 1 - ram["lang"] \in {0, 1}
      BY <2>0
    <3>. QED  BY <3>1, <3>2
  <2>2. job' \in [Threads -> Jobs]
    BY <1>6, <2>1 DEF ChangeSetting, TypeInv, TypeOK
  <2>3. WritesAnAccount'
    BY <1>6, <1>l DEF ChangeSetting, Begin, Goto, TypeInv, TypeOK, WritesAnAccount
  <2>. QED  BY <1>6, <1>l, <2>2, <2>3, BeginType
            DEF ChangeSetting, Begin, TypeInv, TypeOK
<1>7. CASE HwBreak
  BY <1>7, <1>l, BeginType DEF HwBreak, Begin, TypeInv, TypeOK
<1>. QED  BY <1>1, <1>2, <1>3, <1>4, <1>5, <1>6, <1>7 DEF User

LEMMA TypeNext == TypeInv /\ [Next]_vars => TypeInv'
<1>. SUFFICES ASSUME TypeInv, [Next]_vars PROVE TypeInv'
  OBVIOUS
<1>1. ASSUME NEW t \in Threads, Step(t) PROVE TypeInv'
  BY <1>1, TypeSave, TypeFlash, TypeHandler DEF Step
<1>2. CASE Backup
  <2>1. "setTear" \in Labels /\ "shut" \in Threads
    BY DEF Labels, Threads
  <2>2. snap' \in [Threads -> Setting]
    BY <1>2 DEF Backup, TypeInv, TypeOK
  <2>. QED  BY <1>2, <2>1, <2>2, NoJobType, CallType
            DEF Backup, TypeInv, TypeOK, persistent, observed
<1>3. CASE Crash
  <2>1. op' \in [Threads -> Ops] /\ pc' \in [Threads -> Labels]
    BY <1>3 DEF Crash, Ops, Labels
  <2>2. /\ job' \in [Threads -> Jobs]
        /\ buf' \in [Threads -> FileContent]
        /\ snap' \in [Threads -> Setting]
    BY <1>3, NoJobType, SettingType DEF Crash
  <2>3. WritesAnAccount'
    BY <1>3 DEF Crash, WritesAnAccount
  <2>4. NoId \in Ids \cup {NoId} /\ {} \subseteq Coins
    OBVIOUS
  <2>5. since' \in Nat /\ crashes' \in Nat
    BY <1>3 DEF Crash, TypeInv, TypeOK
  <2>. QED  BY <1>3, <2>1, <2>2, <2>3, <2>4, <2>5, SettingType
            DEF Crash, TypeInv, TypeOK, persistent
<1>4. CASE UNCHANGED vars
  BY <1>4 DEF vars, persistent, volatile, observed, TypeInv, TypeOK,
              WritesAnAccount
<1>. QED  BY <1>1, <1>2, <1>3, <1>4, TypeStartUp, TypeUser DEF Next

\* Every variable keeps its type, whatever the handlers, faults and losses.
THEOREM TypeCorrect == Spec => []TypeOK
<1>1. TypeInv => TypeOK
  BY DEF TypeInv
<1>. QED  BY <1>1, TypeInit, TypeNext, PTL DEF Spec

-----------------------------------------------------------------------------
(* The cached account id.                                                  *)

\* The id the database is keyed by is never that of an earlier seed: every
\* command that changes the seed drops it, in either thread.
THEOREM AccountIdAlwaysFresh == Spec => []AccountIdFresh
<1>. DEFINE Inv == ramId \in {NoId, se}
<1>1. Init => Inv
  BY DEF Init
<1>2. Inv /\ [Next]_vars => Inv'
  <2>. SUFFICES ASSUME Inv, [Next]_vars PROVE Inv'
    OBVIOUS
  <2>. USE DEF persistent, volatile, observed
  <2>1. ASSUME NEW t \in Threads,
               SaveSame(t) \/ SaveTruncate(t) \/ SaveWrite(t) \/ SaveFails(t)
        PROVE  Inv'
    BY <2>1 DEF SaveSame, SaveTruncate, SaveWrite, SaveFails
  <2>2. ASSUME NEW t \in Threads,
               \/ IdTear(t) \/ IdWrite(t) \/ IdClear(t)
               \/ SetTear(t) \/ SetWrite(t) \/ SetClear(t) \/ NvmFails(t)
        PROVE  Inv'
    BY <2>2 DEF IdTear, IdWrite, IdClear, SetTear, SetWrite, SetClear, NvmFails
  <2>3. ASSUME NEW t \in Threads,
               \/ CleanDb(t) \/ ClearFlag(t) \/ SeWrite(t) \/ GetId(t)
               \/ CoinsVersion(t) \/ SaveCoin(t) \/ CoinsEnd(t) \/ Verify(t)
        PROVE  Inv'
    BY <2>3 DEF CleanDb, ClearFlag, SeWrite, GetId, CoinsVersion, SaveCoin,
                CoinsEnd, Verify
  <2>4. ASSUME NEW t \in Threads,
               \/ PairVersion(t) \/ PairCount(t) \/ SeDestroy(t)
               \/ FactoryReset(t) \/ KeepLang(t) \/ Done(t)
        PROVE  Inv'
    BY <2>4 DEF PairVersion, PairCount, SeDestroy, FactoryReset, KeepLang, Done
  <2>5. CASE StartUp
    BY <2>5 DEF StartUp, SettingsInit, SeCheck, SeInitFails, AppInited
  <2>6. CASE User \/ HwBreak
    BY <2>6 DEF User, HwBreak, StoreSeed, GuideClean, StorePassphrase,
                DestroySeed, PairApp, ChangeSetting, Begin
  <2>7. CASE Backup \/ Crash \/ UNCHANGED vars
    BY <2>7 DEF Backup, Crash, vars
  <2>. QED  BY <2>1, <2>2, <2>3, <2>4, <2>5, <2>6, <2>7 DEF Next, Step
<1>3. Inv => AccountIdFresh
  BY DEF AccountIdFresh
<1>. QED  BY <1>1, <1>2, <1>3, PTL DEF Spec

-----------------------------------------------------------------------------
(* The wallet flag.                                                        *)

FlagLabels == {"save", "write", "idTear", "idWrite", "idClear"}
Shared     == FlagLabels \cup {"setTear", "setWrite", "setClear"}

\* Until the case is opened, shutdownLoop only copies settings to the flash.
ShutOnlyBacksUp ==
  ~doomed => /\ pc["shut"] \in {"idle", "setTear", "setWrite"}
             /\ job["shut"].ret = "idle"

\* Start-up raises the flag only before the check, lowers it only for the
\* check, and writes an account record without the flag only for a seed.
BootFlag ==
  mode = "boot" =>
    /\ ~doomed /\ pc["shut"] = "idle"
    /\ pc["main"] \in {"init", "seInit", "up", "setTear", "setWrite"}
                        \cup FlagLabels
    /\ pc["main"] \in Shared =>
         \/ /\ job["main"].ret = "seInit"
            /\ job["main"].key = "seed" /\ job["main"].val = 1
         \/ /\ job["main"].ret = "up"
            /\ job["main"].key = "seed" /\ job["main"].val = 0
            /\ pc["main"] \in {"setTear", "setWrite"} => ram["seed"] = 0
         \/ /\ job["main"].ret = "up"
            /\ job["main"].key = "none" /\ se # NoId
            /\ pc["main"] \in {"idTear", "idWrite"}
    /\ pc["main"] = "up" /\ ram["seed"] = 1 => se # NoId

\* The seed is destroyed behind a cleared flag, and the flag is raised only
\* for a seed the SE holds.
ReadyFlag ==
  mode = "ready" /\ ~doomed =>
    /\ pc["main"] \notin {"init", "seInit", "up", "setTear", "setWrite"}
    /\ pc["main"] \in Shared => job["main"].ret \notin {"seInit", "up"}
    /\ ram["seed"] = 1 => se # NoId
    /\ pc["main"] \in FlagLabels /\ job["main"].key = "seed"
         /\ job["main"].val = 1 => se # NoId
    /\ pc["main"] \in Shared /\ job["main"].ret = "seDestroy"
         => job["main"].key = "seed" /\ job["main"].val = 0
    /\ pc["main"] = "setClear" => job["main"].key = "none"
    /\ pc["main"] = "seDestroy" => ram["seed"] = 0

FlagParts == ShutOnlyBacksUp /\ BootFlag /\ ReadyFlag

\* The types the arguments below rely on.
LEMMA FlagTypes ==
  ASSUME TypeInv
  PROVE  /\ Threads = {"main", "shut"}
         /\ pc \in [Threads -> Labels]
         /\ DOMAIN job = Threads
         /\ \A t \in Threads : job[t] = [id |-> job[t].id, key |-> job[t].key,
                 val |-> job[t].val, ret |-> job[t].ret, blk |-> job[t].blk]
         /\ job["main"].val \in {0, 1}
         /\ job["main"].ret \notin FlagLabels \cup {"init", "setTear", "setWrite",
                                                 "setClear"}
         /\ DOMAIN ram = Keys
         /\ mode \in {"boot", "ready"}
<1>1. \A j \in Jobs : j = [id |-> j.id, key |-> j.key, val |-> j.val,
                           ret |-> j.ret, blk |-> j.blk]
  BY DEF Jobs
<1>. QED  BY <1>1, JobType DEF TypeInv, TypeOK, Threads, Setting, FlagLabels, Returns

LEMMA FlagInit == Init => FlagParts
BY DEF Init, FlagParts, ShutOnlyBacksUp, BootFlag, ReadyFlag, Threads, NoJob,
       Shared, FlagLabels

LEMMA FlagStepDoomed ==
  ASSUME FlagParts, doomed, UNCHANGED <<doomed, mode>>
  PROVE  FlagParts'
BY DEF FlagParts, ShutOnlyBacksUp, BootFlag, ReadyFlag

LEMMA FlagSave ==
  ASSUME TypeInv, FlagParts, ~doomed,
         \/ SaveSame("main") \/ SaveTruncate("main") \/ SaveWrite("main")
         \/ SaveFails("main")
  PROVE  FlagParts'
<1>. USE FlagTypes DEF FlagParts, ShutOnlyBacksUp, BootFlag, ReadyFlag, Shared,
         FlagLabels, Goto, persistent, volatile, observed
<1>0. ASSUME ram' = [ram EXCEPT ![job["main"].key] = job["main"].val]
      PROVE  ram'["seed"] = IF job["main"].key = "seed" THEN job["main"].val
                                                       ELSE ram["seed"]
  BY <1>0 DEF Keys
<1>1. CASE SaveSame("main") \/ SaveWrite("main")
  <2>1. /\ UNCHANGED <<se, mode, job, doomed>>
        /\ ram' = [ram EXCEPT ![job["main"].key] = job["main"].val]
        /\ pc["main"] \in {"save", "write"}
        /\ pc'["shut"] = pc["shut"]
        /\ pc'["main"] = IF mode = "boot" THEN "setTear" ELSE job["main"].ret
    BY <1>1 DEF SaveSame, SaveWrite, Applied
  <2>2. CASE mode = "boot"
    BY <2>1, <2>2, <1>0
  <2>3. CASE mode = "ready"
    BY <2>1, <2>3, <1>0
  <2>. QED  BY <2>2, <2>3
<1>2. CASE SaveTruncate("main")
  BY <1>2 DEF SaveTruncate
<1>3. CASE SaveFails("main")
  <2>1. /\ UNCHANGED <<se, mode, job, doomed>>
        /\ ram'["seed"] = IF job["main"].key = "seed" THEN job["main"].val
                                                      ELSE ram["seed"]
        /\ pc["main"] = "save"
        /\ pc'["shut"] = pc["shut"]
        /\ pc'["main"] = job["main"].ret
    BY <1>3, <1>0 DEF SaveFails, Keys
  <2>. QED  BY <2>1
<1>. QED  BY <1>1, <1>2, <1>3

LEMMA FlagFlash ==
  ASSUME TypeInv, FlagParts, ~doomed,
         \/ IdTear("main") \/ IdWrite("main") \/ IdClear("main")
         \/ SetTear("main") \/ SetWrite("main") \/ SetClear("main")
         \/ NvmFails("main")
  PROVE  FlagParts'
<1>. USE FlagTypes DEF FlagParts, ShutOnlyBacksUp, BootFlag, ReadyFlag, Shared,
         FlagLabels, Goto, NextBlock, persistent, volatile, observed
<1>1. CASE IdTear("main")   BY <1>1 DEF IdTear
<1>2. CASE IdWrite("main")  BY <1>2 DEF IdWrite
<1>3. CASE IdClear("main")  BY <1>3 DEF IdClear
<1>4. CASE SetTear("main")  BY <1>4 DEF SetTear
<1>5. CASE SetWrite("main") BY <1>5 DEF SetWrite
<1>6. CASE SetClear("main") BY <1>6 DEF SetClear
<1>7. CASE NvmFails("main")
  <2>1. /\ UNCHANGED <<se, ram, mode, doomed>>
        /\ pc'["shut"] = pc["shut"] /\ job'["shut"] = job["shut"]
        /\ job'["main"].ret = job["main"].ret /\ job'["main"].key = job["main"].key
        /\ job'["main"].val = job["main"].val
    BY <1>7 DEF NvmFails
  <2>2. \/ pc["main"] = "setClear" /\ pc'["main"] = "idClear"
        \/ /\ pc["main"] \in {"idTear", "idWrite", "idClear"}
           /\ pc'["main"] = IF job["main"].key = "seed" THEN "save" ELSE job["main"].ret
        \/ /\ pc["main"] \in {"setTear", "setWrite"}
           /\ pc'["main"] = job["main"].ret
    BY <1>7 DEF NvmFails
  <2>. QED  BY <2>1, <2>2
<1>. QED  BY <1>1, <1>2, <1>3, <1>4, <1>5, <1>6, <1>7

LEMMA FlagHandler ==
  ASSUME TypeInv, FlagParts, ~doomed,
         \/ CleanDb("main") \/ ClearFlag("main") \/ SeWrite("main")
         \/ GetId("main") \/ CoinsVersion("main") \/ SaveCoin("main")
         \/ CoinsEnd("main") \/ Verify("main") \/ PairVersion("main")
         \/ PairCount("main") \/ SeDestroy("main") \/ FactoryReset("main")
         \/ KeepLang("main") \/ Done("main")
  PROVE  FlagParts'
<1>. USE FlagTypes DEF FlagParts, ShutOnlyBacksUp, BootFlag, ReadyFlag, Shared,
         FlagLabels, Goto, Call, Save, SetHaveSeed, NoJob,
         persistent, volatile, observed
<1>1. CASE CleanDb("main")       BY <1>1 DEF CleanDb
<1>2. CASE ClearFlag("main")     BY <1>2 DEF ClearFlag
<1>3. CASE SeWrite("main")       BY <1>3, ConstantsAssumption DEF SeWrite
<1>4. CASE GetId("main")         BY <1>4 DEF GetId
<1>5. CASE CoinsVersion("main")  BY <1>5 DEF CoinsVersion
<1>6. CASE SaveCoin("main")      BY <1>6 DEF SaveCoin
<1>7. CASE CoinsEnd("main")      BY <1>7 DEF CoinsEnd
<1>8. CASE Verify("main")        BY <1>8 DEF Verify
<1>9. CASE PairVersion("main")   BY <1>9 DEF PairVersion
<1>10. CASE PairCount("main")    BY <1>10 DEF PairCount
<1>11. CASE SeDestroy("main")    BY <1>11 DEF SeDestroy
<1>12. CASE FactoryReset("main") BY <1>12 DEF FactoryReset, Keys
<1>13. CASE KeepLang("main")     BY <1>13 DEF KeepLang
<1>14. CASE Done("main")         BY <1>14 DEF Done
<1>. QED  BY <1>1, <1>2, <1>3, <1>4, <1>5, <1>6, <1>7, <1>8, <1>9, <1>10,
             <1>11, <1>12, <1>13, <1>14

\* Before the case is opened, the second thread can only copy settings.
LEMMA FlagShut ==
  ASSUME TypeInv, FlagParts, ~doomed, Step("shut")
  PROVE  FlagParts'
<1>. USE FlagTypes DEF Goto, NextBlock, persistent, volatile, observed
<1>1. SetTear("shut") \/ SetWrite("shut") \/ NvmFails("shut")
  BY DEF Step, FlagParts, ShutOnlyBacksUp, SaveSame, SaveTruncate, SaveWrite,
         SaveFails, IdTear, IdWrite, IdClear, SetClear, CleanDb, ClearFlag,
         SeWrite, GetId, CoinsVersion, SaveCoin, CoinsEnd, Verify, PairVersion,
         PairCount, SeDestroy, FactoryReset, KeepLang, Done
<1>2. /\ UNCHANGED <<se, ram, mode, doomed>>
      /\ pc'["main"] = pc["main"] /\ job'["main"] = job["main"]
      /\ job'["shut"].ret = job["shut"].ret
      /\ pc["shut"] # "idle"
      /\ pc'["shut"] \in {"setTear", "setWrite", job["shut"].ret}
  BY <1>1 DEF SetTear, SetWrite, NvmFails, FlagParts, ShutOnlyBacksUp
<1>. QED  BY <1>2 DEF FlagParts, ShutOnlyBacksUp, BootFlag, ReadyFlag, Shared,
                      FlagLabels

LEMMA FlagStartUp ==
  ASSUME TypeInv, FlagParts, StartUp
  PROVE  FlagParts'
<1>. USE FlagTypes DEF FlagParts, ShutOnlyBacksUp, BootFlag, ReadyFlag, Shared,
         FlagLabels, Goto, Call, SetHaveSeed, SaveIdOnly, NoJob,
         persistent, volatile, observed
<1>1. CASE SettingsInit  BY <1>1 DEF SettingsInit
<1>2. CASE SeCheck       BY <1>2 DEF SeCheck
<1>3. CASE SeInitFails   BY <1>3 DEF SeInitFails
<1>4. CASE AppInited     BY <1>4 DEF AppInited
<1>. QED  BY <1>1, <1>2, <1>3, <1>4 DEF StartUp

LEMMA FlagUser ==
  ASSUME TypeInv, FlagParts, User \/ HwBreak \/ Backup \/ Crash
  PROVE  FlagParts'
<1>. USE FlagTypes DEF FlagParts, ShutOnlyBacksUp, BootFlag, ReadyFlag, Shared,
         FlagLabels, Goto, Call, NoJob, Begin, persistent, volatile, observed
<1>1. CASE StoreSeed        BY <1>1 DEF StoreSeed
<1>2. CASE GuideClean       BY <1>2 DEF GuideClean
<1>3. CASE StorePassphrase  BY <1>3 DEF StorePassphrase
<1>4. CASE DestroySeed      BY <1>4 DEF DestroySeed
<1>5. CASE PairApp          BY <1>5 DEF PairApp
<1>6. CASE ChangeSetting    BY <1>6 DEF ChangeSetting
<1>7. CASE HwBreak          BY <1>7 DEF HwBreak
<1>8. CASE Backup           BY <1>8 DEF Backup
<1>9. CASE Crash            BY <1>9 DEF Crash
<1>. QED  BY <1>1, <1>2, <1>3, <1>4, <1>5, <1>6, <1>7, <1>8, <1>9 DEF User

LEMMA FlagNext == TypeInv /\ FlagParts /\ [Next]_vars => FlagParts'
<1>. SUFFICES ASSUME TypeInv, FlagParts, [Next]_vars PROVE FlagParts'
  OBVIOUS
<1>1. ASSUME NEW t \in Threads, Step(t) PROVE FlagParts'
  <2>1. CASE doomed
    <3>1. UNCHANGED <<doomed, mode>>
      BY <1>1 DEF Step, SaveSame, SaveTruncate, SaveWrite, SaveFails, IdTear,
         IdWrite, IdClear, SetTear, SetWrite, SetClear, NvmFails, CleanDb, ClearFlag,
         SeWrite, GetId, CoinsVersion, SaveCoin, CoinsEnd, Verify, PairVersion,
         PairCount, SeDestroy, FactoryReset, KeepLang, Done
    <3>. QED  BY <2>1, <3>1, FlagStepDoomed
  <2>2. CASE ~doomed /\ t = "shut"
    BY <1>1, <2>2, FlagShut
  <2>3. CASE ~doomed /\ t = "main"
    BY <1>1, <2>3, FlagSave, FlagFlash, FlagHandler DEF Step
  <2>. QED  BY <2>1, <2>2, <2>3 DEF Threads
<1>2. CASE UNCHANGED vars
  BY <1>2 DEF vars, persistent, volatile, FlagParts, ShutOnlyBacksUp, BootFlag,
              ReadyFlag, Shared, FlagLabels
<1>. QED  BY <1>1, <1>2, FlagStartUp, FlagUser DEF Next

\* A running device that says it has a wallet has a seed, after any number of
\* power losses, SE errors and failed writes, in the middle of every handler.
THEOREM FlagIsSound == Spec => []SeedFlagSound
<1>. DEFINE FlagInv == TypeInv /\ FlagParts
<1>1. Init => FlagInv
  BY TypeInit, FlagInit
<1>2. FlagInv /\ [Next]_vars => FlagInv'
  BY TypeNext, FlagNext
<1>3. FlagInv => SeedFlagSound
  BY DEF FlagParts, ReadyFlag, SeedFlagSound
<1>. QED  BY <1>1, <1>2, <1>3, PTL DEF Spec
-----------------------------------------------------------------------------
(* The account record.                                                     *)

Recorded == se # NoId /\ ReadSeedAccount = se

\* The account of the seed is being written, block 0 first.
WritesRecord ==
  /\ job["main"].id = se /\ se # NoId
  /\ job["main"].blk = 1 => nvmId[0] = se

\* What start-up leaves: the record of the SE's account, or none because it
\* could not be written.
Settled ==
  /\ se # NoId
  /\ ReadSeedAccount \in {NoId, se}
  /\ ReadSeedAccount = NoId => refused

\* Start-up writes a missing record for the seed the SE holds and lets no
\* other record of a wallet pass.
BootRecord ==
  mode = "boot" =>
    /\ pc["main"] \in {"idTear", "idWrite"} /\ job["main"].key = "none"
         => WritesRecord /\ (job["main"].blk = 0 => ReadSeedAccount = NoId)
    /\ pc["main"] = "up" /\ ram["seed"] = 1 => Settled

RefusedByFault == refused => Faults

\* While no seed is being exchanged, a device that has a wallet has its
\* record; the flag is raised behind the record and lowered before it goes.
ReadyRecord ==
  mode = "ready" /\ ~doomed =>
    /\ pc["main"] \in {"idTear", "idWrite"} =>
         WritesRecord /\ job["main"].key = "seed"
    /\ pc["main"] = "idClear" =>
         IF job["main"].key = "seed" THEN job["main"].val = 0 ELSE ram["seed"] = 0
    /\ pc["main"] \in {"save", "write"} /\ job["main"].key = "seed"
         => job["main"].val = 0 \/ Recorded
    /\ pc["main"] = "setClear" => ram["seed"] = 0
    /\ pc["main"] \notin {"getId", "idTear", "idWrite", "idClear"}
         /\ ~(pc["main"] \in {"save", "write"} /\ job["main"].key = "seed")
         => ram["seed"] = 0 \/ Recorded

\* Start-up after the one power loss finds the flag or the record that
\* brings it back.
BootKeeps ==
  mode = "boot" /\ committed # NoId /\ since <= 1 =>
    /\ since = 1 /\ se = committed
    /\ pc["main"] \in {"init", "seInit", "up", "save", "write", "idTear",
                       "idWrite", "setTear", "setWrite"}
    /\ pc["main"] \in Shared =>
         job["main"].ret = "seInit" /\ job["main"].key = "seed"
                                    /\ job["main"].val = 1
    /\ IF pc["main"] \in {"idTear", "idWrite"} THEN WritesRecord ELSE Recorded
    /\ pc["main"] \in {"seInit", "up", "setTear", "setWrite"} => ram["seed"] = 1

\* From the report to the next seed, only settings and coins are written.
ReadyKeeps ==
  mode = "ready" /\ committed # NoId /\ since <= 1 =>
    /\ ~doomed /\ se = committed /\ Recorded /\ ram["seed"] = 1
    /\ op["main"] \in {"none", "set", "pair", "pairAgain"}
    /\ pc["main"] \in {"idle", "save", "write", "pairVersion", "coinsVersion",
                       "saveCoin", "pairCount", "done"}
    /\ pc["main"] \in {"save", "write"} =>
         job["main"].key # "seed" /\ job["main"].ret \in {"saveCoin", "done"}

\* A pairing fills the table anew if it finds it empty.
PairFills ==
  mode = "ready" /\ ~doomed /\ op["main"] \in {"pair", "pairAgain"} =>
    /\ ram["seed"] = 1
    /\ pc["main"] \in {"save", "write", "pairVersion", "coinsVersion",
                       "saveCoin", "pairCount", "done"}
    /\ pc["main"] \in {"save", "write"} =>
         /\ job["main"].key = "coins" /\ job["main"].ret = "saveCoin"
         /\ left = Coins
    /\ pc["main"] = "saveCoin" => left = Coins \/ db # {}
    /\ pc["main"] = "pairVersion" => op["main"] = "pair"
    /\ pc["main"] = "done" => db # {}

PairIsPaired ==
  mode = "ready" /\ ~doomed /\ pc["main"] \in {"pairVersion", "pairCount"}
    => op["main"] \in {"pair", "pairAgain"}

LEMMA RecordStays ==
  ASSUME UNCHANGED <<se, nvmId>>
  PROVE  (Recorded' <=> Recorded) /\ ReadSeedAccount' = ReadSeedAccount
BY DEF Recorded, ReadSeedAccount, ReadNvm

\* No step of a handler starts or ends the start-up.
LEMMA StepKeepsMode ==
  ASSUME NEW t \in Threads, Step(t)
  PROVE  UNCHANGED <<mode, doomed, crashes>>
BY DEF Step, NvmFails, SaveSame, SaveTruncate, SaveWrite, SaveFails, IdTear, IdWrite,
       IdClear, SetTear, SetWrite, SetClear, CleanDb, ClearFlag, SeWrite, GetId,
       CoinsVersion, SaveCoin, CoinsEnd, Verify, PairVersion, PairCount,
       SeDestroy, FactoryReset, KeepLang, Done, observed

\* Start-up runs alone and only saves settings and writes the flash.
LEMMA BootSteps ==
  ASSUME TypeInv, FlagParts, mode = "boot", NEW t \in Threads, Step(t)
  PROVE  /\ t = "main"
         /\ \/ SaveSame(t) \/ SaveTruncate(t) \/ SaveWrite(t) \/ SaveFails(t)
            \/ IdTear(t) \/ IdWrite(t) \/ IdClear(t) \/ SetTear(t) \/ SetWrite(t)
            \/ NvmFails(t)
<1>1. t = "main"
  <2>1. pc["shut"] = "idle"
    BY DEF FlagParts, BootFlag
  <2>2. pc[t] # "idle"
    BY DEF Step, NvmFails, SaveSame, SaveTruncate, SaveWrite, SaveFails, IdTear,
       IdWrite, IdClear, SetTear, SetWrite, SetClear, CleanDb, ClearFlag, SeWrite, GetId,
       CoinsVersion, SaveCoin, CoinsEnd, Verify, PairVersion, PairCount,
       SeDestroy, FactoryReset, KeepLang, Done
  <2>. QED  BY <2>1, <2>2 DEF Threads
<1>2. pc["main"] \in {"init", "seInit", "up", "setTear", "setWrite"} \cup FlagLabels
  BY DEF FlagParts, BootFlag
<1>. QED
  BY <1>1, <1>2 DEF FlagLabels, Step, SetClear, CleanDb, ClearFlag, SeWrite,
     GetId, CoinsVersion, SaveCoin, CoinsEnd, Verify, PairVersion, PairCount,
     SeDestroy, FactoryReset, KeepLang, Done

\* Before the case is opened, shutdownLoop touches nothing but the backup.
LEMMA ShutSteps ==
  ASSUME TypeInv, FlagParts, ~doomed, Step("shut")
  PROVE  /\ UNCHANGED <<se, nvmId, ram, db, left, op, mode, doomed, committed,
                        since>>
         /\ pc'["main"] = pc["main"] /\ job'["main"] = job["main"]
<1>1. SetTear("shut") \/ SetWrite("shut") \/ NvmFails("shut")
  BY DEF Step, FlagParts, ShutOnlyBacksUp, SaveSame, SaveTruncate, SaveWrite,
         SaveFails, IdTear, IdWrite, IdClear, SetClear, CleanDb, ClearFlag,
         SeWrite, GetId, CoinsVersion, SaveCoin, CoinsEnd, Verify, PairVersion,
         PairCount, SeDestroy, FactoryReset, KeepLang, Done
<1>. QED
  BY <1>1, FlagTypes DEF SetTear, SetWrite, NvmFails, Goto, NextBlock, volatile,
     observed, FlagParts, ShutOnlyBacksUp

LEMMA BootRecordStep ==
  ASSUME TypeInv, FlagParts, BootRecord, mode = "boot", NEW t \in Threads, Step(t)
  PROVE  BootRecord'
<1>. USE FlagTypes, RecordStays DEF FlagParts, BootFlag, Shared, FlagLabels,
         BootRecord, WritesRecord, Goto, NextBlock, volatile, persistent, observed
<1>1. t = "main" /\ UNCHANGED mode
  BY BootSteps, StepKeepsMode
<1>2. CASE SaveSame(t) \/ SaveWrite(t)
  BY <1>1, <1>2 DEF SaveSame, SaveWrite, Applied
<1>3. CASE SaveTruncate(t)
  BY <1>1, <1>3 DEF SaveTruncate
<1>4. CASE SaveFails(t)
  <2>1. ram'["seed"] = IF job["main"].key = "seed" THEN job["main"].val
                                                   ELSE ram["seed"]
    BY <1>1, <1>4 DEF SaveFails, Keys
  <2>2. pc'["main"] = job["main"].ret /\ pc["main"] = "save"
    BY <1>1, <1>4 DEF SaveFails
  <2>. QED  BY <1>1, <2>1, <2>2
<1>5. CASE IdTear(t)
  <2>1. /\ UNCHANGED <<se, job, ram>> /\ pc["main"] = "idTear"
        /\ pc'["main"] = "idWrite"
        /\ \E v \in Tear(nvmId[job["main"].blk]) :
              nvmId' = [nvmId EXCEPT ![job["main"].blk] = v]
    BY <1>1, <1>5 DEF IdTear
  <2>2. CASE job["main"].key = "none" /\ job["main"].blk = 0
    <3>1. nvmId[0] \in IdBlock /\ ReadSeedAccount = NoId
      BY <2>1, <2>2 DEF TypeInv, TypeOK
    <3>2. nvmId'[0] = Torn \/ (nvmId[0] # Blank /\ nvmId'[0] = nvmId[0])
      BY <2>1, <2>2 DEF Tear, TypeInv, TypeOK
    <3>3. ReadSeedAccount' = NoId
      BY <3>1, <3>2, ConstantsAssumption DEF ReadSeedAccount, ReadNvm
    <3>. QED  BY <1>1, <2>1, <2>2, <3>3
  <2>3. CASE job["main"].key = "none" /\ job["main"].blk = 1
    <3>1. nvmId'[0] = nvmId[0]
      BY <2>1, <2>3 DEF TypeInv, TypeOK
    <3>. QED  BY <1>1, <2>1, <2>3, <3>1
  <2>. QED  BY <1>1, <2>1, <2>2, <2>3, JobType
<1>6. CASE IdWrite(t)
  <2>1. CASE job["main"].key = "none"
    <3>1. WritesRecord
      BY <1>1, <1>6, <2>1 DEF IdWrite
    <3>2. nvmId'[0] = se /\ UNCHANGED se
      BY <1>1, <1>6, <3>1, JobType DEF IdWrite, TypeInv, TypeOK
    <3>3. TypeInv'
      BY <1>6, TypeFlash
    <3>4. Settled'
      BY <3>1, <3>2, <3>3, ConstantsAssumption
         DEF Settled, ReadSeedAccount, ReadNvm, TypeInv, TypeOK
    <3>5. job'["main"].id = job["main"].id
      BY <1>1, <1>6 DEF IdWrite
    <3>6. pc'["main"] = "idTear" => job'["main"].blk # 0
      BY <1>1, <1>6, <2>1, JobType DEF IdWrite
    <3>7. pc'["main"] \in {"idTear", "up"}
      BY <1>1, <1>6, <2>1 DEF IdWrite
    <3>. QED  BY <1>1, <3>1, <3>2, <3>4, <3>5, <3>6, <3>7
  <2>2. CASE job["main"].key # "none"
    BY <1>1, <1>6, <2>2 DEF IdWrite
  <2>. QED  BY <2>1, <2>2
<1>7. CASE IdClear(t)
  BY <1>1, <1>7 DEF IdClear
<1>8. CASE SetTear(t)
  BY <1>1, <1>8 DEF SetTear
<1>9. CASE SetWrite(t)
  BY <1>1, <1>9 DEF SetWrite
<1>10. CASE NvmFails(t)
  <2>1. /\ UNCHANGED <<se, ram>> /\ job'["main"].key = job["main"].key
        /\ pc'["main"] \in {"save", job["main"].ret}
    BY <1>1, <1>10 DEF NvmFails
  <2>2. CASE pc["main"] \in {"idTear", "idWrite"} /\ job["main"].key = "none"
    <3>1. WritesRecord /\ (job["main"].blk = 0 => ReadSeedAccount = NoId)
      BY <2>2
    <3>2. UNCHANGED nvmId
      BY <1>1, <1>10, <2>2 DEF NvmFails
    <3>3. job["main"].blk = 0 => refused'
      BY <1>1, <1>10, <2>2 DEF NvmFails
    <3>4. job["main"].blk = 1 => ReadSeedAccount = se
      BY <3>1, ConstantsAssumption DEF ReadSeedAccount, ReadNvm, TypeInv, TypeOK
    <3>5. ReadSeedAccount' = ReadSeedAccount /\ se # NoId
      BY <2>1, <3>1, <3>2
    <3>7. job["main"].blk \in {0, 1}
      BY JobType, <1>1 DEF TypeInv
    <3>8. Settled'
      BY <2>1, <3>1, <3>3, <3>4, <3>5, <3>7 DEF Settled
    <3>6. pc'["main"] = "up"
      BY <1>1, <1>10, <2>2 DEF NvmFails
    <3>. QED  BY <1>1, <3>6, <3>8
  <2>3. CASE pc["main"] \in {"idTear", "idWrite", "idClear"} /\ job["main"].key = "seed"
    <3>1. pc'["main"] = "save"
      BY <1>1, <1>10, <2>3 DEF NvmFails
    <3>. QED  BY <1>1, <3>1
  <2>4. CASE pc["main"] \in {"setTear", "setWrite"}
    <3>1. pc'["main"] = job["main"].ret
      BY <1>1, <1>10, <2>4 DEF NvmFails
    <3>2. job["main"].ret = "seInit" \/ (job["main"].ret = "up" /\ ram["seed"] = 0)
      BY <1>1, <2>4
    <3>. QED  BY <1>1, <2>1, <3>1, <3>2
  <2>5. pc["main"] \in {"idTear", "idWrite", "idClear", "setTear", "setWrite"}
    BY <1>1, <1>10 DEF NvmFails
  <2>6. pc["main"] = "idClear" => job["main"].key = "seed"
    OBVIOUS
  <2>. QED  BY <1>1, <2>2, <2>3, <2>4, <2>5, <2>6
<1>. QED
  BY BootSteps, <1>2, <1>3, <1>4, <1>5, <1>6, <1>7, <1>8, <1>9, <1>10

LEMMA BootRecordStart ==
  ASSUME TypeInv, FlagParts, BootRecord, StartUp
  PROVE  BootRecord'
<1>. USE FlagTypes DEF BootRecord, WritesRecord, Goto, Call, NoJob, persistent,
         volatile, observed
<1>1. CASE SettingsInit
  BY <1>1 DEF SettingsInit, SetHaveSeed
<1>2. CASE SeCheck
  <2>1. UNCHANGED <<se, nvmId, ram>>
    BY <1>2 DEF SeCheck
  <2>2. CASE ram["seed"] = 1 /\ (se = NoId \/ ReadSeedAccount \notin {NoId, se})
    BY <1>2, <2>2 DEF SeCheck, SetHaveSeed
  <2>3. CASE ~(ram["seed"] = 1 /\ (se = NoId \/ ReadSeedAccount \notin {NoId, se}))
    <3>1. CASE ram["seed"] = 1 /\ ReadSeedAccount = NoId
      BY <1>2, <2>1, <2>3, <3>1, RecordStays DEF SeCheck, SaveIdOnly
    <3>2. CASE ~(ram["seed"] = 1 /\ ReadSeedAccount = NoId)
      <4>1. ram["seed"] = 1 => Recorded
        BY <2>3, <3>2 DEF Recorded
      <4>3. Recorded' => Settled'
        BY ConstantsAssumption, <1>2 DEF Recorded, Settled, TypeInv, TypeOK, SeCheck
      <4>2. pc'["main"] = "up"
        BY <1>2, <2>3, <3>2 DEF SeCheck
      <4>. QED  BY <2>1, <4>1, <4>2, <4>3, RecordStays
    <3>. QED  BY <3>1, <3>2
  <2>. QED  BY <2>2, <2>3
<1>3. CASE SeInitFails
  BY <1>3 DEF SeInitFails, SetHaveSeed
<1>4. CASE AppInited
  BY <1>4 DEF AppInited
<1>. QED  BY <1>1, <1>2, <1>3, <1>4 DEF StartUp

LEMMA BootRecordNext == TypeInv /\ FlagParts /\ BootRecord /\ [Next]_vars => BootRecord'
<1>. SUFFICES ASSUME TypeInv, FlagParts, BootRecord, [Next]_vars
              PROVE  BootRecord'
  OBVIOUS
<1>1. CASE mode' # "boot"
  BY <1>1 DEF BootRecord
<1>2. CASE mode' = "boot" /\ StartUp
  BY <1>2, BootRecordStart
<1>3. ASSUME mode' = "boot", NEW t \in Threads, Step(t)
      PROVE  BootRecord'
  BY <1>3, BootRecordStep, StepKeepsMode
<1>4. CASE mode' = "boot" /\ (User \/ HwBreak \/ Backup)
  BY <1>4 DEF User, HwBreak, Backup, StoreSeed, GuideClean, StorePassphrase,
              DestroySeed, PairApp, ChangeSetting, Begin
<1>5. CASE Crash
  BY <1>5 DEF Crash, BootRecord, Threads
<1>6. CASE UNCHANGED vars
  BY <1>6, RecordStays DEF vars, persistent, volatile, observed, BootRecord,
     WritesRecord, Settled
<1>. QED  BY <1>1, <1>2, <1>3, <1>4, <1>5, <1>6 DEF Next

LEMMA RefusedNext == RefusedByFault /\ [Next]_vars => RefusedByFault'
<1>. SUFFICES ASSUME RefusedByFault, [Next]_vars PROVE RefusedByFault'
  OBVIOUS
<1>. USE DEF RefusedByFault
<1>1. ASSUME NEW t \in Threads, Step(t) PROVE refused' = refused \/ Faults
  BY <1>1 DEF Step, NvmFails, SaveSame, SaveTruncate, SaveWrite, SaveFails, IdTear,
     IdWrite, IdClear, SetTear, SetWrite, SetClear, CleanDb, ClearFlag, SeWrite,
     GetId, CoinsVersion, SaveCoin, CoinsEnd, Verify, PairVersion, PairCount,
     SeDestroy, FactoryReset, KeepLang, Done, observed
<1>2. CASE StartUp
  BY <1>2 DEF StartUp, SettingsInit, SeCheck, SeInitFails, AppInited, observed
<1>3. CASE User \/ HwBreak \/ Backup
  BY <1>3 DEF User, HwBreak, Backup, StoreSeed, GuideClean, StorePassphrase,
     DestroySeed, PairApp, ChangeSetting, Begin, observed
<1>4. CASE Crash \/ UNCHANGED vars
  BY <1>4 DEF Crash, vars, observed
<1>. QED  BY <1>1, <1>2, <1>3, <1>4 DEF Next

RecordInv == TypeInv /\ FlagParts /\ BootRecord /\ RefusedByFault

LEMMA RecordInvInit == Init => RecordInv
<1>1. Init => BootRecord
  BY DEF Init, BootRecord, Threads
<1>2. Init => RefusedByFault
  BY DEF Init, RefusedByFault
<1>. QED  BY <1>1, <1>2, TypeInit, FlagInit DEF RecordInv

LEMMA RecordInvNext == RecordInv /\ [Next]_vars => RecordInv'
BY TypeNext, FlagNext, BootRecordNext, RefusedNext DEF RecordInv

\* A start-up that ends with a wallet ends with the record of the SE's account
\* and of no other, whatever earlier power losses, SE errors and failed writes
\* left behind; there is no record only if this start could not write it.
THEOREM StartUpAgrees == Spec => BootAgrees
<1>1. RecordInv /\ [Next]_vars =>
        [mode = "boot" /\ mode' = "ready" /\ ram'["seed"] = 1
           => /\ se' # NoId
              /\ ReadSeedAccount' \in {NoId, se'}
              /\ ReadSeedAccount' = NoId => refused']_vars
  <2>. SUFFICES ASSUME RecordInv, [Next]_vars, mode = "boot", mode' = "ready",
                       ram'["seed"] = 1
                PROVE  Settled'
    BY DEF Settled
  <2>1. AppInited
    <3>1. ASSUME NEW t \in Threads, Step(t) PROVE FALSE
      BY <3>1, StepKeepsMode
    <3>2. CASE SettingsInit \/ SeCheck \/ SeInitFails
      BY <3>2 DEF SettingsInit, SeCheck, SeInitFails
    <3>3. CASE User \/ HwBreak \/ Backup
      BY <3>3 DEF User, HwBreak, Backup, StoreSeed, GuideClean, StorePassphrase,
                  DestroySeed, PairApp, ChangeSetting, Begin
    <3>4. CASE Crash \/ UNCHANGED vars
      BY <3>4 DEF Crash, vars
    <3>. QED  BY <3>1, <3>2, <3>3, <3>4 DEF Next, StartUp
  <2>2. Settled /\ UNCHANGED <<se, nvmId, refused>>
    BY <2>1 DEF AppInited, RecordInv, BootRecord, persistent, volatile, observed
  <2>. QED  BY <2>2, RecordStays DEF Settled
<1>. QED  BY <1>1, RecordInvInit, RecordInvNext, PTL DEF Spec, BootAgrees

-----------------------------------------------------------------------------
(* The record between two handlers.                                        *)

\* The steps of the main thread's handlers on the record and the flag.
LEMMA ReadyRecordSave ==
  ASSUME TypeInv, FlagParts, ReadyRecord, ~Faults, mode = "ready", ~doomed,
         \/ SaveSame("main") \/ SaveTruncate("main") \/ SaveWrite("main")
         \/ SaveFails("main")
  PROVE  ReadyRecord'
<1>. USE FlagTypes DEF ReadyRecord, WritesRecord, Goto, persistent, volatile,
         observed, FlagLabels
<1>1. CASE SaveSame("main") \/ SaveWrite("main")
  <2>1. /\ UNCHANGED <<se, nvmId, mode, job, doomed>>
        /\ ram' = [ram EXCEPT ![job["main"].key] = job["main"].val]
        /\ pc["main"] \in {"save", "write"}
        /\ pc'["main"] = job["main"].ret
    BY <1>1 DEF SaveSame, SaveWrite, Applied
  <2>2. ram'["seed"] = IF job["main"].key = "seed" THEN job["main"].val
                                                   ELSE ram["seed"]
    BY <2>1 DEF Keys
  <2>3. ram'["seed"] = 0 \/ Recorded
    BY <2>1, <2>2
  <2>. QED  BY <2>1, <2>3, RecordStays
<1>2. CASE SaveTruncate("main")
  BY <1>2, RecordStays DEF SaveTruncate
<1>3. CASE SaveFails("main")
  BY <1>3 DEF SaveFails
<1>. QED  BY <1>1, <1>2, <1>3

LEMMA ReadyRecordFlash ==
  ASSUME TypeInv, FlagParts, ReadyRecord, ~Faults, mode = "ready", ~doomed,
         \/ IdTear("main") \/ IdWrite("main") \/ IdClear("main")
         \/ SetTear("main") \/ SetWrite("main") \/ SetClear("main")
  PROVE  ReadyRecord'
<1>. USE FlagTypes DEF ReadyRecord, WritesRecord, Goto, NextBlock, persistent,
         volatile, observed, FlagLabels
<1>1. CASE IdTear("main")
  BY <1>1 DEF IdTear, TypeInv, TypeOK
<1>2. CASE IdWrite("main")
  <2>1. WritesRecord /\ job["main"].key = "seed"
    BY <1>2 DEF IdWrite
  <2>2. nvmId'[0] = se /\ UNCHANGED <<se, mode, doomed>>
    BY <1>2, <2>1, JobType DEF IdWrite, TypeInv, TypeOK
  <2>3. TypeInv'
    BY <1>2, TypeFlash
  <2>4. Recorded'
    BY <2>1, <2>2, <2>3, ConstantsAssumption
       DEF Recorded, ReadSeedAccount, ReadNvm, TypeInv, TypeOK
  <2>5. job'["main"].id = job["main"].id /\ job'["main"].key = job["main"].key
    BY <1>2 DEF IdWrite
  <2>6. pc'["main"] \in {"idTear", "save"}
    BY <1>2, <2>1 DEF IdWrite
  <2>. QED  BY <2>1, <2>2, <2>4, <2>5, <2>6
<1>3. CASE IdClear("main")
  <2>1. /\ pc'["main"] \in {"idClear", "save", job["main"].ret}
        /\ pc'["main"] = "save" <=> (job["main"].blk # 0 /\ job["main"].key = "seed")
        /\ job["main"].blk # 0 /\ job["main"].key = "seed" => pc'["main"] = "save"
        /\ UNCHANGED <<ram, mode, doomed>>
        /\ job'["main"].key = job["main"].key /\ job'["main"].val = job["main"].val
    BY <1>3 DEF IdClear
  <2>. QED  BY <1>3, <2>1 DEF IdClear
<1>4. CASE SetTear("main")
  BY <1>4 DEF SetTear, FlagParts, ReadyFlag
<1>5. CASE SetWrite("main")
  BY <1>5 DEF SetWrite, FlagParts, ReadyFlag
<1>6. CASE SetClear("main")
  BY <1>6 DEF SetClear, FlagParts, ReadyFlag
<1>. QED  BY <1>1, <1>2, <1>3, <1>4, <1>5, <1>6

LEMMA ReadyRecordHandler ==
  ASSUME TypeInv, FlagParts, ReadyRecord, ~Faults, mode = "ready", ~doomed,
         \/ CleanDb("main") \/ ClearFlag("main") \/ SeWrite("main")
         \/ GetId("main") \/ CoinsVersion("main") \/ SaveCoin("main")
         \/ CoinsEnd("main") \/ Verify("main") \/ PairVersion("main")
         \/ PairCount("main") \/ SeDestroy("main") \/ FactoryReset("main")
         \/ KeepLang("main") \/ Done("main")
  PROVE  ReadyRecord'
<1>. USE FlagTypes, RecordStays DEF FlagParts, ReadyFlag, Shared, FlagLabels,
         ReadyRecord, WritesRecord, Goto, Call, Save, SetHaveSeed, NoJob,
         persistent, volatile, observed
<1>1. CASE CleanDb("main")       BY <1>1 DEF CleanDb
<1>2. CASE ClearFlag("main")     BY <1>2 DEF ClearFlag
<1>3. CASE SeWrite("main")       BY <1>3 DEF SeWrite
<1>4. CASE GetId("main")
  <2>1. CASE se = NoId
    <3>1. ram["seed"] \in {0, 1}
      BY DEF TypeInv, TypeOK, Setting, Keys
    <3>. QED  BY <1>4, <2>1, <3>1 DEF GetId
  <2>2. CASE se # NoId
    <3>1. /\ pc'["main"] = "idTear"
          /\ job'["main"].id = se /\ job'["main"].blk = 0
          /\ job'["main"].key = "seed"
      BY <1>4, <2>2 DEF GetId
    <3>2. UNCHANGED <<se, nvmId, ram>>
      BY <1>4 DEF GetId
    <3>. QED  BY <2>2, <3>1, <3>2
  <2>. QED  BY <2>1, <2>2
<1>5. CASE CoinsVersion("main")  BY <1>5 DEF CoinsVersion
<1>6. CASE SaveCoin("main")      BY <1>6 DEF SaveCoin
<1>7. CASE CoinsEnd("main")      BY <1>7 DEF CoinsEnd
<1>8. CASE Verify("main")        BY <1>8 DEF Verify
<1>9. CASE PairVersion("main")   BY <1>9 DEF PairVersion
<1>10. CASE PairCount("main")    BY <1>10 DEF PairCount
<1>11. CASE SeDestroy("main")    BY <1>11 DEF SeDestroy
<1>12. CASE FactoryReset("main") BY <1>12 DEF FactoryReset, Keys
<1>13. CASE KeepLang("main")     BY <1>13 DEF KeepLang
<1>14. CASE Done("main")         BY <1>14 DEF Done
<1>. QED  BY <1>1, <1>2, <1>3, <1>4, <1>5, <1>6, <1>7, <1>8, <1>9, <1>10,
             <1>11, <1>12, <1>13, <1>14

LEMMA ReadyRecordNext ==
  ASSUME ~Faults, RecordInv, ReadyRecord, [Next]_vars
  PROVE  ReadyRecord'
<1>. USE DEF RecordInv
<1>1. CASE mode' # "ready" \/ doomed'
  BY <1>1 DEF ReadyRecord
<1>2. ASSUME mode' = "ready", ~doomed', NEW t \in Threads, Step(t)
      PROVE  ReadyRecord'
  <2>1. mode = "ready" /\ ~doomed
    BY <1>2, StepKeepsMode
  <2>2. CASE t = "shut"
    BY <1>2, <2>1, <2>2, ShutSteps, RecordStays DEF ReadyRecord, WritesRecord
  <2>3. CASE t = "main"
    BY <1>2, <2>1, <2>3, ReadyRecordSave, ReadyRecordFlash, ReadyRecordHandler
       DEF Step, NvmFails
  <2>. QED  BY <2>2, <2>3 DEF Threads
<1>3. CASE mode' = "ready" /\ ~doomed' /\ StartUp
  <2>1. CASE AppInited
    <3>1. mode = "boot" /\ pc["main"] = "up" /\ UNCHANGED <<se, nvmId, ram>>
      BY <1>3, <2>1, FlagTypes DEF AppInited, FlagParts, ReadyFlag, persistent,
         volatile
    <3>2. ram["seed"] \in {0, 1}
      BY DEF TypeInv, TypeOK, Setting, Keys
    <3>3. ram'["seed"] = 0 \/ Recorded'
      BY <3>1, <3>2, RecordStays DEF BootRecord, Settled, RefusedByFault, Recorded
    <3>4. pc'["main"] = "idle"
      BY <2>1, FlagTypes DEF AppInited, Call, Goto
    <3>. QED  BY <3>3, <3>4 DEF ReadyRecord
  <2>2. CASE SettingsInit \/ SeCheck \/ SeInitFails
    BY <1>3, <2>2 DEF SettingsInit, SeCheck, SeInitFails, FlagParts, ReadyFlag
  <2>. QED  BY <1>3, <2>1, <2>2 DEF StartUp
<1>4. CASE mode' = "ready" /\ ~doomed' /\ (User \/ HwBreak \/ Backup)
  <2>. USE FlagTypes, RecordStays DEF ReadyRecord, Goto, Begin, NoJob,
           persistent, volatile, observed
  <2>1. CASE StoreSeed         BY <1>4, <2>1 DEF StoreSeed
  <2>2. CASE GuideClean        BY <1>4, <2>2 DEF GuideClean
  <2>3. CASE StorePassphrase   BY <1>4, <2>3 DEF StorePassphrase
  <2>4. CASE DestroySeed       BY <1>4, <2>4 DEF DestroySeed
  <2>5. CASE PairApp           BY <1>4, <2>5 DEF PairApp
  <2>6. CASE ChangeSetting     BY <1>4, <2>6 DEF ChangeSetting
  <2>7. CASE HwBreak           BY <1>4, <2>7 DEF HwBreak
  <2>8. CASE Backup
    BY <1>4, <2>8 DEF Backup, Call, WritesRecord
  <2>. QED  BY <1>4, <2>1, <2>2, <2>3, <2>4, <2>5, <2>6, <2>7, <2>8 DEF User
<1>5. CASE Crash
  BY <1>5 DEF Crash, ReadyRecord
<1>6. CASE UNCHANGED vars
  BY <1>6, RecordStays DEF vars, persistent, volatile, ReadyRecord, WritesRecord
<1>. QED  BY <1>1, <1>2, <1>3, <1>4, <1>5, <1>6 DEF Next

\* Where commands and writes do not fail, a device with a wallet has the
\* readable record of its account between any two handlers, destroying and
\* resetting included, after any number of power losses.
THEOREM RecordIsTheAccounts ==
  ASSUME ~Faults PROVE Spec => []RecordAgrees
<1>. DEFINE Inv == RecordInv /\ ReadyRecord
<1>1. Init => Inv
  BY RecordInvInit DEF Init, ReadyRecord
<1>2. Inv /\ [Next]_vars => Inv'
  BY RecordInvNext, ReadyRecordNext
<1>3. Inv => RecordAgrees
  BY DEF RecordAgrees, ReadyRecord, Recorded
<1>. QED  BY <1>1, <1>2, <1>3, PTL DEF Spec

-----------------------------------------------------------------------------
(* What was reported as stored survives one power loss.                    *)

LEMMA BootKeepsStep ==
  ASSUME ~Faults, RecordInv, BootKeeps, mode = "boot", committed # NoId,
         since <= 1, NEW t \in Threads, Step(t)
  PROVE  BootKeeps'
<1>. USE FlagTypes, RecordStays DEF RecordInv, BootKeeps, WritesRecord, Shared,
         FlagLabels, Goto, NextBlock, volatile, persistent, observed
<1>1. t = "main" /\ UNCHANGED mode
  BY BootSteps, StepKeepsMode
<1>2. CASE SaveSame(t) \/ SaveWrite(t)
  <2>1. /\ UNCHANGED <<se, nvmId, mode, job, observed>>
        /\ ram' = [ram EXCEPT ![job["main"].key] = job["main"].val]
        /\ pc["main"] \in {"save", "write"}
        /\ pc'["main"] = "setTear"
    BY <1>1, <1>2 DEF SaveSame, SaveWrite, Applied
  <2>2. ram'["seed"] = 1
    BY <2>1 DEF Keys
  <2>. QED  BY <2>1, <2>2
<1>3. CASE SaveTruncate(t)
  BY <1>1, <1>3 DEF SaveTruncate
<1>4. CASE SaveFails(t)
  BY <1>4 DEF SaveFails
<1>5. CASE IdTear(t)
  BY <1>1, <1>5 DEF IdTear, TypeInv, TypeOK
<1>6. CASE IdWrite(t)
  <2>1. WritesRecord /\ job["main"].key = "seed"
    BY <1>1, <1>6 DEF IdWrite
  <2>2. nvmId'[0] = se /\ UNCHANGED <<se, mode, observed>>
    BY <1>1, <1>6, <2>1, JobType DEF IdWrite, TypeInv, TypeOK
  <2>3. TypeInv'
    BY <1>6, TypeFlash
  <2>4. Recorded'
    BY <2>1, <2>2, <2>3, ConstantsAssumption
       DEF Recorded, ReadSeedAccount, ReadNvm, TypeInv, TypeOK
  <2>5. /\ job'["main"].id = job["main"].id /\ job'["main"].key = job["main"].key
        /\ job'["main"].ret = job["main"].ret
        /\ job'["main"].val = job["main"].val
    BY <1>1, <1>6 DEF IdWrite
  <2>6. pc'["main"] \in {"idTear", "save"}
    BY <1>1, <1>6, <2>1 DEF IdWrite
  <2>7. pc["main"] \in Shared
    BY <1>1, <1>6 DEF IdWrite
  <2>8. WritesRecord'
    BY <2>1, <2>2, <2>5 DEF WritesRecord
  <2>. QED  BY <2>2, <2>4, <2>5, <2>6, <2>7, <2>8
<1>7. CASE IdClear(t)
  BY <1>1, <1>7 DEF IdClear
<1>8. CASE SetTear(t)
  BY <1>1, <1>8 DEF SetTear
<1>9. CASE SetWrite(t)
  BY <1>1, <1>9 DEF SetWrite
<1>. QED
  BY BootSteps, <1>2, <1>3, <1>4, <1>5, <1>6, <1>7, <1>8, <1>9 DEF NvmFails

LEMMA BootKeepsStart ==
  ASSUME ~Faults, RecordInv, BootKeeps, mode = "boot", committed # NoId,
         since <= 1, StartUp
  PROVE  BootKeeps' /\ ReadyKeeps'
<1>. USE FlagTypes, RecordStays DEF RecordInv, BootKeeps, ReadyKeeps,
         WritesRecord, Shared, FlagLabels, Goto, Call, persistent, volatile,
         observed, FlagParts, BootFlag
<1>1. CASE SettingsInit
  <2>1. /\ UNCHANGED <<se, nvmId, mode, committed, since>>
        /\ pc["main"] = "init" /\ ram' = Loaded
    BY <1>1 DEF SettingsInit
  <2>2. Recorded /\ ReadSeedAccount # NoId /\ ReadSeedAccount = se
    BY <2>1 DEF Recorded
  <2>3. CASE Loaded["seed"] = 0
    <3>1. /\ pc'["main"] = "idTear"
          /\ job'["main"].ret = "seInit" /\ job'["main"].key = "seed"
          /\ job'["main"].val = 1 /\ job'["main"].id = se
          /\ job'["main"].blk = 0
      BY <1>1, <2>2, <2>3 DEF SettingsInit, SetHaveSeed
    <3>. QED  BY <2>1, <2>2, <3>1
  <2>4. CASE Loaded["seed"] # 0
    <3>1. Loaded["seed"] = 1
      BY <2>4, ReadType DEF TypeInv, Setting, Keys
    <3>2. pc'["main"] = "seInit"
      BY <1>1, <2>4 DEF SettingsInit
    <3>. QED  BY <2>1, <2>2, <3>1, <3>2
  <2>. QED  BY <2>3, <2>4
<1>2. CASE SeCheck
  <2>1. /\ UNCHANGED <<se, nvmId, ram, mode, committed, since>>
        /\ pc["main"] = "seInit"
    BY <1>2 DEF SeCheck
  <2>2. Recorded /\ ReadSeedAccount # NoId /\ ReadSeedAccount = se
    BY <2>1 DEF Recorded
  <2>3. pc'["main"] = "up"
    BY <1>2, <2>2 DEF SeCheck
  <2>. QED  BY <2>1, <2>2, <2>3
<1>3. CASE SeInitFails
  BY <1>3 DEF SeInitFails
<1>4. CASE AppInited
  <2>1. /\ UNCHANGED <<se, nvmId, ram, doomed, committed, since>>
        /\ pc["main"] = "up" /\ mode' = "ready"
        /\ pc'["main"] = "idle" /\ op'["main"] = "none"
    BY <1>4 DEF AppInited, TypeInv, TypeOK
  <2>. QED  BY <2>1
<1>. QED  BY <1>1, <1>2, <1>3, <1>4 DEF StartUp

\* The steps of a handler that may run behind a reported wallet.
LEMMA ReadyKeepsStep ==
  ASSUME ~Faults, RecordInv, ReadyKeeps, mode = "ready", committed # NoId,
         since <= 1, Step("main")
  PROVE  ReadyKeeps'
<1>. USE FlagTypes, RecordStays DEF RecordInv, ReadyKeeps, Goto, Call, Save,
         volatile, persistent, observed
<1>1. CASE SaveSame("main") \/ SaveWrite("main")
  <2>1. /\ UNCHANGED <<se, nvmId, mode, op, job, doomed, observed>>
        /\ ram' = [ram EXCEPT ![job["main"].key] = job["main"].val]
        /\ pc["main"] \in {"save", "write"}
        /\ pc'["main"] = job["main"].ret
    BY <1>1 DEF SaveSame, SaveWrite, Applied
  <2>2. ram'["seed"] = ram["seed"]
    BY <2>1 DEF Keys
  <2>. QED  BY <2>1, <2>2
<1>2. CASE SaveTruncate("main")
  BY <1>2 DEF SaveTruncate
<1>3. CASE CoinsVersion("main")
  BY <1>3 DEF CoinsVersion
<1>4. CASE SaveCoin("main")
  BY <1>4 DEF SaveCoin
<1>5. CASE CoinsEnd("main")
  BY <1>5 DEF CoinsEnd
<1>6. CASE PairVersion("main")
  BY <1>6 DEF PairVersion
<1>7. CASE PairCount("main")
  BY <1>7 DEF PairCount, TypeInv, TypeOK
<1>8. CASE Done("main")
  BY <1>8 DEF Done, TypeInv, TypeOK
<1>. QED
  BY <1>1, <1>2, <1>3, <1>4, <1>5, <1>6, <1>7, <1>8
     DEF Step, NvmFails, SaveFails, IdTear, IdWrite, IdClear, SetTear, SetWrite, SetClear,
         CleanDb, ClearFlag, SeWrite, GetId, Verify, SeDestroy, FactoryReset,
         KeepLang

\* A handler commits when it returns with the flag set, behind its record.
LEMMA ReadyKeepsDone ==
  ASSUME ~Faults, RecordInv, ReadyRecord, AccountIdFresh, mode = "ready",
         Done("main"), committed' # NoId, committed' # committed \/ since' # since
  PROVE  ReadyKeeps'
<1>1. /\ committed' = ramId /\ since' = 0 /\ ~doomed /\ ram["seed"] = 1
      /\ pc["main"] = "done"
  BY DEF Done
<1>2. ramId = se
  BY <1>1 DEF AccountIdFresh
<1>3. Recorded
  BY <1>1 DEF ReadyRecord
<1>4. /\ UNCHANGED <<se, nvmId, ram, doomed>>
      /\ pc'["main"] = "idle" /\ op'["main"] = "none"
  BY FlagTypes DEF Done, RecordInv, TypeInv, TypeOK, Call, Goto, persistent,
     volatile
<1>. QED  BY <1>1, <1>2, <1>3, <1>4, RecordStays DEF ReadyKeeps

\* What the user starts either leaves the report alone or withdraws it.
LEMMA ReadyKeepsUser ==
  ASSUME RecordInv, ReadyKeeps, mode = "ready", User \/ HwBreak \/ Backup,
         committed' # NoId, since' <= 1
  PROVE  ReadyKeeps'
<1>. USE FlagTypes, RecordStays DEF RecordInv, ReadyKeeps, Begin, Goto, Call,
         persistent, volatile, observed, NoJob, TypeInv, TypeOK
<1>1. CASE StoreSeed         BY <1>1 DEF StoreSeed
<1>2. CASE GuideClean        BY <1>2 DEF GuideClean
<1>3. CASE StorePassphrase   BY <1>3 DEF StorePassphrase
<1>4. CASE DestroySeed       BY <1>4 DEF DestroySeed
<1>5. CASE PairApp           BY <1>5 DEF PairApp
<1>6. CASE ChangeSetting     BY <1>6 DEF ChangeSetting
<1>7. CASE HwBreak           BY <1>7 DEF HwBreak
<1>8. CASE Backup            BY <1>8 DEF Backup
<1>. QED  BY <1>1, <1>2, <1>3, <1>4, <1>5, <1>6, <1>7, <1>8 DEF User

KeepsInv == RecordInv /\ ReadyRecord /\ AccountIdFresh /\ BootKeeps /\ ReadyKeeps

\* Only a handler that returns reports a wallet.
LEMMA OnlyDoneReports ==
  ASSUME ~Faults, NEW t \in Threads, Step(t), ~Done(t)
  PROVE  UNCHANGED observed
BY DEF Step, NvmFails, SaveSame, SaveTruncate, SaveWrite, SaveFails, IdTear, IdWrite,
       IdClear, SetTear, SetWrite, SetClear, CleanDb, ClearFlag, SeWrite, GetId,
       CoinsVersion, SaveCoin, CoinsEnd, Verify, PairVersion, PairCount,
       SeDestroy, FactoryReset, KeepLang

LEMMA ReadyKeepsNext ==
  ASSUME ~Faults, KeepsInv, [Next]_vars, mode' = "ready", committed' # NoId,
         since' <= 1
  PROVE  ReadyKeeps'
<1>. USE DEF KeepsInv
<1>1. ASSUME NEW t \in Threads, Step(t) PROVE ReadyKeeps'
  <2>1. mode = "ready" /\ UNCHANGED doomed
    BY <1>1, StepKeepsMode
  <2>2. CASE UNCHANGED <<committed, since>>
    <3>1. ~doomed
      BY <2>1, <2>2 DEF ReadyKeeps
    <3>2. CASE t = "shut"
      BY <1>1, <2>1, <2>2, <3>1, <3>2, ShutSteps, RecordStays
         DEF ReadyKeeps, RecordInv
    <3>3. CASE t = "main"
      BY <1>1, <2>1, <2>2, <3>3, ReadyKeepsStep
    <3>. QED  BY <3>2, <3>3 DEF Threads
  <2>3. CASE ~UNCHANGED <<committed, since>>
    <3>1. Done(t)
      BY <1>1, <2>3, OnlyDoneReports DEF observed
    <3>2. ~doomed
      BY <2>3, <3>1 DEF Done
    <3>3. t = "main"
      BY <3>1, <3>2 DEF Threads, RecordInv, FlagParts, ShutOnlyBacksUp, Done
    <3>. QED  BY <2>1, <2>3, <3>1, <3>3, ReadyKeepsDone
  <2>. QED  BY <2>2, <2>3
<1>2. CASE StartUp
  <2>1. CASE mode = "boot"
    <3>1. UNCHANGED <<committed, since>>
      BY <1>2 DEF StartUp, SettingsInit, SeCheck, SeInitFails, AppInited, observed
    <3>. QED  BY <1>2, <2>1, <3>1, BootKeepsStart
  <2>2. CASE mode # "boot"
    <3>1. mode = "ready"
      BY <2>2 DEF RecordInv, TypeInv, TypeOK
    <3>2. ~doomed /\ pc["main"] \notin {"init", "seInit", "up"}
      BY <1>2, <3>1 DEF ReadyKeeps, StartUp, SettingsInit, SeCheck, SeInitFails,
         AppInited, observed
    <3>. QED  BY <1>2, <3>2 DEF StartUp, SettingsInit, SeCheck, SeInitFails,
              AppInited
  <2>. QED  BY <2>1, <2>2
<1>3. CASE User \/ HwBreak \/ Backup
  <2>1. mode = "ready"
    BY <1>3 DEF User, HwBreak, Backup, StoreSeed, GuideClean, StorePassphrase,
       DestroySeed, PairApp, ChangeSetting, Begin
  <2>. QED  BY <1>3, <2>1, ReadyKeepsUser
<1>4. CASE Crash
  BY <1>4 DEF Crash
<1>5. CASE UNCHANGED vars
  BY <1>5, RecordStays DEF vars, persistent, volatile, observed, ReadyKeeps
<1>. QED  BY <1>1, <1>2, <1>3, <1>4, <1>5 DEF Next

LEMMA BootKeepsNext ==
  ASSUME ~Faults, KeepsInv, [Next]_vars, mode' = "boot", committed' # NoId,
         since' <= 1
  PROVE  BootKeeps'
<1>. USE DEF KeepsInv
<1>1. ASSUME NEW t \in Threads, Step(t) PROVE BootKeeps'
  <2>1. mode = "boot"
    BY <1>1, StepKeepsMode
  <2>2. ~Done(t)
    <3>1. CASE t = "shut"
      BY <1>1, <2>1, <3>1, BootSteps DEF RecordInv
    <3>2. CASE t = "main"
      BY <2>1, <3>2 DEF Done, RecordInv, FlagParts, BootFlag, FlagLabels
    <3>. QED  BY <3>1, <3>2 DEF Threads
  <2>3. UNCHANGED observed
    BY <1>1, <2>2, OnlyDoneReports
  <2>. QED  BY <1>1, <2>1, <2>3, BootKeepsStep DEF observed
<1>2. CASE StartUp
  <2>1. mode = "boot" /\ UNCHANGED <<committed, since>>
    BY <1>2 DEF StartUp, SettingsInit, SeCheck, SeInitFails, AppInited, observed
  <2>. QED  BY <1>2, <2>1, BootKeepsStart
<1>3. CASE User \/ HwBreak \/ Backup
  BY <1>3 DEF User, HwBreak, Backup, StoreSeed, GuideClean, StorePassphrase,
     DestroySeed, PairApp, ChangeSetting, Begin
<1>4. CASE Crash
  <2>1. /\ UNCHANGED <<se, nvmId, committed>>
        /\ since' = since + 1 /\ pc'["main"] = "init"
    BY <1>4 DEF Crash, persistent, Threads
  <2>2. since \in Nat
    BY DEF RecordInv, TypeInv, TypeOK
  <2>3. since = 0
    BY <2>1, <2>2
  <2>4. mode = "ready"
    BY <2>1, <2>3 DEF BootKeeps, RecordInv, TypeInv, TypeOK
  <2>5. se = committed /\ Recorded
    BY <2>1, <2>3, <2>4 DEF ReadyKeeps
  <2>. QED  BY <2>1, <2>3, <2>5, RecordStays DEF BootKeeps, Shared, FlagLabels
<1>5. CASE UNCHANGED vars
  BY <1>5, RecordStays DEF vars, persistent, volatile, observed, BootKeeps,
     WritesRecord
<1>. QED  BY <1>1, <1>2, <1>3, <1>4, <1>5 DEF Next

\* Where commands and writes do not fail, a wallet that was reported as stored
\* is still the device's wallet after the first power loss that follows the
\* report, at whatever point, however settings, pairings and backups run before
\* and behind it, until the user replaces or destroys it or the case is opened.
\* What a second loss during the start-up behind the first does is not said.
THEOREM StoredSurvives ==
  ASSUME ~Faults PROVE Spec => []Durable
<1>1. Init => KeepsInv
  BY RecordInvInit DEF Init, KeepsInv, ReadyRecord, AccountIdFresh, BootKeeps,
     ReadyKeeps
<1>2. KeepsInv /\ [Next]_vars /\ AccountIdFresh' => KeepsInv'
  <2>. SUFFICES ASSUME KeepsInv, [Next]_vars, AccountIdFresh' PROVE KeepsInv'
    OBVIOUS
  <2>1. RecordInv' /\ ReadyRecord'
    BY RecordInvNext, ReadyRecordNext DEF KeepsInv
  <2>2. BootKeeps'
    <3>1. CASE mode' = "boot" /\ committed' # NoId /\ since' <= 1
      BY <3>1, BootKeepsNext
    <3>. QED  BY <3>1 DEF BootKeeps
  <2>3. ReadyKeeps'
    <3>1. CASE mode' = "ready" /\ committed' # NoId /\ since' <= 1
      BY <3>1, ReadyKeepsNext
    <3>. QED  BY <3>1 DEF ReadyKeeps
  <2>. QED  BY <2>1, <2>2, <2>3 DEF KeepsInv
<1>3. KeepsInv => Durable
  BY DEF KeepsInv, ReadyKeeps, Durable, Recorded
<1>. QED  BY <1>1, <1>2, <1>3, AccountIdAlwaysFresh, PTL DEF Spec

-----------------------------------------------------------------------------
(* Pairing.                                                                *)

LEMMA PairFillsStep ==
  ASSUME ~Faults, RecordInv, PairFills, mode = "ready", ~doomed,
         op["main"] \in {"pair", "pairAgain"}, Coins # {}, Step("main")
  PROVE  PairFills' /\ (op'["main"] = "none" => db # {})
<1>. USE FlagTypes DEF RecordInv, PairFills, Goto, Call, Save, volatile,
         persistent, observed
<1>1. CASE SaveSame("main") \/ SaveWrite("main")
  <2>1. /\ UNCHANGED <<db, mode, op, job, left, doomed>>
        /\ ram' = [ram EXCEPT ![job["main"].key] = job["main"].val]
        /\ pc["main"] \in {"save", "write"}
        /\ pc'["main"] = job["main"].ret
    BY <1>1 DEF SaveSame, SaveWrite, Applied
  <2>2. ram'["seed"] = ram["seed"]
    BY <2>1 DEF Keys
  <2>. QED  BY <2>1, <2>2
<1>2. CASE SaveTruncate("main")
  BY <1>2 DEF SaveTruncate
<1>3. CASE CoinsVersion("main")
  BY <1>3 DEF CoinsVersion
<1>4. CASE SaveCoin("main")
  <2>1. se # NoId
    BY DEF FlagParts, ReadyFlag
  <2>2. db' # {}
    BY <1>4, <2>1 DEF SaveCoin
  <2>. QED  BY <1>4, <2>2 DEF SaveCoin
<1>5. CASE CoinsEnd("main")
  <2>1. db # {} /\ pc'["main"] \in {"pairCount", "done"}
    BY <1>5 DEF CoinsEnd
  <2>. QED  BY <1>5, <2>1 DEF CoinsEnd
<1>6. CASE PairVersion("main")
  BY <1>6 DEF PairVersion
<1>7. CASE PairCount("main")
  BY <1>7 DEF PairCount, TypeInv, TypeOK
<1>8. CASE Done("main")
  BY <1>8 DEF Done, TypeInv, TypeOK
<1>. QED
  BY <1>1, <1>2, <1>3, <1>4, <1>5, <1>6, <1>7, <1>8
     DEF Step, NvmFails, SaveFails, IdTear, IdWrite, IdClear, SetTear, SetWrite, SetClear,
         CleanDb, ClearFlag, SeWrite, GetId, Verify, SeDestroy, FactoryReset,
         KeepLang

\* Nothing else turns into a pairing.
LEMMA PairingStays ==
  ASSUME RecordInv, PairIsPaired, mode = "ready", ~doomed, Step("main"),
         op["main"] \notin {"pair", "pairAgain"}
  PROVE  PairFills' /\ PairIsPaired'
<1>. USE FlagTypes DEF RecordInv, PairIsPaired, Goto, Call, Save, SetHaveSeed,
         NextBlock, volatile, persistent, observed
<1>1. ASSUME SaveSame("main") \/ SaveTruncate("main") \/ SaveWrite("main")
             \/ SaveFails("main")
      PROVE  UNCHANGED op /\ pc'["main"] \notin {"pairVersion", "pairCount"}
  BY <1>1, JobType DEF SaveSame, SaveTruncate, SaveWrite, SaveFails, Applied,
                       Returns, TypeInv
<1>2. ASSUME \/ IdTear("main") \/ IdWrite("main") \/ IdClear("main")
             \/ SetTear("main") \/ SetWrite("main") \/ SetClear("main")
      PROVE  UNCHANGED op /\ pc'["main"] \notin {"pairVersion", "pairCount"}
  BY <1>2, JobType DEF IdTear, IdWrite, IdClear, SetTear, SetWrite, SetClear,
                       Returns, TypeInv
<1>3. ASSUME \/ CleanDb("main") \/ ClearFlag("main") \/ SeWrite("main")
             \/ GetId("main") \/ CoinsVersion("main") \/ Verify("main")
             \/ SeDestroy("main") \/ FactoryReset("main") \/ KeepLang("main")
             \/ SaveCoin("main")
      PROVE  UNCHANGED op /\ pc'["main"] \notin {"pairVersion", "pairCount"}
  BY <1>3 DEF CleanDb, ClearFlag, SeWrite, GetId, CoinsVersion, Verify,
              SeDestroy, FactoryReset, KeepLang, SaveCoin
<1>4. CASE CoinsEnd("main")
  BY <1>4 DEF CoinsEnd, PairFills
<1>5. CASE PairVersion("main") \/ PairCount("main")
  BY <1>5 DEF PairVersion, PairCount
<1>6. CASE Done("main")
  BY <1>6 DEF Done, TypeInv, TypeOK, PairFills
<1>7. ASSUME NvmFails("main")
      PROVE  UNCHANGED op /\ pc'["main"] \notin {"pairVersion", "pairCount"}
  BY <1>7, JobType DEF NvmFails, Returns, TypeInv
<1>. QED  BY <1>1, <1>2, <1>3, <1>4, <1>5, <1>6, <1>7 DEF Step, PairFills

\* Start-up is no handler.
BootIsBoot == mode = "boot" => op["main"] = "boot"

LEMMA BootIsBootNext ==
  ASSUME RecordInv, BootIsBoot, [Next]_vars
  PROVE  BootIsBoot'
<1>. USE DEF RecordInv, BootIsBoot, persistent, volatile, observed
<1>1. ASSUME NEW t \in Threads, Step(t) PROVE BootIsBoot'
  <2>1. CASE mode = "boot"
    BY <1>1, <2>1, BootSteps DEF SaveSame, SaveTruncate, SaveWrite, SaveFails,
       IdTear, IdWrite, IdClear, SetTear, SetWrite, NvmFails
  <2>. QED  BY <1>1, <2>1, StepKeepsMode
<1>2. CASE StartUp
  BY <1>2 DEF StartUp, SettingsInit, SeCheck, SeInitFails, AppInited
<1>3. CASE User \/ HwBreak \/ Backup
  BY <1>3 DEF User, HwBreak, Backup, StoreSeed, GuideClean, StorePassphrase,
     DestroySeed, PairApp, ChangeSetting, Begin
<1>4. CASE Crash \/ UNCHANGED vars
  BY <1>4 DEF Crash, Threads, vars
<1>. QED  BY <1>1, <1>2, <1>3, <1>4 DEF Next

PairInv == RecordInv /\ PairFills /\ PairIsPaired /\ BootIsBoot

\* A pairing keeps to its path until it returns, and then there are coins.
LEMMA PairInvNext ==
  ASSUME ~Faults, Coins # {}, PairInv, [Next]_vars
  PROVE  /\ PairInv'
         /\ op["main"] \in {"pair", "pairAgain"} /\ op'["main"] = "none"
              /\ ~doomed /\ mode' = "ready" => db # {}
<1>0. RecordInv' /\ BootIsBoot'
  BY RecordInvNext, BootIsBootNext DEF PairInv
<1>. USE DEF PairInv
<1>1. ASSUME NEW t \in Threads, Step(t), mode' = "ready", ~doomed
      PROVE  /\ PairFills' /\ PairIsPaired'
             /\ op["main"] \in {"pair", "pairAgain"} /\ op'["main"] = "none"
                  => db # {}
  <2>1. mode = "ready" /\ ~doomed'
    BY <1>1, StepKeepsMode
  <2>2. CASE t = "shut"
    BY <1>1, <2>1, <2>2, ShutSteps DEF PairFills, PairIsPaired, RecordInv
  <2>3. CASE t = "main" /\ op["main"] \notin {"pair", "pairAgain"}
    BY <1>1, <2>1, <2>3, PairingStays
  <2>4. CASE t = "main" /\ op["main"] \in {"pair", "pairAgain"}
    <3>1. PairFills' /\ (op'["main"] = "none" => db # {})
      BY <1>1, <2>1, <2>4, PairFillsStep
    <3>2. PairIsPaired'
      <4>1. CASE op'["main"] \in {"pair", "pairAgain"}
        BY <4>1 DEF PairIsPaired
      <4>2. CASE op'["main"] \notin {"pair", "pairAgain"}
        <5>1. Done("main")
          BY <1>1, <2>4, <4>2 DEF Step, NvmFails, SaveSame, SaveTruncate, SaveWrite,
             SaveFails, IdTear, IdWrite, IdClear, SetTear, SetWrite, SetClear,
             CleanDb, ClearFlag, SeWrite, GetId, CoinsVersion, SaveCoin,
             CoinsEnd, Verify, PairVersion, PairCount, SeDestroy, FactoryReset,
             KeepLang, RecordInv, TypeInv, TypeOK
        <5>. QED  BY <5>1, FlagTypes DEF Done, Call, Goto, PairIsPaired, RecordInv
      <4>. QED  BY <4>1, <4>2
    <3>. QED  BY <3>1, <3>2
  <2>. QED  BY <2>2, <2>3, <2>4 DEF Threads
<1>2. ASSUME mode' # "ready" \/ doomed'
      PROVE  PairFills' /\ PairIsPaired'
  BY <1>2 DEF PairFills, PairIsPaired
<1>3. CASE StartUp
  <2>1. CASE AppInited
    <3>1. op'["main"] = "none" /\ pc'["main"] = "idle" /\ pc["main"] = "up"
      BY <2>1, FlagTypes DEF AppInited, Call, Goto, RecordInv, TypeInv, TypeOK
    <3>2. mode = "boot" \/ doomed
      BY <3>1, FlagTypes DEF RecordInv, FlagParts, ReadyFlag
    <3>. QED  BY <1>0, <3>1, <3>2 DEF PairFills, PairIsPaired, BootIsBoot
  <2>2. CASE SettingsInit \/ SeCheck \/ SeInitFails
    BY <1>0, <2>2, FlagTypes DEF SettingsInit, SeCheck, SeInitFails, PairFills,
       PairIsPaired, RecordInv, FlagParts, ReadyFlag
  <2>. QED  BY <1>0, <2>1, <2>2, <1>3 DEF StartUp
<1>4. CASE User \/ HwBreak \/ Backup
  <2>. USE FlagTypes DEF PairFills, PairIsPaired, Begin, Goto, Call, persistent,
           volatile, RecordInv, TypeInv, TypeOK
  <2>1. CASE StoreSeed         BY <1>0, <2>1 DEF StoreSeed
  <2>2. CASE GuideClean        BY <1>0, <2>2 DEF GuideClean
  <2>3. CASE StorePassphrase   BY <1>0, <2>3 DEF StorePassphrase
  <2>4. CASE DestroySeed       BY <1>0, <2>4 DEF DestroySeed
  <2>5. CASE PairApp           BY <1>0, <2>5 DEF PairApp
  <2>6. CASE ChangeSetting     BY <1>0, <2>6 DEF ChangeSetting
  <2>7. CASE HwBreak           BY <1>0, <2>7 DEF HwBreak
  <2>8. CASE Backup            BY <1>0, <2>8 DEF Backup
  <2>. QED  BY <1>4, <2>1, <2>2, <2>3, <2>4, <2>5, <2>6, <2>7, <2>8 DEF User
<1>5. CASE Crash
  BY <1>0, <1>5 DEF Crash, PairFills, PairIsPaired
<1>6. CASE UNCHANGED vars
  BY <1>0, <1>6, FlagTypes DEF vars, persistent, volatile, PairFills, PairIsPaired,
     RecordInv
<1>7. CASE \E t \in Threads : Step(t)
  <2>1. UNCHANGED <<mode, doomed>>
    BY <1>7, StepKeepsMode
  <2>. QED  BY <1>0, <1>1, <1>2, <1>7, <2>1
<1>. QED  BY <1>3, <1>4, <1>5, <1>6, <1>7 DEF Next

\* Where commands and writes do not fail, a pairing that ends leaves coins in
\* the table, also behind a coins version saved before a power loss emptied it.
THEOREM PairingFillsCoins ==
  ASSUME ~Faults, Coins # {} PROVE Spec => PairingHasCoins
<1>1. Init => PairInv
  BY RecordInvInit DEF Init, PairInv, PairFills, PairIsPaired, BootIsBoot, Threads
<1>2. PairInv /\ [Next]_vars => PairInv'
  BY PairInvNext
<1>3. PairInv /\ [Next]_vars =>
        [op["main"] \in {"pair", "pairAgain"} /\ op'["main"] = "none" /\ ~doomed
           /\ mode' = "ready" => db # {}]_vars
  BY PairInvNext
<1>. QED  BY <1>1, <1>2, <1>3, PTL DEF Spec, PairingHasCoins
=============================================================================
