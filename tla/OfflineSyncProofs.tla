------------------------- MODULE OfflineSyncProofs -------------------------
(***************************************************************************)
(* Proofs about OfflineSync, for every set of records, every assignment of *)
(* vehicles to them and every number of faults and restarts.               *)
(***************************************************************************)
EXTENDS OfflineSync, TLAPS

\* A row in the hand of deleteLocalTrans is in the central database already.
RowInHandIsCentral ==
  \A t \in Uploaders :
    /\ up[t].at \in {"delete", "broadcast"} => up[t].row \in Records
    /\ up[t].at = "delete" => central[up[t].row] > 0

\* A call of insertentrytrans that is under way has a record.
SaverHasRecord == saver.at # "idle" => saver.row \in Own

\* The types of the two records, as TypeOK states them.
SaverType == [at : {"idle", "central", "local"}, row : Own \cup {None}]
UpType ==
  [at : {"idle", "check", "count", "select", "upload", "delete", "broadcast"},
   todo : SUBSET Records, row : Records \cup {None}]

IInv ==
  /\ TypeOK
  /\ RowInHandIsCentral
  /\ SaverHasRecord
  /\ ReportedRecordsAreKept

USE DEF Records, Uploaders, None, Idle, Quiet

LEMMA InitIInv == Init => IInv
<1>1. SUFFICES ASSUME Init PROVE IInv
  OBVIOUS
<1>2. Boot \in [Uploaders -> [at : {"idle", "count"}, todo : {{}}, row : {None}]]
  BY DEF Boot
<1>3. TypeOK
  <2>1. up \in [Uploaders -> UpType]
    BY <1>1, <1>2 DEF Init, UpType
  <2>2. saver \in SaverType
    BY <1>1 DEF Init, SaverType
  <2>3. faults \in 0..MaxFaults /\ crashes \in 0..MaxCrashes
    BY <1>1, BoundsAssumption DEF Init
  <2>4. QED
    BY <1>1, <2>1, <2>2, <2>3 DEF Init, TypeOK, UpType, SaverType
<1>4. RowInHandIsCentral
  BY <1>1, <1>2 DEF Init, RowInHandIsCentral
<1>5. SaverHasRecord /\ ReportedRecordsAreKept
  BY <1>1 DEF Init, SaverHasRecord, ReportedRecordsAreKept
<1>6. QED
  BY <1>3, <1>4, <1>5 DEF IInv

\* What Works and Fails leave of the budget.
LEMMA BudgetType ==
  ASSUME TypeOK, Works \/ Fails
  PROVE  faults' \in 0..MaxFaults /\ crashes' \in 0..MaxCrashes
BY BoundsAssumption DEF TypeOK, Works, Fails, budget

LEMMA SaveKeepsIInv ==
  ASSUME IInv, NEW r \in Own, Save(r)
  PROVE  IInv'
<1>1. TypeOK'
  <2>1. saver' \in SaverType
    BY DEF Save, ConnectCentral, CentralFails, SaverType
  <2>2. online' \in BOOLEAN
    BY DEF Save, ConnectCentral, CentralFails
  <2>3. QED
    BY <2>1, <2>2 DEF IInv, TypeOK, SaverType, Save, ConnectCentral,
                      CentralFails, upload, budget
<1>2. RowInHandIsCentral'
  BY DEF IInv, RowInHandIsCentral, Save, ConnectCentral, CentralFails, upload
<1>3. SaverHasRecord'
  BY DEF SaverHasRecord, Save, ConnectCentral, CentralFails
<1>4. ReportedRecordsAreKept'
  BY DEF IInv, ReportedRecordsAreKept, Save, ConnectCentral, CentralFails
<1>5. QED
  BY <1>1, <1>2, <1>3, <1>4 DEF IInv

LEMMA InsertCentralKeepsIInv ==
  ASSUME IInv, InsertCentral
  PROVE  IInv'
<1>1. saver.row \in Own
  BY DEF IInv, SaverHasRecord, InsertCentral
<1>2. Works \/ Fails
  BY DEF InsertCentral
<1>3. /\ central' \in [Records -> Nat]
      /\ \A r \in Records : central[r] > 0 => central'[r] > 0
  BY <1>1 DEF IInv, TypeOK, InsertCentral
<1>4. TypeOK'
  BY <1>1, <1>2, <1>3, BudgetType
     DEF IInv, TypeOK, InsertCentral, Return, upload
<1>5. RowInHandIsCentral'
  BY <1>3 DEF IInv, RowInHandIsCentral, InsertCentral, upload
<1>6. SaverHasRecord'
  BY DEF SaverHasRecord, InsertCentral, Return
<1>7. ReportedRecordsAreKept'
  <2>1. SUFFICES ASSUME NEW r \in Own, result'[r] = "iDBSuccess"
                 PROVE  central'[r] > 0 \/ r \in local' \/ r \in removed'
    BY DEF ReportedRecordsAreKept
  <2>2. CASE r = saver.row
    BY <1>1, <2>1, <2>2 DEF IInv, TypeOK, InsertCentral, Return
  <2>3. CASE r # saver.row
    <3>1. result[r] = "iDBSuccess"
      BY <2>1, <2>3, <1>1 DEF IInv, TypeOK, InsertCentral, Return
    <3>2. QED
      BY <3>1, <1>3 DEF IInv, ReportedRecordsAreKept, InsertCentral
  <2>4. QED
    BY <2>2, <2>3
<1>8. QED
  BY <1>4, <1>5, <1>6, <1>7 DEF IInv

LEMMA InsertLocalKeepsIInv ==
  ASSUME IInv, InsertLocal
  PROVE  IInv'
<1>1. saver.row \in Own
  BY DEF IInv, SaverHasRecord, InsertLocal
<1>2. Works \/ Fails
  BY DEF InsertLocal
<1>3. TypeOK'
  BY <1>1, <1>2, BudgetType DEF IInv, TypeOK, InsertLocal, Return, upload
<1>4. RowInHandIsCentral'
  BY DEF IInv, RowInHandIsCentral, InsertLocal, upload
<1>5. SaverHasRecord'
  BY DEF SaverHasRecord, InsertLocal, Return
<1>6. ReportedRecordsAreKept'
  <2>1. SUFFICES ASSUME NEW r \in Own, result'[r] = "iDBSuccess"
                 PROVE  central'[r] > 0 \/ r \in local' \/ r \in removed'
    BY DEF ReportedRecordsAreKept
  <2>2. CASE r = saver.row
    BY <1>1, <2>1, <2>2 DEF IInv, TypeOK, InsertLocal, Return
  <2>3. CASE r # saver.row
    BY <1>1, <2>1, <2>3
       DEF IInv, TypeOK, ReportedRecordsAreKept, InsertLocal, Return
  <2>4. QED
    BY <2>2, <2>3
<1>7. QED
  BY <1>3, <1>4, <1>5, <1>6 DEF IInv

\* The steps of an upload: only deleteLocalTrans takes rows away.
LEMMA UploadKeepsIInv ==
  ASSUME IInv, NEW t \in Uploaders, Upload(t)
  PROVE  IInv'
<1>0. /\ up[t] \in [at : {"idle", "check", "count", "select", "upload", "delete", "broadcast"},
                    todo : SUBSET Records, row : Records \cup {None}]
      /\ local \subseteq Records
  BY DEF IInv, TypeOK
<1>1. CASE CountRows(t)
  <2>1. Works \/ Fails
    BY <1>1 DEF CountRows
  <2>2. TypeOK'
    <3>1. up' \in [Uploaders -> UpType]
      BY <1>0, <1>1 DEF IInv, TypeOK, UpType, CountRows, Move
    <3>2. offlineStatus' \in BOOLEAN
      BY <1>1 DEF IInv, TypeOK, CountRows
    <3>3. QED
      BY <1>1, <2>1, <3>1, <3>2, BudgetType
         DEF IInv, TypeOK, UpType, CountRows, saving
  <2>3. RowInHandIsCentral'
    BY <1>1 DEF IInv, TypeOK, RowInHandIsCentral, CountRows, Move
  <2>4. SaverHasRecord' /\ ReportedRecordsAreKept'
    BY <1>1 DEF IInv, SaverHasRecord, ReportedRecordsAreKept, CountRows, saving
  <2>5. QED
    BY <2>2, <2>3, <2>4 DEF IInv
<1>2. CASE SelectRows(t)
  <2>1. Works \/ Fails
    BY <1>2 DEF SelectRows
  <2>2. /\ \/ up' = [up EXCEPT ![t] = [at |-> "upload", todo |-> local, row |-> None]]
           \/ up' = [up EXCEPT ![t] = [at |-> "idle", todo |-> {}, row |-> None]]
        /\ disturbed' \subseteq disturbed \cup local
    BY <1>2 DEF SelectRows
  <2>3. TypeOK'
    <3>1. up' \in [Uploaders -> UpType]
      BY <1>0, <2>2 DEF IInv, TypeOK, UpType
    <3>2. QED
      BY <1>0, <1>2, <2>1, <2>2, <3>1, BudgetType
         DEF IInv, TypeOK, UpType, SelectRows, saving
  <2>4. RowInHandIsCentral'
    BY <1>2, <2>2 DEF IInv, TypeOK, RowInHandIsCentral, SelectRows
  <2>5. SaverHasRecord' /\ ReportedRecordsAreKept'
    BY <1>2 DEF IInv, SaverHasRecord, ReportedRecordsAreKept, SelectRows, saving
  <2>6. QED
    BY <2>3, <2>4, <2>5 DEF IInv
<1>3. CASE UploadRow(t)
  <2>1. Works \/ Fails
    BY <1>3 DEF UploadRow
  <2>2. PICK r \in up[t].todo :
          \/ /\ central' = [central EXCEPT ![r] = @ + 1]
             /\ up' = [up EXCEPT ![t] = [at |-> "delete", todo |-> @.todo \ {r}, row |-> r]]
             /\ UNCHANGED disturbed
          \/ /\ \/ UNCHANGED <<central, disturbed>>
                \/ /\ central' = [central EXCEPT ![r] = @ + 1]
                   /\ disturbed' = disturbed \cup {r}
             /\ up' = [up EXCEPT ![t].todo = @ \ {r}]
    BY <1>3 DEF UploadRow
  <2>3. r \in Records
    BY <1>0
  <2>4. /\ central' \in [Records -> Nat]
        /\ \A s \in Records : central[s] > 0 => central'[s] > 0
    BY <2>2, <2>3 DEF IInv, TypeOK
  <2>5. TypeOK'
    BY <1>0, <1>3, <2>1, <2>2, <2>3, <2>4, BudgetType
       DEF IInv, TypeOK, UploadRow, saving
  <2>6. RowInHandIsCentral'
    BY <1>0, <2>2, <2>3, <2>4 DEF IInv, TypeOK, RowInHandIsCentral
  <2>7. SaverHasRecord' /\ ReportedRecordsAreKept'
    BY <1>3, <2>4 DEF IInv, SaverHasRecord, ReportedRecordsAreKept, UploadRow, saving
  <2>8. QED
    BY <2>5, <2>6, <2>7 DEF IInv
<1>4. CASE DeleteLocalTrans(t)
  <2>1. Works \/ Fails
    BY <1>4 DEF DeleteLocalTrans
  <2>2. up[t].row \in Records /\ central[up[t].row] > 0
    BY <1>4 DEF IInv, RowInHandIsCentral, DeleteLocalTrans, At
  <2>3. TypeOK'
    BY <1>0, <1>4, <2>1, <2>2, BudgetType DEF IInv, TypeOK, DeleteLocalTrans, saving
  <2>4. RowInHandIsCentral'
    BY <1>4 DEF IInv, TypeOK, RowInHandIsCentral, DeleteLocalTrans
  <2>5. SaverHasRecord' /\ ReportedRecordsAreKept'
    BY <1>4, <2>2
       DEF IInv, SaverHasRecord, ReportedRecordsAreKept, DeleteLocalTrans, saving
  <2>6. QED
    BY <2>3, <2>4, <2>5 DEF IInv
<1>5. CASE EndUpload(t)
  <2>1. TypeOK'
    BY <1>5 DEF IInv, TypeOK, EndUpload, saving, budget
  <2>2. RowInHandIsCentral'
    BY <1>5 DEF IInv, TypeOK, RowInHandIsCentral, EndUpload
  <2>3. SaverHasRecord' /\ ReportedRecordsAreKept'
    BY <1>5 DEF IInv, SaverHasRecord, ReportedRecordsAreKept, EndUpload, saving
  <2>4. QED
    BY <2>1, <2>2, <2>3 DEF IInv
<1>6. QED
  BY <1>1, <1>2, <1>3, <1>4, <1>5 DEF Upload

\* What starts an upload moves no row.
LEMMA StartKeepsIInv ==
  ASSUME IInv, CmdStatusOnline \/ TimerPing \/ TimerCheck
  PROVE  IInv'
<1>1. TypeOK'
  <2>1. up' \in [Uploaders -> UpType]
    BY DEF IInv, TypeOK, UpType, CmdStatusOnline, TimerPing, TimerCheck,
           BeginUpload, Move
  <2>2. online' \in BOOLEAN /\ offlineStatus' \in BOOLEAN
    BY DEF IInv, TypeOK, CmdStatusOnline, TimerPing, TimerCheck, BeginUpload
  <2>3. QED
    BY <2>1, <2>2 DEF IInv, TypeOK, UpType, CmdStatusOnline, TimerPing,
                      TimerCheck, saving, budget
<1>2. RowInHandIsCentral'
  BY DEF IInv, TypeOK, RowInHandIsCentral, CmdStatusOnline, TimerPing,
         TimerCheck, BeginUpload, Move
<1>3. SaverHasRecord' /\ ReportedRecordsAreKept'
  BY DEF IInv, SaverHasRecord, ReportedRecordsAreKept, CmdStatusOnline,
         TimerPing, TimerCheck, saving
<1>4. QED
  BY <1>1, <1>2, <1>3 DEF IInv

\* What is removed before its upload is remembered.
LEMMA RemoveKeepsRecords ==
  ASSUME TypeOK, ReportedRecordsAreKept, NEW rows, Remove(rows),
         UNCHANGED <<central, result>>
  PROVE  ReportedRecordsAreKept'
<1>1. SUFFICES ASSUME NEW r \in Own, result[r] = "iDBSuccess"
               PROVE  central[r] > 0 \/ r \in local' \/ r \in removed'
  BY DEF ReportedRecordsAreKept
<1>2. central[r] \in Nat
  BY DEF TypeOK
<1>3. central[r] > 0 \/ r \in local \/ r \in removed
  BY <1>1 DEF ReportedRecordsAreKept
<1>4. QED
  BY <1>2, <1>3 DEF Remove

\* A broadcast deletes rows of its vehicle and remembers them in removed.
LEMMA BroadcastKeepsIInv ==
  ASSUME IInv, BroadcastInsert \/ \E b \in Others : BroadcastDelete(b)
  PROVE  IInv'
<1>1. CASE BroadcastInsert
  <2>1. Works \/ Fails
    BY <1>1 DEF BroadcastInsert
  <2>2. up["pms"].row \in Records
    BY <1>1 DEF IInv, RowInHandIsCentral, BroadcastInsert, At
  <2>3. TypeOK'
    <3>1. up' \in [Uploaders -> UpType]
      BY <1>1 DEF IInv, TypeOK, UpType, BroadcastInsert
    <3>2. faults' \in 0..MaxFaults /\ crashes' \in 0..MaxCrashes
      BY <2>1, BudgetType DEF IInv
    <3>3. local' \subseteq Records
      BY <1>1, <2>2 DEF IInv, TypeOK, BroadcastInsert
    <3>4. QED
      BY <1>1, <3>1, <3>2, <3>3 DEF IInv, TypeOK, UpType, BroadcastInsert, saving
  <2>4. RowInHandIsCentral'
    BY <1>1 DEF IInv, TypeOK, RowInHandIsCentral, BroadcastInsert
  <2>5. SaverHasRecord' /\ ReportedRecordsAreKept'
    BY <1>1 DEF IInv, SaverHasRecord, ReportedRecordsAreKept, BroadcastInsert, saving
  <2>6. QED
    BY <2>3, <2>4, <2>5 DEF IInv
<1>2. ASSUME NEW b \in Others, BroadcastDelete(b)
      PROVE  IInv'
  <2>1. Works \/ Fails
    BY <1>2 DEF BroadcastDelete
  <2>2. RowsOfSameVehicle(b) \subseteq Records
    BY DEF IInv, TypeOK, RowsOfSameVehicle
  <2>3. TypeOK'
    <3>1. up' \in [Uploaders -> UpType]
      <4>1. up["pms"] \in UpType /\ b \in Records
        BY DEF IInv, TypeOK, UpType
      <4>2. [up["pms"] EXCEPT !.at = "broadcast", !.row = b] \in UpType
        BY <4>1 DEF UpType
      <4>3. up' = [up EXCEPT !["pms"] = [up["pms"] EXCEPT !.at = "broadcast", !.row = b]]
        BY <1>2 DEF BroadcastDelete
      <4>4. up \in [Uploaders -> UpType]
        BY DEF IInv, TypeOK, UpType
      <4>5. QED
        BY <4>2, <4>3, <4>4
    <3>2. faults' \in 0..MaxFaults /\ crashes' \in 0..MaxCrashes
      BY <2>1, BudgetType DEF IInv
    <3>3. local' \subseteq Records /\ removed' \subseteq Records
      BY <1>2, <2>2 DEF IInv, TypeOK, BroadcastDelete, Remove
    <3>4. heard' \subseteq Others
      BY <1>2 DEF IInv, TypeOK, BroadcastDelete
    <3>5. QED
      BY <1>2, <3>1, <3>2, <3>3, <3>4 DEF IInv, TypeOK, UpType, BroadcastDelete, saving
  <2>4. RowInHandIsCentral'
    BY <1>2 DEF IInv, TypeOK, RowInHandIsCentral, BroadcastDelete
  <2>5. SaverHasRecord' /\ ReportedRecordsAreKept'
    <3>1. UNCHANGED <<central, saver, result>>
      BY <1>2 DEF BroadcastDelete, saving
    <3>2. \/ Remove(RowsOfSameVehicle(b))
          \/ UNCHANGED <<local, removed>>
      BY <1>2 DEF BroadcastDelete
    <3>3. CASE Remove(RowsOfSameVehicle(b))
      BY <3>1, <3>3, RemoveKeepsRecords DEF IInv, SaverHasRecord
    <3>4. CASE UNCHANGED <<local, removed>>
      BY <3>1, <3>4 DEF IInv, SaverHasRecord, ReportedRecordsAreKept
    <3>5. QED
      BY <3>2, <3>3, <3>4
  <2>6. QED
    BY <2>3, <2>4, <2>5 DEF IInv
<1>3. QED
  BY <1>1, <1>2

\* HouseKeeping remembers in removed what it deletes too early.
LEMMA HouseKeepingKeepsIInv ==
  ASSUME IInv, HouseKeeping
  PROVE  IInv'
<1>1. PICK old \in SUBSET local : Remove(old)
  BY DEF HouseKeeping
<1>2. UNCHANGED <<link, central, online, noOffline, saving, upload, heard>>
  BY DEF HouseKeeping
<1>3. TypeOK'
  <2>1. faults' \in 0..MaxFaults /\ crashes' \in 0..MaxCrashes
    BY BudgetType DEF IInv, HouseKeeping
  <2>2. local' \subseteq Records /\ removed' \subseteq Records
    BY <1>1 DEF IInv, TypeOK, Remove
  <2>3. QED
    BY <1>2, <2>1, <2>2 DEF IInv, TypeOK, saving, upload
<1>4. RowInHandIsCentral'
  BY <1>2 DEF IInv, RowInHandIsCentral, upload
<1>5. SaverHasRecord'
  BY <1>2 DEF IInv, SaverHasRecord, saving
<1>6. ReportedRecordsAreKept'
  BY <1>1, <1>2, RemoveKeepsRecords DEF IInv, saving
<1>7. QED
  BY <1>3, <1>4, <1>5, <1>6 DEF IInv

LEMMA WorldKeepsIInv ==
  ASSUME IInv, LinkDown \/ LinkUp \/ Crash
  PROVE  IInv'
<1>1. CASE LinkDown \/ LinkUp
  <2>1. TypeOK'
    BY <1>1, BudgetType DEF IInv, TypeOK, LinkDown, LinkUp, saving, upload, budget
  <2>2. RowInHandIsCentral' /\ SaverHasRecord' /\ ReportedRecordsAreKept'
    BY <1>1 DEF IInv, RowInHandIsCentral, SaverHasRecord,
                ReportedRecordsAreKept, LinkDown, LinkUp, saving, upload
  <2>3. QED
    BY <2>1, <2>2 DEF IInv
<1>2. CASE Crash
  <2>1. Boot \in [Uploaders -> [at : {"idle", "count"}, todo : {{}}, row : {None}]]
    BY DEF Boot
  <2>2. {up[t].row : t \in {u \in Uploaders : At(u, "delete")}} \subseteq Records
    BY DEF IInv, RowInHandIsCentral, At
  <2>3. crashes' \in 0..MaxCrashes
    BY <1>2, BoundsAssumption DEF IInv, TypeOK, Crash
  <2>4. TypeOK'
    <3>1. online' \in BOOLEAN /\ noOffline' \in Nat /\ offlineStatus' \in BOOLEAN /\ link' \in BOOLEAN
      BY <1>2 DEF IInv, TypeOK, Crash
    <3>2. UNCHANGED <<central, local, heard, faults, removed>>
      BY <1>2 DEF Crash
    <3>3. result' \in [Own -> {"none", "iDBSuccess", "iCentralFail", "iLocalFail", "lost"}]
      BY <1>2 DEF IInv, TypeOK, Crash
    <3>4. disturbed' \subseteq Records
      BY <1>2, <2>2 DEF IInv, TypeOK, Crash
    <3>5. QED
      BY <1>2, <2>1, <2>3, <3>1, <3>2, <3>3, <3>4 DEF IInv, TypeOK, Crash
  <2>5. RowInHandIsCentral'
    BY <1>2, <2>1 DEF RowInHandIsCentral, Crash
  <2>6. SaverHasRecord' /\ ReportedRecordsAreKept'
    BY <1>2 DEF IInv, TypeOK, SaverHasRecord, ReportedRecordsAreKept, Crash
  <2>7. QED
    BY <2>4, <2>5, <2>6 DEF IInv
<1>3. QED
  BY <1>1, <1>2

LEMMA StepKeepsIInv == IInv /\ [Next]_vars => IInv'
<1>1. ASSUME IInv, Next PROVE IInv'
  BY <1>1, SaveKeepsIInv, InsertCentralKeepsIInv, InsertLocalKeepsIInv,
     UploadKeepsIInv, StartKeepsIInv, BroadcastKeepsIInv,
     HouseKeepingKeepsIInv, WorldKeepsIInv
     DEF Next
<1>2. ASSUME IInv, UNCHANGED vars PROVE IInv'
  BY <1>2 DEF vars, saving, upload, budget, IInv, TypeOK, RowInHandIsCentral,
              SaverHasRecord, ReportedRecordsAreKept
<1>3. QED
  BY <1>1, <1>2

LEMMA Invariance == SafeSpec => []IInv
BY InitIInv, StepKeepsIInv, PTL DEF SafeSpec

(***************************************************************************)
(* Every variable of the upload keeps its type, whatever fails and however *)
(* the uploads interleave.  (db.cpp:317-463, 5522-5835.)                   *)
(***************************************************************************)
THEOREM TypeCorrect == Spec => []TypeOK
<1>1. IInv => TypeOK
  BY DEF IInv
<1>2. QED
  BY <1>1, Invariance, PTL DEF Spec

(***************************************************************************)
(* A record reported as saved is in one of the databases, or a broadcast   *)
(* about its vehicle or HouseKeeping deleted its row: for every set of     *)
(* records and every number of faults and restarts.  (db.cpp:258, 452-460, *)
(* 5657-5683, 5952.)                                                       *)
(***************************************************************************)
THEOREM SavedRecordsSurvive == Spec => []ReportedRecordsAreKept
<1>1. IInv => ReportedRecordsAreKept
  BY DEF IInv
<1>2. QED
  BY <1>1, Invariance, PTL DEF Spec

-----------------------------------------------------------------------------
(***************************************************************************)
(* How often an own record reaches the central database.  A record nobody  *)
(* saved yet is nowhere.  Of a record that was not disturbed at most one   *)
(* thread has the row; while the row is still to do, or waits in the local *)
(* table, the central database does not have it, except between the insert *)
(* and the delete of the thread that has it in hand.                       *)
(***************************************************************************)
Holds(t, r) == r \in up[t].todo \/ up[t].row = r
InHand(t, r) == up[t].at = "delete" /\ up[t].row = r

PlacesAreTidy ==
  \A t \in Uploaders :
    /\ up[t].at \notin {"upload", "delete"} => up[t].todo = {}
    /\ up[t].at \notin {"delete", "broadcast"} => up[t].row = None
    /\ up[t].at = "broadcast" => up[t].row \in Others

Unsaved(r) == central[r] = 0 /\ r \notin local /\ \A t \in Uploaders : ~Holds(t, r)
UnsavedIsNowhere ==
  /\ \A r \in Own : result[r] = "none" => Unsaved(r)
  /\ saver.at # "idle" => result[saver.row] = "none"

OneHolder(r) == \A t, u \in Uploaders : Holds(t, r) /\ Holds(u, r) => t = u
ToDoIsNew(r) ==
  \A t \in Uploaders : r \in up[t].todo => central[r] = 0 /\ up[t].row # r
LocalIsNew(r) == r \in local => central[r] = 0 \/ \E t \in Uploaders : InHand(t, r)
Once(r) == OneHolder(r) /\ ToDoIsNew(r) /\ LocalIsNew(r) /\ central[r] <= 1

OnceInv == PlacesAreTidy /\ UnsavedIsNowhere /\ \A r \in Own \ disturbed : Once(r)

LEMMA OwnRecords ==
  /\ Own \subseteq Records /\ Others \subseteq Records
  /\ \A r \in Own : r # None /\ r \notin Others
  BY RecordsAssumption

\* Steps that insert nothing: nobody takes a row, and rows in hand stay there.
LEMMA QuietOnce ==
  ASSUME OnceInv, PlacesAreTidy', UNCHANGED central, local' \subseteq local,
         disturbed \subseteq disturbed',
         \A r \in Own : result'[r] = "none" => result[r] = "none",
         saver'.at # "idle" => result'[saver'.row] = "none",
         \A t \in Uploaders, r \in Own :
           /\ r \in up'[t].todo => r \in up[t].todo
           /\ up'[t].row = r => up[t].row = r
           /\ InHand(t, r) => InHand(t, r)' \/ r \in disturbed'
  PROVE  OnceInv'
<1>1. \A t \in Uploaders, r \in Own : Holds(t, r)' => Holds(t, r)
  BY DEF Holds
<1>2. UnsavedIsNowhere'
  BY <1>1 DEF OnceInv, UnsavedIsNowhere, Unsaved
<1>3. ASSUME NEW r \in Own, r \notin disturbed' PROVE Once(r)'
  <2>0. Once(r)
    BY <1>3 DEF OnceInv
  <2>1. OneHolder(r)'
    BY <1>1, <2>0 DEF Once, OneHolder
  <2>2. ToDoIsNew(r)'
    BY <2>0 DEF Once, ToDoIsNew
  <2>3. LocalIsNew(r)'
    BY <1>3, <2>0 DEF Once, LocalIsNew
  <2> QED
    BY <2>0, <2>1, <2>2, <2>3 DEF Once
<1> QED
  BY <1>2, <1>3 DEF OnceInv

LEMMA InitOnce == Init => OnceInv
<1> SUFFICES ASSUME Init PROVE OnceInv
  OBVIOUS
<1>1. /\ \A t \in Uploaders : up[t].todo = {} /\ up[t].row = None
                              /\ up[t].at \in {"idle", "count"}
      /\ \A r \in Records : central[r] = 0
      /\ local = {} /\ saver.at = "idle"
  BY DEF Init, Boot
<1>2. \A t \in Uploaders, r \in Own : ~Holds(t, r)
  BY <1>1, OwnRecords DEF Holds
<1>3. PlacesAreTidy
  BY <1>1 DEF PlacesAreTidy
<1>4. UnsavedIsNowhere
  BY <1>1, <1>2, OwnRecords DEF UnsavedIsNowhere, Unsaved
<1>5. ASSUME NEW r \in Own PROVE Once(r)
  <2>1. central[r] = 0 /\ \A t \in Uploaders : ~Holds(t, r)
    BY <1>1, <1>2, OwnRecords
  <2>2. OneHolder(r) /\ ToDoIsNew(r) /\ LocalIsNew(r)
    BY <2>1 DEF OneHolder, ToDoIsNew, LocalIsNew, Holds
  <2> QED
    BY <2>1, <2>2 DEF Once
<1> QED
  BY <1>3, <1>4, <1>5 DEF OnceInv

\* insertentrytrans saves a record that is nowhere yet.
LEMMA SavingKeepsOnce ==
  ASSUME IInv, OnceInv, InsertCentral \/ InsertLocal \/ \E r \in Own : Save(r)
  PROVE  OnceInv'
<1>1. CASE \E r \in Own : Save(r)
  <2>1. PICK r \in Own : Save(r)
    BY <1>1
  <2>2. /\ UNCHANGED <<central, local, result, up, disturbed>>
        /\ saver'.row = r /\ result[r] = "none"
    BY <2>1 DEF Save, ConnectCentral, CentralFails, upload
  <2>3. PlacesAreTidy'
    BY <2>2 DEF OnceInv, PlacesAreTidy
  <2> QED
    BY <2>2, <2>3, QuietOnce DEF InHand
<1>2. CASE InsertCentral \/ InsertLocal
  <2> DEFINE s == saver.row
  <2>1. /\ s \in Own /\ saver' = Quiet /\ UNCHANGED <<up, disturbed>>
        /\ \A r \in Own : r # s => result'[r] = result[r]
        /\ result'[s] # "none"
    BY <1>2 DEF IInv, TypeOK, SaverHasRecord, InsertCentral, InsertLocal, Return, upload
  <2>2. Unsaved(s)
    BY <1>2, <2>1 DEF OnceInv, UnsavedIsNowhere, InsertCentral, InsertLocal
  <2>3. /\ \A r \in Records : r # s => central'[r] = central[r]
        /\ \A r \in Records : r # s => (r \in local' <=> r \in local)
        /\ \/ central'[s] = 0
           \/ central'[s] = 1 /\ s \notin local'
    <3>1. CASE InsertCentral
      BY <2>1, <2>2, <3>1, OwnRecords DEF InsertCentral, Return, IInv, TypeOK, Unsaved
    <3>2. CASE InsertLocal
      BY <2>1, <2>2, <3>2 DEF InsertLocal, Return, Unsaved
    <3> QED
      BY <1>2, <3>1, <3>2
  <2> HIDE DEF s
  <2>4. PlacesAreTidy'
    BY <2>1 DEF OnceInv, PlacesAreTidy
  <2>5. \A t \in Uploaders, r \in Own :
          (Holds(t, r)' <=> Holds(t, r)) /\ (InHand(t, r)' <=> InHand(t, r))
    BY <2>1 DEF Holds, InHand
  <2>6. UnsavedIsNowhere'
    BY <2>1, <2>3, <2>5, OwnRecords DEF OnceInv, UnsavedIsNowhere, Unsaved
  <2>7. ASSUME NEW r \in Own, r \notin disturbed' PROVE Once(r)'
    <3>0. Once(r) /\ r \in Records
      BY <2>1, <2>7, OwnRecords DEF OnceInv
    <3>1. CASE r # s
      <4>1. central'[r] = central[r] /\ (r \in local' <=> r \in local)
        BY <2>3, <3>0, <3>1
      <4>2. OneHolder(r)' /\ ToDoIsNew(r)' /\ LocalIsNew(r)'
        BY <2>1, <2>5, <3>0, <4>1 DEF Once, OneHolder, ToDoIsNew, LocalIsNew
      <4> QED
        BY <3>0, <4>1, <4>2 DEF Once
    <3>2. CASE r = s
      <4>1. \A t \in Uploaders : ~Holds(t, r)'
        BY <2>2, <2>5, <3>2, <2>1 DEF Unsaved
      <4>2. OneHolder(r)' /\ ToDoIsNew(r)'
        BY <4>1 DEF OneHolder, ToDoIsNew, Holds
      <4>3. LocalIsNew(r)'
        BY <2>3, <3>2 DEF LocalIsNew
      <4>4. central'[r] <= 1
        BY <2>3, <3>2
      <4> QED
        BY <4>2, <4>3, <4>4 DEF Once
    <3> QED
      BY <3>1, <3>2
  <2> QED
    BY <2>4, <2>6, <2>7 DEF OnceInv
<1> QED
  BY <1>1, <1>2

\* An upload: rows are taken, inserted and deleted by one thread at a time, or
\* they are disturbed.
LEMMA UploadKeepsOnce ==
  ASSUME IInv, OnceInv, NEW t \in Uploaders, Upload(t)
  PROVE  OnceInv'
<1>0. /\ up \in [Uploaders -> UpType] /\ local \subseteq Records
      /\ central \in [Records -> Nat]
  BY DEF IInv, TypeOK, UpType
<1>1. CASE CountRows(t) \/ EndUpload(t)
  <2>1. /\ UNCHANGED <<central, local, saver, result, disturbed>>
        /\ \A u \in Uploaders : u # t => up'[u] = up[u]
    BY <1>0, <1>1 DEF CountRows, EndUpload, Move, saving
  <2>2. /\ up'[t].todo = {} /\ up'[t].row = None /\ up'[t].at \in {"select", "idle"}
        /\ up[t].at \in {"count", "upload"}
    <3>1. CASE CountRows(t)
      BY <1>0, <3>1 DEF CountRows, Move, At, OnceInv, PlacesAreTidy, UpType
    <3>2. CASE EndUpload(t)
      BY <1>0, <3>2 DEF EndUpload, At
    <3> QED
      BY <1>1, <3>1, <3>2
  <2>3. PlacesAreTidy'
    BY <2>1, <2>2 DEF OnceInv, PlacesAreTidy
  <2>4. \A u \in Uploaders, r \in Own :
          /\ r \in up'[u].todo => r \in up[u].todo
          /\ up'[u].row = r => up[u].row = r
          /\ InHand(u, r) => InHand(u, r)'
    BY <2>1, <2>2, OwnRecords DEF InHand
  <2> QED
    BY <2>1, <2>3, <2>4, QuietOnce DEF OnceInv, UnsavedIsNowhere
<1>2. CASE SelectRows(t)
  <2>1. /\ up[t].at = "select" /\ UNCHANGED <<central, local, saver, result>>
        /\ \A u \in Uploaders : u # t => up'[u] = up[u]
        /\ up[t].todo = {} /\ up[t].row = None
        /\ up'[t].row = None
    <3>1. /\ up[t].at = "select" /\ UNCHANGED <<central, local, saver, result>>
          /\ \/ up' = [up EXCEPT ![t] = [Idle EXCEPT !.at = "upload", !.todo = local]]
             \/ up' = [up EXCEPT ![t] = Idle]
      BY <1>2 DEF SelectRows, At, saving
    <3>2. up[t].todo = {} /\ up[t].row = None
      BY <3>1 DEF OnceInv, PlacesAreTidy
    <3>3. PICK c \in {[at |-> "upload", todo |-> local, row |-> None], Idle} :
             up' = [up EXCEPT ![t] = c]
      BY <3>1
    <3>4. up'[t] = c /\ c.row = None /\ \A u \in Uploaders : u # t => up'[u] = up[u]
      BY <1>0, <3>3
    <3> QED
      BY <3>1, <3>2, <3>4
  <2>2. CASE up' = [up EXCEPT ![t] = Idle] /\ UNCHANGED disturbed
    <3>1. up'[t].todo = {} /\ up'[t].at = "idle"
      BY <1>0, <2>2
    <3>2. PlacesAreTidy'
      BY <2>1, <3>1 DEF OnceInv, PlacesAreTidy
    <3>3. \A u \in Uploaders, r \in Own :
            /\ r \in up'[u].todo => r \in up[u].todo
            /\ up'[u].row = r => up[u].row = r
            /\ InHand(u, r) => InHand(u, r)'
      BY <2>1, <3>1, OwnRecords DEF InHand
    <3> QED
      BY <2>1, <2>2, <3>2, <3>3, QuietOnce DEF OnceInv, UnsavedIsNowhere
  <2>3. CASE /\ up' = [up EXCEPT ![t] = [Idle EXCEPT !.at = "upload", !.todo = local]]
             /\ disturbed' = disturbed \cup {r \in local : Shared(t, r)}
    <3>1. up'[t].todo = local /\ up'[t].at = "upload"
      BY <1>0, <2>3
    <3>2. PlacesAreTidy'
      BY <2>1, <3>1 DEF OnceInv, PlacesAreTidy
    <3>3. UnsavedIsNowhere'
      BY <2>1, <3>1, OwnRecords DEF OnceInv, UnsavedIsNowhere, Unsaved, Holds
    <3>4. ASSUME NEW r \in Own, r \notin disturbed' PROVE Once(r)'
      <4>0. Once(r)
        BY <2>3, <3>4 DEF OnceInv
      <4>1. r \in local => /\ \A u \in Uploaders : u # t => ~Holds(u, r)
                           /\ central[r] = 0
        <5>1. r \in local => \A u \in Uploaders : u # t => ~Holds(u, r)
          BY <2>3, <3>4 DEF Shared, Holds
        <5>2. ~InHand(t, r)
          BY <2>1 DEF InHand
        <5> QED
          BY <4>0, <5>1, <5>2 DEF Once, LocalIsNew, InHand, Holds
      <4>2. \A u \in Uploaders : u # t => (Holds(u, r)' <=> Holds(u, r))
        BY <2>1 DEF Holds
      <4>3. Holds(t, r)' => r \in local
        BY <2>1, <3>1, OwnRecords DEF Holds
      <4>4. OneHolder(r)'
        BY <4>0, <4>1, <4>2, <4>3 DEF Once, OneHolder
      <4>5. ToDoIsNew(r)'
        BY <2>1, <3>1, <4>0, <4>1, OwnRecords DEF Once, ToDoIsNew
      <4>6. LocalIsNew(r)'
        BY <2>1, <4>1 DEF LocalIsNew
      <4> QED
        BY <2>1, <4>0, <4>4, <4>5, <4>6 DEF Once
    <3> QED
      BY <3>2, <3>3, <3>4 DEF OnceInv
  <2> QED
    BY <1>2, <2>2, <2>3 DEF SelectRows
<1>3. CASE UploadRow(t)
  <2>1. /\ up[t].at = "upload" /\ up[t].row = None
        /\ UNCHANGED <<local, saver, result>>
        /\ \A u \in Uploaders : u # t => up'[u] = up[u]
    BY <1>0, <1>3 DEF UploadRow, At, saving, OnceInv, PlacesAreTidy
  <2>2. PICK s \in up[t].todo :
          \/ /\ central' = [central EXCEPT ![s] = @ + 1]
             /\ up' = [up EXCEPT ![t] = [at |-> "delete", todo |-> @.todo \ {s}, row |-> s]]
             /\ UNCHANGED disturbed
          \/ /\ up' = [up EXCEPT ![t].todo = @ \ {s}]
             /\ UNCHANGED <<central, disturbed>>
          \/ /\ central' = [central EXCEPT ![s] = @ + 1]
             /\ up' = [up EXCEPT ![t].todo = @ \ {s}]
             /\ disturbed' = disturbed \cup {s}
    BY <1>3 DEF UploadRow
  <2>3. s \in Records /\ up'[t].todo = up[t].todo \ {s}
        /\ \A r \in Records : r # s => central'[r] = central[r]
    BY <1>0, <2>2 DEF UpType
  <2>4. \/ /\ central'[s] = central[s] + 1 /\ up'[t].at = "delete" /\ up'[t].row = s
           /\ UNCHANGED disturbed
        \/ /\ up'[t].at = "upload" /\ up'[t].row = None
           /\ (central'[s] = central[s] /\ UNCHANGED disturbed)
                \/ disturbed' = disturbed \cup {s}
    BY <1>0, <2>1, <2>2, <2>3 DEF UpType
  <2>5. PlacesAreTidy'
    BY <2>1, <2>4 DEF OnceInv, PlacesAreTidy
  <2>6. UnsavedIsNowhere'
    <3>1. ASSUME NEW r \in Own, result'[r] = "none" PROVE Unsaved(r)'
      <4>1. Unsaved(r)
        BY <2>1, <3>1 DEF OnceInv, UnsavedIsNowhere
      <4>2. r # s
        BY <4>1 DEF Unsaved, Holds
      <4>3. ~Holds(t, r)'
        BY <2>3, <2>4, <4>1, <4>2, OwnRecords DEF Unsaved, Holds
      <4> QED
        BY <2>1, <2>3, <4>1, <4>2, <4>3, OwnRecords DEF Unsaved, Holds
    <3> QED
      BY <2>1, <3>1 DEF OnceInv, UnsavedIsNowhere
  <2>7. ASSUME NEW r \in Own, r \notin disturbed' PROVE Once(r)'
    <3>0. Once(r) /\ r \in Records
      BY <2>4, <2>7, OwnRecords DEF OnceInv
    <3>1. CASE r # s
      <4>1. central'[r] = central[r] /\ (r \in up'[t].todo <=> r \in up[t].todo)
        BY <2>3, <3>0, <3>1
      <4>2. up'[t].row # r /\ up[t].row # r
        BY <2>1, <2>4, <3>1, OwnRecords
      <4>3. \A u \in Uploaders : /\ Holds(u, r)' <=> Holds(u, r)
                                 /\ InHand(u, r) => InHand(u, r)'
                                 /\ r \in up'[u].todo <=> r \in up[u].todo
                                 /\ up'[u].row = r <=> up[u].row = r
        BY <2>1, <4>1, <4>2 DEF Holds, InHand
      <4>4. OneHolder(r)' /\ ToDoIsNew(r)' /\ LocalIsNew(r)'
        BY <2>1, <3>0, <4>1, <4>3 DEF Once, OneHolder, ToDoIsNew, LocalIsNew
      <4> QED
        BY <3>0, <4>1, <4>4 DEF Once
    <3>2. CASE r = s
      <4>1. central[r] = 0 /\ \A u \in Uploaders : u # t => ~Holds(u, r)
        BY <3>0, <3>2 DEF Once, ToDoIsNew, OneHolder, Holds
      <4>2. \A u \in Uploaders : u # t => ~Holds(u, r)'
        BY <2>1, <4>1 DEF Holds
      <4>3. OneHolder(r)'
        BY <4>2 DEF OneHolder
      <4>4. ToDoIsNew(r)'
        BY <2>3, <3>2, <4>2 DEF ToDoIsNew, Holds
      <4>5. \/ central'[r] = 0
            \/ central'[r] = 1 /\ InHand(t, r)'
        BY <2>4, <2>7, <3>2, <4>1 DEF InHand
      <4>6. LocalIsNew(r)'
        BY <4>5 DEF LocalIsNew
      <4> QED
        BY <4>3, <4>4, <4>5, <4>6 DEF Once
    <3> QED
      BY <3>1, <3>2
  <2> QED
    BY <2>5, <2>6, <2>7 DEF OnceInv
<1>4. CASE DeleteLocalTrans(t)
  <2> DEFINE s == up[t].row
  <2>1. /\ up[t].at = "delete" /\ UNCHANGED <<central, saver, result>>
        /\ \A u \in Uploaders : u # t => up'[u] = up[u]
        /\ up'[t].at = "upload" /\ up'[t].row = None /\ up'[t].todo = up[t].todo
        /\ \/ local' = local \ {s} /\ UNCHANGED disturbed
           \/ disturbed' = disturbed \cup {s} /\ UNCHANGED local
    BY <1>0, <1>4 DEF DeleteLocalTrans, At, saving, UpType
  <2> HIDE DEF s
  <2>2. PlacesAreTidy'
    BY <2>1 DEF OnceInv, PlacesAreTidy
  <2>3. \A u \in Uploaders, r \in Own :
          /\ r \in up'[u].todo => r \in up[u].todo
          /\ up'[u].row = r => up[u].row = r
          /\ Holds(u, r)' => Holds(u, r)
          /\ InHand(u, r) /\ (u # t \/ r # s) => InHand(u, r)'
    BY <2>1, OwnRecords DEF InHand, Holds, s
  <2>4. UnsavedIsNowhere'
    BY <2>1, <2>3 DEF OnceInv, UnsavedIsNowhere, Unsaved
  <2>5. ASSUME NEW r \in Own, r \notin disturbed' PROVE Once(r)'
    <3>0. Once(r)
      BY <2>1, <2>5 DEF OnceInv
    <3>1. OneHolder(r)' /\ ToDoIsNew(r)'
      BY <2>1, <2>3, <3>0 DEF Once, OneHolder, ToDoIsNew
    <3>2. LocalIsNew(r)'
      <4>1. r \in local' => r \in local /\ r # s
        BY <2>1, <2>5
      <4> QED
        BY <2>1, <2>3, <3>0, <4>1 DEF Once, LocalIsNew
    <3> QED
      BY <2>1, <3>0, <3>1, <3>2 DEF Once
  <2> QED
    BY <2>2, <2>4, <2>5 DEF OnceInv
<1> QED
  BY <1>1, <1>2, <1>3, <1>4 DEF Upload

\* What starts an upload, the broadcasts and HouseKeeping, the link.
LEMMA OthersKeepOnce ==
  ASSUME IInv, OnceInv,
         \/ CmdStatusOnline \/ TimerPing \/ TimerCheck \/ HouseKeeping
         \/ BroadcastInsert \/ LinkDown \/ LinkUp
         \/ \E b \in Others : BroadcastDelete(b)
  PROVE  OnceInv'
<1>0. up \in [Uploaders -> UpType]
  BY DEF IInv, TypeOK, UpType
<1>a. ASSUME NEW t \in Uploaders, NEW place \in {"count", "check", "idle"},
             UNCHANGED <<central, local, saver, result, disturbed>>,
             up[t].at \in {"idle", "check"}, Move(t, place)
      PROVE  OnceInv'
  <2>1. /\ up'[t].at = place /\ up'[t].todo = {} /\ up'[t].row = None
        /\ \A u \in Uploaders : u # t => up'[u] = up[u]
    BY <1>0, <1>a DEF Move, OnceInv, PlacesAreTidy, UpType
  <2>2. PlacesAreTidy'
    BY <1>a, <2>1 DEF OnceInv, PlacesAreTidy
  <2>3. \A u \in Uploaders, r \in Own :
          /\ r \in up'[u].todo => r \in up[u].todo
          /\ up'[u].row = r => up[u].row = r
          /\ InHand(u, r) => InHand(u, r)'
    BY <1>a, <2>1, OwnRecords DEF InHand
  <2> QED
    BY <1>a, <2>2, <2>3, QuietOnce DEF OnceInv, UnsavedIsNowhere
<1>b. ASSUME UNCHANGED <<central, saver, result, up, disturbed>>, local' \subseteq local
      PROVE  OnceInv'
  <2>1. PlacesAreTidy'
    BY <1>b DEF OnceInv, PlacesAreTidy
  <2> QED
    BY <1>b, <2>1, QuietOnce DEF InHand, OnceInv, UnsavedIsNowhere
<1>1. CASE CmdStatusOnline
  <2>1. /\ UNCHANGED <<central, local, saver, result, disturbed>> /\ up["pms"].at = "idle"
        /\ Move("pms", "count") \/ UNCHANGED up
    BY <1>1 DEF CmdStatusOnline, At, BeginUpload, saving
  <2> QED
    BY <1>a, <1>b, <2>1
<1>2. CASE TimerPing \/ TimerCheck
  <2>1. /\ UNCHANGED <<central, local, saver, result, disturbed>>
        /\ up["timer"].at \in {"idle", "check"}
        /\ \E place \in {"count", "check", "idle"} : Move("timer", place)
    BY <1>2 DEF TimerPing, TimerCheck, At, BeginUpload, saving
  <2> QED
    BY <1>a, <2>1
<1>3. CASE HouseKeeping
  BY <1>b, <1>3 DEF HouseKeeping, Remove, saving, upload
<1>4. CASE LinkDown \/ LinkUp
  BY <1>b, <1>4 DEF LinkDown, LinkUp, saving, upload
<1>5. CASE \E b \in Others : BroadcastDelete(b)
  <2>1. PICK b \in Others : BroadcastDelete(b)
    BY <1>5
  <2>2. /\ UNCHANGED <<central, saver, result, disturbed>> /\ local' \subseteq local
        /\ up["pms"].at = "idle"
        /\ up'["pms"].at = "broadcast" /\ up'["pms"].todo = up["pms"].todo
        /\ up'["pms"].row = b
        /\ \A u \in Uploaders : u # "pms" => up'[u] = up[u]
    BY <1>0, <2>1 DEF BroadcastDelete, Remove, At, saving, UpType
  <2>3. PlacesAreTidy'
    BY <2>2 DEF OnceInv, PlacesAreTidy
  <2>4. \A u \in Uploaders, r \in Own :
          /\ r \in up'[u].todo => r \in up[u].todo
          /\ up'[u].row = r => up[u].row = r
          /\ InHand(u, r) => InHand(u, r)'
    BY <2>2, OwnRecords DEF InHand
  <2> QED
    BY <2>2, <2>3, <2>4, QuietOnce DEF OnceInv, UnsavedIsNowhere
<1>6. CASE BroadcastInsert
  <2>1. /\ UNCHANGED <<central, saver, result, disturbed>>
        /\ up["pms"].at = "broadcast" /\ up["pms"].row \in Others
        /\ local' \subseteq local \cup {up["pms"].row}
        /\ up' = [up EXCEPT !["pms"] = Idle]
    BY <1>6 DEF BroadcastInsert, At, saving, OnceInv, PlacesAreTidy
  <2>2. /\ up'["pms"] = Idle
        /\ \A u \in Uploaders : u # "pms" => up'[u] = up[u]
    BY <1>0, <2>1
  <2>3. PlacesAreTidy'
    BY <2>2 DEF OnceInv, PlacesAreTidy
  <2>4. \A u \in Uploaders, r \in Own :
          /\ r \in up'[u].todo => r \in up[u].todo
          /\ up'[u].row = r => up[u].row = r
          /\ Holds(u, r)' => Holds(u, r)
          /\ InHand(u, r) => InHand(u, r)'
    BY <2>1, <2>2, OwnRecords DEF InHand, Holds
  <2>5. \A r \in Own : r \in local' => r \in local
    BY <2>1, OwnRecords
  <2>6. UnsavedIsNowhere'
    BY <2>1, <2>4, <2>5 DEF OnceInv, UnsavedIsNowhere, Unsaved
  <2>7. ASSUME NEW r \in Own, r \notin disturbed' PROVE Once(r)'
    <3>0. Once(r)
      BY <2>1, <2>7 DEF OnceInv
    <3>1. OneHolder(r)' /\ ToDoIsNew(r)' /\ LocalIsNew(r)'
      BY <2>1, <2>4, <2>5, <3>0 DEF Once, OneHolder, ToDoIsNew, LocalIsNew
    <3> QED
      BY <2>1, <3>0, <3>1 DEF Once
  <2> QED
    BY <2>3, <2>6, <2>7 DEF OnceInv
<1> QED
  BY <1>1, <1>2, <1>3, <1>4, <1>5, <1>6

\* A restart: the rows in hand are disturbed, the others are still new.
LEMMA CrashKeepsOnce ==
  ASSUME IInv, OnceInv, Crash
  PROVE  OnceInv'
<1>1. /\ \A t \in Uploaders : /\ up'[t].at \in {"idle", "count"} /\ up'[t].todo = {}
                              /\ up'[t].row = None
      /\ UNCHANGED <<central, local>> /\ saver'.at = "idle"
  BY DEF Crash, Boot
<1>2. disturbed' = disturbed \cup {up[t].row : t \in {u \in Uploaders : At(u, "delete")}}
  BY DEF Crash
<1>3. \A t \in Uploaders, r \in Own : InHand(t, r) => r \in disturbed'
  BY <1>2 DEF InHand, At
<1>4. \A r \in Own : result'[r] = "none" => result[r] = "none"
  BY DEF Crash
<1>5. PlacesAreTidy'
  BY <1>1 DEF PlacesAreTidy
<1>6. \A t \in Uploaders, r \in Own :
        /\ r \in up'[t].todo => r \in up[t].todo
        /\ up'[t].row = r => up[t].row = r
  BY <1>1, OwnRecords
<1> QED
  BY <1>1, <1>2, <1>3, <1>4, <1>5, <1>6, QuietOnce

LEMMA StepKeepsOnce == IInv /\ OnceInv /\ [Next]_vars => OnceInv'
<1>1. ASSUME IInv, OnceInv, Next PROVE OnceInv'
  BY <1>1, SavingKeepsOnce, UploadKeepsOnce, OthersKeepOnce, CrashKeepsOnce DEF Next
<1>2. ASSUME IInv, OnceInv, UNCHANGED vars PROVE OnceInv'
  <2>1. UNCHANGED <<central, local, saver, result, up, disturbed>>
    BY <1>2 DEF vars, saving, upload
  <2>2. PlacesAreTidy'
    BY <1>2, <2>1 DEF OnceInv, PlacesAreTidy
  <2> QED
    BY <1>2, <2>1, <2>2, QuietOnce DEF InHand, OnceInv, UnsavedIsNowhere
<1> QED
  BY <1>1, <1>2

(***************************************************************************)
(* An own record reaches the central database twice only if its upload was *)
(* disturbed: for every set of records, whatever fails, however often the  *)
(* program restarts and however the three uploads interleave.              *)
(* (db.cpp:5659-5683, main.cpp:75-78, udp.cpp:244-247.)                    *)
(***************************************************************************)
THEOREM UploadedOnce == Spec => []UploadedOnceUnlessDisturbed
<1>1. IInv /\ OnceInv => UploadedOnceUnlessDisturbed
  <2> SUFFICES ASSUME IInv, OnceInv, NEW r \in Own, central[r] > 1
               PROVE  r \in disturbed
    BY DEF UploadedOnceUnlessDisturbed
  <2>1. central[r] \in Nat
    BY OwnRecords DEF IInv, TypeOK
  <2>2. r \notin disturbed => central[r] <= 1
    BY DEF OnceInv, Once
  <2> QED
    BY <2>1, <2>2
<1> QED
  BY <1>1, InitOnce, StepKeepsOnce, InitIInv, StepKeepsIInv, PTL DEF Spec, SafeSpec
=============================================================================
