---------------------------- MODULE OfflineSync ----------------------------
(***************************************************************************)
(* Where an entry record lives: db::insertentrytrans writes it to the      *)
(* central database, or to the local table Entry_Trans when the central    *)
(* one cannot be reached, and moveOfflineTransToCentral uploads the local  *)
(* rows, one insert and one delete per row, without a transaction and      *)
(* without a lock.  Three threads upload: main at the start, the daily     *)
(* timer, and the PMS strand when the PMS reports that it is online.       *)
(* Broadcasts of the other entry stations of the zone land in the same     *)
(* local table.                                                            *)
(*                                                                         *)
(* A row is a model value: its columns and the order of the upload are     *)
(* left out.  Time is too: HouseKeeping may find any row older than        *)
(* DataKeepDays.                                                           *)
(***************************************************************************)
EXTENDS Naturals

CONSTANTS
  Own,         \* the records this station saves
  Others,      \* the records the other stations broadcast
  Vehicle,     \* the vehicle a record is about
  MaxFaults,   \* bound: losses of the link, failures of a statement and rows
               \* that grew too old
  MaxCrashes   \* bound: restarts of the program

Records == Own \cup Others
Uploaders == {"main", "timer", "pms"}

ASSUME RecordsAssumption == Own \cap Others = {} /\ "none" \notin Records
ASSUME VehicleAssumption == DOMAIN Vehicle = Records
ASSUME BoundsAssumption == MaxFaults \in Nat /\ MaxCrashes \in Nat

VARIABLES
  link,           \* the central database can be reached
  central,        \* how often Entry_Trans_tmp holds each record
  local,          \* the rows of the local Entry_Trans
  online,         \* giSystemOnline = 0
  noOffline,      \* glNoofOfflineData
  offlineStatus,  \* offline_status
  saver,          \* where insertentrytrans is, and the record it stores
  result,         \* what insertentrytrans returned for each record
  up,             \* per uploader: where it is in moveOfflineTransToCentral,
                  \* the rows still to do, the row in hand
  heard,          \* broadcasts received
  faults, crashes,
  removed,    \* history: own rows deleted by a broadcast or by HouseKeeping
              \* before they were in the central database
  disturbed   \* history: rows whose upload was interrupted or overlapped

upload == <<offlineStatus, up, disturbed>>
saving == <<saver, result>>
budget == <<faults, crashes>>
vars == <<link, central, local, online, noOffline, saving, upload, heard,
          budget, removed>>

None == "none"
Idle == [at |-> "idle", todo |-> {}, row |-> None]
Quiet == [at |-> "idle", row |-> None]

\* main starts with an upload; nobody else does until it has ended.
Boot == [t \in Uploaders |-> IF t = "main" THEN [Idle EXCEPT !.at = "count"] ELSE Idle]

Init ==
  /\ link = TRUE
  /\ central = [r \in Records |-> 0] /\ local = {}
  /\ online = TRUE /\ noOffline = 0 /\ offlineStatus = FALSE
  /\ saver = Quiet /\ result = [r \in Own |-> "none"]
  /\ up = Boot
  /\ heard = {}
  /\ faults = 0 /\ crashes = 0
  /\ removed = {} /\ disturbed = {}

\* A statement that may fail either works or uses up a fault.
Works == UNCHANGED budget
Fails == faults < MaxFaults /\ faults' = faults + 1 /\ UNCHANGED crashes

-----------------------------------------------------------------------------
(* insertentrytrans, one call at a time: the event thread's, or the PMS    *)
(* strand's for a manual open.                                             *)

\* The connection is alive, or looks alive, or a new one can be made.
ConnectCentral(r) ==
  /\ saver = Quiet /\ result[r] = "none"
  /\ online' = TRUE
  /\ saver' = [at |-> "central", row |-> r]
  /\ UNCHANGED <<link, central, local, noOffline, result, upload, heard,
                 budget, removed>>

CentralFails(r) ==
  /\ saver = Quiet /\ result[r] = "none" /\ ~link
  /\ online' = FALSE
  /\ saver' = [at |-> "local", row |-> r]
  /\ UNCHANGED <<link, central, local, noOffline, result, upload, heard,
                 budget, removed>>

Return(res) ==
  /\ saver' = Quiet
  /\ result' = [result EXCEPT ![saver.row] = res]

\* After a failed insert no other copy of the record is made.
InsertCentral ==
  /\ saver.at = "central"
  /\ \/ /\ link /\ Works
        /\ Return("iDBSuccess")
        /\ central' = [central EXCEPT ![saver.row] = @ + 1]
     \/ /\ IF link THEN Fails ELSE Works
        /\ Return("iCentralFail")
        /\ UNCHANGED central
     \/ /\ link /\ Fails
        /\ Return("iCentralFail")
        /\ central' = [central EXCEPT ![saver.row] = @ + 1]
  /\ UNCHANGED <<link, local, online, noOffline, upload, heard, removed>>

InsertLocal ==
  /\ saver.at = "local"
  /\ \/ Works /\ Return("iDBSuccess")
        /\ local' = local \cup {saver.row}
        /\ noOffline' = noOffline + 1
     \/ Fails /\ Return("iLocalFail")
        /\ UNCHANGED <<local, noOffline>>
  /\ UNCHANGED <<link, central, online, upload, heard, removed>>

-----------------------------------------------------------------------------
(* moveOfflineTransToCentral, on three threads.                            *)

At(t, place) == up[t].at = place
Move(t, place) == up' = [up EXCEPT ![t].at = place]

\* offline_status is reset on entry and set when the count is not zero.
BeginUpload(t) == Move(t, "count") /\ offlineStatus' = FALSE

CountRows(t) ==
  /\ At(t, "count")
  /\ \/ Works /\ offlineStatus' = (offlineStatus \/ local # {}) /\ Move(t, "select")
     \/ Fails /\ Move(t, "idle") /\ UNCHANGED offlineStatus
  /\ UNCHANGED <<link, central, local, online, noOffline, saving, heard,
                 removed, disturbed>>

\* Another thread has the row in hand or still to do.
Shared(t, r) == \E u \in Uploaders \ {t} : r \in up[u].todo \/ up[u].row = r

SelectRows(t) ==
  /\ At(t, "select")
  /\ \/ /\ offlineStatus /\ Works
        /\ up' = [up EXCEPT ![t] = [Idle EXCEPT !.at = "upload", !.todo = local]]
        /\ disturbed' = disturbed \cup {r \in local : Shared(t, r)}
     \/ /\ IF offlineStatus THEN Fails ELSE Works
        /\ up' = [up EXCEPT ![t] = Idle]
        /\ UNCHANGED disturbed
  /\ UNCHANGED <<link, central, local, online, noOffline, saving, heard,
                 offlineStatus, removed>>

\* Mutation: the row is deleted whether or not the insert succeeded.
UploadUnchecked(t) ==
  /\ At(t, "upload")
  /\ \E r \in up[t].todo :
       /\ up' = [up EXCEPT ![t] = [at |-> "delete", todo |-> @.todo \ {r}, row |-> r]]
       /\ \/ link /\ Works /\ central' = [central EXCEPT ![r] = @ + 1]
          \/ (IF link THEN Fails ELSE Works) /\ UNCHANGED central
  /\ UNCHANGED <<link, local, online, noOffline, saving, heard, offlineStatus,
                 removed, disturbed>>

\* An insert works, fails, or works while its answer is lost.
UploadRow(t) ==
  /\ At(t, "upload")
  /\ \E r \in up[t].todo :
       \/ /\ link /\ Works
          /\ central' = [central EXCEPT ![r] = @ + 1]
          /\ up' = [up EXCEPT ![t] = [at |-> "delete", todo |-> @.todo \ {r}, row |-> r]]
          /\ UNCHANGED disturbed
       \/ /\ IF link THEN Fails ELSE Works
          /\ up' = [up EXCEPT ![t].todo = @ \ {r}]
          /\ UNCHANGED <<central, disturbed>>
       \/ /\ link /\ Fails
          /\ central' = [central EXCEPT ![r] = @ + 1]
          /\ up' = [up EXCEPT ![t].todo = @ \ {r}]
          /\ disturbed' = disturbed \cup {r}
  /\ UNCHANGED <<link, local, online, noOffline, saving, heard, offlineStatus,
                 removed>>

\* Mutation: uploaded rows stay in the local table.
KeepRow(t) ==
  /\ At(t, "delete")
  /\ up' = [up EXCEPT ![t] = [@ EXCEPT !.at = "upload", !.row = None]]
  /\ UNCHANGED <<link, central, local, online, noOffline, saving, heard,
                 budget, offlineStatus, removed, disturbed>>

DeleteLocalTrans(t) ==
  /\ At(t, "delete")
  /\ up' = [up EXCEPT ![t] = [@ EXCEPT !.at = "upload", !.row = None]]
  /\ \/ Works /\ local' = local \ {up[t].row} /\ UNCHANGED disturbed
     \/ Fails /\ disturbed' = disturbed \cup {up[t].row} /\ UNCHANGED local
  /\ UNCHANGED <<link, central, online, noOffline, saving, heard,
                 offlineStatus, removed>>

EndUpload(t) ==
  /\ At(t, "upload") /\ up[t].todo = {}
  /\ up' = [up EXCEPT ![t] = Idle]
  /\ UNCHANGED <<link, central, local, online, noOffline, saving, heard,
                 budget, offlineStatus, removed, disturbed>>

Upload(t) ==
  \/ CountRows(t) \/ SelectRows(t) \/ UploadRow(t) \/ DeleteLocalTrans(t)
  \/ EndUpload(t)

\* Rows leave the local table without an upload.
Remove(rows) ==
  /\ local' = local \ rows
  /\ removed' = removed \cup {r \in rows \cap Own : central[r] = 0}

-----------------------------------------------------------------------------
(* What starts an upload.                                                  *)

Booted == At("main", "idle")

\* CmdStatusOnline: nothing happens while the station thinks it is online.
CmdStatusOnline ==
  /\ Booted /\ At("pms", "idle") /\ ~online
  /\ online' = TRUE
  /\ IF noOffline > 0 THEN BeginUpload("pms") ELSE UNCHANGED <<up, offlineStatus>>
  /\ UNCHANGED <<link, central, local, noOffline, saving, heard, budget,
                 removed, disturbed>>

\* Mutation: the daily timer does not look whether the central server is back.
NoPing ==
  /\ Booted /\ At("timer", "idle")
  /\ Move("timer", "check")
  /\ UNCHANGED <<link, central, local, online, noOffline, saving, heard,
                 budget, offlineStatus, removed, disturbed>>

\* The daily timer, while no vehicle is on loop A: a ping ends the offline
\* state, then giSystemOnline is read again.
TimerPing ==
  /\ Booted /\ At("timer", "idle")
  /\ online' = (online \/ link)
  /\ Move("timer", "check")
  /\ UNCHANGED <<link, central, local, noOffline, saving, heard, budget,
                 offlineStatus, removed, disturbed>>

TimerCheck ==
  /\ At("timer", "check")
  /\ IF online /\ noOffline > 0 THEN BeginUpload("timer")
     ELSE Move("timer", "idle") /\ UNCHANGED offlineStatus
  /\ UNCHANGED <<link, central, local, online, noOffline, saving, heard,
                 budget, removed, disturbed>>

\* The daily timer, once a day: rows that are too old go, uploaded or not.
\* That rows grew too old is counted with the faults, to bound it.
HouseKeeping ==
  /\ Booted /\ At("timer", "idle")
  /\ Fails
  /\ \E old \in SUBSET local : Remove(old)
  /\ UNCHANGED <<link, central, online, noOffline, saving, upload, heard>>

-----------------------------------------------------------------------------
(* insertbroadcasttrans: the rows of the vehicle go, the new one comes.    *)

RowsOfSameVehicle(b) == {r \in local : Vehicle[r] = Vehicle[b]}

BroadcastDelete(b) ==
  /\ Booted /\ At("pms", "idle") /\ b \notin heard
  /\ heard' = heard \cup {b}
  /\ up' = [up EXCEPT !["pms"] = [@ EXCEPT !.at = "broadcast", !.row = b]]
  /\ \/ Works /\ Remove(RowsOfSameVehicle(b))
     \/ Fails /\ UNCHANGED <<local, removed>>
  /\ UNCHANGED <<link, central, online, noOffline, saving, offlineStatus,
                 disturbed>>

BroadcastInsert ==
  /\ At("pms", "broadcast")
  /\ up' = [up EXCEPT !["pms"] = Idle]
  /\ \/ Works /\ local' = local \cup {up["pms"].row}
     \/ Fails /\ UNCHANGED local
  /\ UNCHANGED <<link, central, online, noOffline, saving, heard,
                 offlineStatus, removed, disturbed>>

-----------------------------------------------------------------------------
(* The link and the program.                                               *)

LinkDown ==
  /\ link /\ Fails
  /\ link' = FALSE
  /\ UNCHANGED <<central, local, online, noOffline, saving, upload, heard,
                 removed>>

LinkUp ==
  /\ ~link
  /\ link' = TRUE
  /\ UNCHANGED <<central, local, online, noOffline, saving, upload, heard,
                 budget, removed>>

\* After a restart glNoofOfflineData is 0, and main uploads what is there.
Crash ==
  /\ crashes < MaxCrashes /\ crashes' = crashes + 1
  /\ online' = link /\ noOffline' = 0 /\ offlineStatus' = FALSE
  /\ saver' = Quiet
  /\ result' = [r \in Own |-> IF saver.row = r THEN "lost" ELSE result[r]]
  /\ up' = Boot
  /\ disturbed' = disturbed \cup {up[t].row : t \in {u \in Uploaders : At(u, "delete")}}
  /\ UNCHANGED <<link, central, local, heard, faults, removed>>

-----------------------------------------------------------------------------
Save(r) == ConnectCentral(r) \/ CentralFails(r)

Next ==
  \/ \E r \in Own : Save(r)
  \/ InsertCentral \/ InsertLocal
  \/ \E t \in Uploaders : Upload(t)
  \/ CmdStatusOnline \/ TimerPing \/ TimerCheck \/ HouseKeeping
  \/ \E b \in Others : BroadcastDelete(b)
  \/ BroadcastInsert
  \/ LinkDown \/ LinkUp
  \/ Crash

\* The daily timer goes on firing, started work goes on, and the network
\* is repaired.  The PMS and the vehicles owe nothing.
Fairness ==
  /\ \A t \in Uploaders : WF_vars(Upload(t))
  /\ WF_vars(TimerPing) /\ WF_vars(TimerCheck)
  /\ WF_vars(InsertCentral \/ InsertLocal) /\ WF_vars(BroadcastInsert)
  /\ WF_vars(LinkUp)

SafeSpec == Init /\ [][Next]_vars
Spec == SafeSpec /\ Fairness

-----------------------------------------------------------------------------
\* The variables have their types.
TypeOK ==
  /\ {link, online, offlineStatus} \subseteq BOOLEAN
  /\ central \in [Records -> Nat] /\ local \subseteq Records
  /\ noOffline \in Nat
  /\ saver \in [at : {"idle", "central", "local"}, row : Own \cup {None}]
  /\ result \in [Own -> {"none", "iDBSuccess", "iCentralFail", "iLocalFail", "lost"}]
  /\ up \in [Uploaders ->
       [at : {"idle", "check", "count", "select", "upload", "delete", "broadcast"},
        todo : SUBSET Records, row : Records \cup {None}]]
  /\ heard \subseteq Others
  /\ faults \in 0..MaxFaults /\ crashes \in 0..MaxCrashes
  /\ removed \subseteq Records /\ disturbed \subseteq Records

(***************************************************************************)
(* A record whose insert was reported as a success is in one of the two    *)
(* databases, through lost links, failed statements, restarts and          *)
(* concurrent uploads, unless a broadcast about its vehicle or the daily   *)
(* HouseKeeping deleted its row before it was uploaded.  (db.cpp:258,      *)
(* 452-460, 5657-5683, 5952.)                                              *)
(***************************************************************************)
ReportedRecordsAreKept ==
  \A r \in Own :
    result[r] = "iDBSuccess" => central[r] > 0 \/ r \in local \/ r \in removed

(***************************************************************************)
(* The central database holds a record of this station twice only if two   *)
(* threads had its row at the same time, or the answer to its insert was   *)
(* lost, or its delete failed or was cut off by a restart after the        *)
(* insert.  (db.cpp:5659-5683, main.cpp:75-78, udp.cpp:244-247.)           *)
(***************************************************************************)
UploadedOnceUnlessDisturbed ==
  \A r \in Own : central[r] > 1 => r \in disturbed

(***************************************************************************)
(* A row that is stored offline and counted leaves the local table, by an  *)
(* upload of the daily timer at the latest, once faults stop; a restart    *)
(* resets the count and is the only way to strand it.  (main.cpp:46-78,    *)
(* db.cpp:459, operation.cpp:979.)                                         *)
(***************************************************************************)
OfflineRowsAreUploaded ==
  \A r \in Own : (r \in local /\ noOffline > 0) ~> (r \notin local \/ noOffline = 0)
=============================================================================
