----------------------------- MODULE Catalogue -----------------------------
(***************************************************************************)
(* The tables a station copies from the central database, one definition   *)
(* per function of db.cpp: how the table is downloaded, how a row is       *)
(* written to the local database, how the local table is read into         *)
(* memory.  A table maps a key to a version of its row; NoRow is none.  In *)
(* a local table, whose keys need not be unique, a key has the set of the  *)
(* versions of its rows.  Tables describes the machine that executes these.*)
(***************************************************************************)
EXTENDS Naturals

CONSTANTS
  Keys,   \* the keys of a table: season number, parameter name, day type ...
  Batch   \* the TOP of downloadseason's SELECT

ASSUME BatchAssumption == Batch \in Nat \ {0}

NoRow == 0
Empty == [k \in Keys |-> NoRow]
In(rows) == {k \in Keys : rows[k] # NoRow}

NoRows == [k \in Keys |-> {}]
Stored(rows) == {k \in Keys : rows[k] # {}}

-----------------------------------------------------------------------------
(* Downloads.  "asks": with iCheckStatus = 1 the table is downloaded only  *)
(* while its own flag in parameter_mst is set, and the flag is reset at    *)
(* the end.  "counts": a SELECT count(..) goes first.  "stops": a count    *)
(* of 0 ends the download.  "only": the rows selected are those this       *)
(* station has not fetched.  "clears": when the local rows are deleted.    *)
(* "marks": a row that was written is marked as fetched.                   *)

Copied ==
  [asks |-> FALSE, counts |-> TRUE, stops |-> FALSE, only |-> FALSE,
   top |-> FALSE, clears |-> "never", marks |-> FALSE]
Fetched == [Copied EXCEPT !.only = TRUE, !.marks = TRUE]
Replaced == [Copied EXCEPT !.counts = FALSE, !.clears = "before"]

downloadseason == [Fetched EXCEPT !.top = TRUE, !.stops = TRUE]
downloadledmessage == Fetched
downloadparameter == Fetched
downloadvehicletype == Copied
downloadstationsetup == Copied
downloadTR == Copied
downloadtariffsetup == Replaced
downloadtarifftypeinfo == Replaced
downloadxtariff == Replaced
downloadholidaymst ==
  [Copied EXCEPT !.counts = FALSE, !.clears = "after", !.asks = TRUE]

-----------------------------------------------------------------------------
(* Writing one row: looked up by its key by a SELECT of its own and then   *)
(* updated or inserted, or inserted without a look.  Nothing but a primary *)
(* key keeps an INSERT from adding a second row of the same key: seasons,  *)
(* messages, parameters and vehicle types are numbered by the database,    *)
(* the station setup has no key (createLocalDB_linuxpbs.sql).              *)

LooksUp(name) ==
  name \in {"Season", "Message", "Parameter", "VehicleType", "StationSetup", "TR"}
HasKey(name) ==
  name \in {"TR", "TariffSetup", "TariffTypeInfo", "XTariff", "Holiday"}

\* An UPDATE changes every row of the key, if any.
Update(rows, k, v) ==
  IF rows[k] = {} THEN rows ELSE [rows EXCEPT ![k] = {v}]
Insert(rows, k, v) == [rows EXCEPT ![k] = @ \cup {v}]
Upsert(rows, k, v, found) ==
  IF found THEN Update(rows, k, v) ELSE Insert(rows, k, v)

\* A statement that the primary key makes fail.
Refuses(name, rows, k, found) == HasKey(name) /\ ~found /\ rows[k] # {}

\* Mutation: the row is inserted whether or not it was found.
InsertOnly(rows, k, v, found) == Insert(rows, k, v)

writeseason2local(rows, k, v, found) == Upsert(rows, k, v, found)
writeledmessage2local(rows, k, v, found) == Upsert(rows, k, v, found)
writeparameter2local(rows, k, v, found) == Upsert(rows, k, v, found)
writevehicletype2local(rows, k, v, found) == Upsert(rows, k, v, found)
writestationsetup2local(rows, k, v, found) == Upsert(rows, k, v, found)
writetr2local(rows, k, v, found) == Upsert(rows, k, v, found)
writetariffsetup2local(rows, k, v) == Insert(rows, k, v)
writetarifftypeinfo2local(rows, k, v) == Insert(rows, k, v)
writextariff2local(rows, k, v) == Insert(rows, k, v)
writeholidaymst2local(rows, k, v) == Insert(rows, k, v)

WriteRow(name, rows, k, v, found) ==
  CASE name = "Season" -> writeseason2local(rows, k, v, found)
    [] name = "Message" -> writeledmessage2local(rows, k, v, found)
    [] name = "Parameter" -> writeparameter2local(rows, k, v, found)
    [] name = "VehicleType" -> writevehicletype2local(rows, k, v, found)
    [] name = "StationSetup" -> writestationsetup2local(rows, k, v, found)
    [] name = "TR" -> writetr2local(rows, k, v, found)
    [] name = "TariffSetup" -> writetariffsetup2local(rows, k, v)
    [] name = "TariffTypeInfo" -> writetarifftypeinfo2local(rows, k, v)
    [] name = "XTariff" -> writextariff2local(rows, k, v)
    [] name = "Holiday" -> writeholidaymst2local(rows, k, v)

-----------------------------------------------------------------------------
(* Reading at least one local row into memory.  Most tables overwrite the  *)
(* entries they have a row for and keep the others; vehicle types and      *)
(* receipt lines are appended to a list that is never cleared and searched *)
(* from its front; the lists of holidays and of exit charges are cleared   *)
(* first.                                                                  *)

AssignRows(memory, rows) ==
  [k \in Keys |-> IF rows[k] # NoRow THEN rows[k] ELSE memory[k]]
AppendRows(memory, rows) ==
  [k \in Keys |-> IF memory[k] # NoRow THEN memory[k] ELSE rows[k]]

loadEntrymessage(memory, rows) == AssignRows(memory, rows)
loadExitLcdAndLedMessage(memory, rows) == AssignRows(memory, rows)
loadParam(memory, rows) == AssignRows(memory, rows)
loadstationsetup(memory, rows) == AssignRows(memory, rows)
loadvehicletype(memory, rows) == AppendRows(memory, rows)
loadTR(memory, rows) == AppendRows(memory, rows)
WriteTariff2RAM(memory, rows) == AssignRows(memory, rows)
LoadTariffTypeInfo(memory, rows) == AssignRows(memory, rows)
LoadXTariff(memory, rows) == rows
LoadHoliday(memory, rows) == rows

LoadRows(name, memory, rows) ==
  CASE name = "Message" ->
         loadExitLcdAndLedMessage(loadEntrymessage(memory, rows), rows)
    [] name = "Parameter" -> loadParam(memory, rows)
    [] name = "VehicleType" -> loadvehicletype(memory, rows)
    [] name = "StationSetup" -> loadstationsetup(memory, rows)
    [] name = "TR" -> loadTR(memory, rows)
    [] name = "TariffSetup" -> WriteTariff2RAM(memory, rows)
    [] name = "TariffTypeInfo" -> LoadTariffTypeInfo(memory, rows)
    [] name = "XTariff" -> LoadXTariff(memory, rows)
    [] name = "Holiday" -> LoadHoliday(memory, rows)

\* Tables whose load downloads them once when the local table is empty.
Refetches(name) == name \in {"TariffSetup", "TariffTypeInfo", "XTariff", "Holiday"}

\* The tables of which LoadedparameterOK wants to have seen a row.
LoadedparameterOK == {"Message", "Parameter", "StationSetup", "VehicleType"}

-----------------------------------------------------------------------------
Table(name, download) == [name |-> name, download |-> download]

AllTables ==
  {Table("Season", downloadseason), Table("Message", downloadledmessage),
   Table("Parameter", downloadparameter),
   Table("VehicleType", downloadvehicletype),
   Table("StationSetup", downloadstationsetup), Table("TR", downloadTR),
   Table("TariffSetup", downloadtariffsetup),
   Table("TariffTypeInfo", downloadtarifftypeinfo),
   Table("XTariff", downloadxtariff), Table("Holiday", downloadholidaymst)}
=============================================================================
