----------------------------- MODULE TablesProofs -----------------------------
(***************************************************************************)
(* Proofs about Tables, for any of the tables, any number of keys and of   *)
(* disturbances: the types; that a row counted as fetched is the local     *)
(* one; that a station that runs has loaded what its start asked for; that *)
(* a copy is whole; that the monitor is told of rows there were.           *)
(***************************************************************************)
EXTENDS Tables, TLAPS

Places == {"idle", "ask", "count", "clear", "select", "truncate", "lookup",
           "write", "mark", "unask", "load", "reply"}
Names == {"Season", "Message", "Parameter", "VehicleType", "StationSetup", "TR",
          "TariffSetup", "TariffTypeInfo", "XTariff", "Holiday"}

\* The tables whose rows are marked are three, and never cleared.
LEMMA MarkedTables ==
  ASSUME NEW x \in AllTables
  PROVE  /\ x.name \in Names
         /\ x.download.asks \in BOOLEAN
         /\ x.download.marks => /\ x.download.clears = "never"
                                /\ x.name \in {"Season", "Message", "Parameter"}
<1>1. downloadseason.asks = FALSE /\ downloadseason.clears = "never"
  BY DEF downloadseason, Fetched, Copied
<1>2. downloadholidaymst.asks = TRUE /\ downloadholidaymst.marks = FALSE
  BY DEF downloadholidaymst, Copied
<1>3. Fetched.asks = FALSE /\ Fetched.clears = "never"
  BY DEF Fetched, Copied
<1>4. Copied.asks = FALSE /\ Copied.marks = FALSE
  BY DEF Copied
<1>5. Replaced.asks = FALSE /\ Replaced.marks = FALSE
  BY DEF Replaced, Copied
<1>6. CASE x = Table("Season", downloadseason)
  <2>1. x.name = "Season" /\ x.download = downloadseason
    BY <1>6 DEF Table
  <2> QED
    BY <1>1, <2>1 DEF Names
<1>7. ASSUME NEW n \in {"Message", "Parameter"}, x = Table(n, Fetched)
      PROVE  /\ n \in Names /\ x.name = n /\ x.download.asks = FALSE
             /\ x.download.clears = "never"
  <2>1. x.name = n /\ x.download = Fetched
    BY <1>7 DEF Table
  <2> QED
    BY <1>3, <2>1 DEF Names
<1>8. ASSUME NEW n \in {"VehicleType", "StationSetup", "TR"}, x = Table(n, Copied)
      PROVE  /\ n \in Names /\ x.name = n /\ x.download.asks = FALSE
             /\ x.download.marks = FALSE
  <2>1. x.name = n /\ x.download = Copied
    BY <1>8 DEF Table
  <2> QED
    BY <1>4, <2>1 DEF Names
<1>9. ASSUME NEW n \in {"TariffSetup", "TariffTypeInfo", "XTariff"}, x = Table(n, Replaced)
      PROVE  /\ n \in Names /\ x.name = n /\ x.download.asks = FALSE
             /\ x.download.marks = FALSE
  <2>1. x.name = n /\ x.download = Replaced
    BY <1>9 DEF Table
  <2> QED
    BY <1>5, <2>1 DEF Names
<1>10. CASE x = Table("Holiday", downloadholidaymst)
  <2>1. x.name = "Holiday" /\ x.download = downloadholidaymst
    BY <1>10 DEF Table
  <2> QED
    BY <1>2, <2>1 DEF Names
<1>11. \/ x = Table("Season", downloadseason)
       \/ \E n \in {"Message", "Parameter"} : x = Table(n, Fetched)
       \/ \E n \in {"VehicleType", "StationSetup", "TR"} : x = Table(n, Copied)
       \/ \E n \in {"TariffSetup", "TariffTypeInfo", "XTariff"} : x = Table(n, Replaced)
       \/ x = Table("Holiday", downloadholidaymst)
  BY DEF AllTables, downloadledmessage, downloadparameter, downloadvehicletype,
         downloadstationsetup, downloadTR, downloadtariffsetup,
         downloadtarifftypeinfo, downloadxtariff
<1>12. CASE \E n \in {"Message", "Parameter"} : x = Table(n, Fetched)
  BY <1>7, <1>12
<1>13. CASE \E n \in {"VehicleType", "StationSetup", "TR"} : x = Table(n, Copied)
  BY <1>8, <1>13
<1>14. CASE \E n \in {"TariffSetup", "TariffTypeInfo", "XTariff"} : x = Table(n, Replaced)
  BY <1>9, <1>14
<1> QED
  BY <1>6, <1>10, <1>11, <1>12, <1>13, <1>14

-----------------------------------------------------------------------------
(* Rows.                                                                   *)

Rows == [Keys -> Versions]

LEMMA VersionsFacts ==
  /\ NoRow \in Versions /\ 1 \in Versions
  /\ \A n \in 0..MaxEvents : n < MaxEvents => n + 2 \in Versions
  BY BoundAssumption DEF Versions, NoRow

LEMMA EmptyRows == Empty \in Rows /\ In(Empty) = {}
  BY VersionsFacts DEF Rows, Empty, In

\* What a local table holds for each key.
LocalRows == [Keys -> SUBSET Versions]

LEMMA NoLocalRows == NoRows \in LocalRows /\ \A k \in Keys : NoRows[k] = {}
  BY DEF LocalRows, NoRows

\* An UPDATE or an INSERT leaves the rows of other keys alone.
LEMMA Statements2local ==
  ASSUME NEW rows \in LocalRows, NEW k \in Keys, NEW v \in Versions, NEW seen
  PROVE  /\ Insert(rows, k, v) \in LocalRows /\ Upsert(rows, k, v, seen) \in LocalRows
         /\ Insert(rows, k, v)[k] = rows[k] \cup {v}
         /\ \A j \in Keys \ {k} : /\ Insert(rows, k, v)[j] = rows[j]
                                 /\ Upsert(rows, k, v, seen)[j] = rows[j]
         /\ Upsert(rows, k, v, seen)[k] \subseteq rows[k] \cup {v}
         /\ seen = TRUE /\ rows[k] # {} => Upsert(rows, k, v, seen)[k] = {v}
         /\ seen = FALSE => Upsert(rows, k, v, seen)[k] = rows[k] \cup {v}
  BY DEF Upsert, Update, Insert, LocalRows

\* Every table is written by one of the two.
LEMMA RowIsWritten ==
  ASSUME NEW name \in Names, NEW rows \in LocalRows, NEW k \in Keys,
         NEW v \in Versions, NEW seen
  PROVE  /\ WriteRow(name, rows, k, v, seen) \in LocalRows
         /\ \A j \in Keys \ {k} : WriteRow(name, rows, k, v, seen)[j] = rows[j]
         /\ WriteRow(name, rows, k, v, seen)[k] \subseteq rows[k] \cup {v}
         /\ LooksUp(name) => WriteRow(name, rows, k, v, seen) = Upsert(rows, k, v, seen)
         /\ ~LooksUp(name) => WriteRow(name, rows, k, v, seen) = Insert(rows, k, v)
<1>1. LooksUp(name) => WriteRow(name, rows, k, v, seen) = Upsert(rows, k, v, seen)
  BY DEF WriteRow, LooksUp, Names, writeseason2local, writeledmessage2local,
         writeparameter2local, writevehicletype2local, writestationsetup2local,
         writetr2local
<1>2. ~LooksUp(name) => WriteRow(name, rows, k, v, seen) = Insert(rows, k, v)
  BY DEF WriteRow, LooksUp, Names, writetariffsetup2local, writetarifftypeinfo2local,
         writextariff2local, writeholidaymst2local
<1>3. \/ WriteRow(name, rows, k, v, seen) = Upsert(rows, k, v, seen)
      \/ WriteRow(name, rows, k, v, seen) = Insert(rows, k, v)
  BY <1>1, <1>2
<1>4. /\ WriteRow(name, rows, k, v, seen) \in LocalRows
      /\ \A j \in Keys \ {k} : WriteRow(name, rows, k, v, seen)[j] = rows[j]
      /\ WriteRow(name, rows, k, v, seen)[k] \subseteq rows[k] \cup {v}
  <2>1. /\ Upsert(rows, k, v, seen) \in LocalRows /\ Insert(rows, k, v) \in LocalRows
        /\ \A j \in Keys \ {k} : /\ Upsert(rows, k, v, seen)[j] = rows[j]
                                /\ Insert(rows, k, v)[j] = rows[j]
        /\ Upsert(rows, k, v, seen)[k] \subseteq rows[k] \cup {v}
        /\ Insert(rows, k, v)[k] \subseteq rows[k] \cup {v}
    BY DEF Upsert, Update, Insert, LocalRows
  <2> DEFINE W == WriteRow(name, rows, k, v, seen)
             U == Upsert(rows, k, v, seen)
             I == Insert(rows, k, v)
  <2>2. W = U \/ W = I
    BY <1>3
  <2> HIDE DEF W, U, I
  <2>3. /\ W \in LocalRows /\ \A j \in Keys \ {k} : W[j] = rows[j]
        /\ W[k] \subseteq rows[k] \cup {v}
    BY <2>1, <2>2 DEF U, I
  <2> QED
    BY <2>3 DEF W
<1> QED
  BY <1>1, <1>2, <1>4

\* What is loaded is of its type, and something if there is something.
LEMMA RowsAreLoaded ==
  ASSUME NEW name \in Names \ {"Season"}, NEW mem \in Rows, NEW rows \in Rows
  PROVE  /\ LoadRows(name, mem, rows) \in Rows
         /\ In(rows) # {} => In(LoadRows(name, mem, rows)) # {}
<1>1. \A m \in Rows : AssignRows(m, rows) \in Rows /\ AppendRows(m, rows) \in Rows
  BY DEF AssignRows, AppendRows, Rows
<1>2. ASSUME NEW m \in Rows, In(rows) # {}
      PROVE  In(AssignRows(m, rows)) # {} /\ In(AppendRows(m, rows)) # {}
  <2>1. PICK k \in Keys : rows[k] # NoRow
    BY <1>2 DEF In
  <2>2. AssignRows(m, rows)[k] # NoRow /\ AppendRows(m, rows)[k] # NoRow
    BY <2>1 DEF AssignRows, AppendRows
  <2> QED
    BY <2>2 DEF In
<1>3. LoadRows(name, mem, rows) \in
        {AssignRows(AssignRows(mem, rows), rows), AssignRows(mem, rows),
         AppendRows(mem, rows), rows}
  BY DEF LoadRows, Names, loadEntrymessage, loadExitLcdAndLedMessage, loadParam,
         loadstationsetup, loadvehicletype, loadTR, WriteTariff2RAM,
         LoadTariffTypeInfo, LoadXTariff, LoadHoliday
<1>4. CASE LoadRows(name, mem, rows) = AssignRows(AssignRows(mem, rows), rows)
  BY <1>1, <1>2, <1>4
<1>5. CASE LoadRows(name, mem, rows) \in {AssignRows(mem, rows), AppendRows(mem, rows), rows}
  BY <1>1, <1>2, <1>5
<1> QED
  BY <1>3, <1>4, <1>5

-----------------------------------------------------------------------------
(* Types.                                                                  *)

LEMMA StudiedTable ==
  ASSUME TypeOK
  PROVE  /\ table \in AllTables /\ table.name \in Names
         /\ How.marks => /\ How.clears = "never" /\ LooksUp(table.name)
                         /\ table.name \in {"Season", "Message", "Parameter"}
  BY StudiedAssumption, MarkedTables DEF TypeOK, How, LooksUp

LEMMA NextPlaces ==
  ASSUME NEW t \in Threads, NEW got
  PROVE  /\ AfterDownload(t, got) \in {"load", "reply", "idle"}
         /\ Statements(t) \in {"ask", "count", "clear", "select"}
  BY DEF AfterDownload, Statements

\* Where a thread goes when it goes to a place.
LEMMA Moves ==
  ASSUME TypeOK, NEW t \in Threads, NEW to \in Places,
         (Goto(t, to) /\ UNCHANGED phase) \/ Leave(t, to)
  PROVE  /\ at' \in [Threads -> Places]
         /\ at' = [at EXCEPT ![t] = to]
         /\ phase' \in {"boot", "startup", "serving"}
  BY DEF TypeOK, Places, Goto, Leave

LEMMA NextRowMoves ==
  ASSUME TypeOK, NEW t \in Threads, NEW left, NEW got, NextRow(t, left, got)
  PROVE  /\ at' \in [Threads -> Places]
         /\ \E to \in {"lookup", "write", "unask", "load", "reply", "idle"} :
               at' = [at EXCEPT ![t] = to]
         /\ phase' \in {"boot", "startup", "serving"}
<1>1. \E to \in {"lookup", "write", "unask", "load", "reply", "idle"} :
         (Goto(t, to) /\ UNCHANGED phase) \/ Leave(t, to)
  BY NextPlaces DEF NextRow, FirstStatement
<1>2. PICK to \in {"lookup", "write", "unask", "load", "reply", "idle"} :
         (Goto(t, to) /\ UNCHANGED phase) \/ Leave(t, to)
  BY <1>1
<1> QED
  BY <1>2, Moves DEF Places

LEMMA RowCounts ==
  ASSUME TypeOK, NEW t \in Threads, NEW left, NEW got \in BOOLEAN, NextRow(t, left, got)
  PROVE  some' \in [Threads -> BOOLEAN]
  BY DEF NextRow, Counted, TypeOK

LEMMA EndLoadMoves ==
  ASSUME TypeOK, NEW t \in Threads, NEW ok, EndLoad(t, ok)
  PROVE  /\ at' \in [Threads -> Places]
         /\ \E to \in {"idle", "count"} : at' = [at EXCEPT ![t] = to]
         /\ phase' \in {"boot", "startup", "serving"}
         /\ started' \in {"no", "full", "late", "failed"}
         /\ retried' \in [Threads -> BOOLEAN]
<1>1. retried' \in [Threads -> BOOLEAN]
  BY DEF EndLoad, TypeOK
<1>2. /\ \E to \in {"idle", "count"} : at' = [at EXCEPT ![t] = to]
      /\ phase' \in {"boot", "startup", "serving"}
      /\ started' \in {"no", "full", "late", "failed"}
  BY DEF EndLoad, EndLoadParameter, Leave, Goto, TypeOK
<1>3. at' \in [Threads -> Places]
  BY <1>2 DEF TypeOK, Places
<1> QED
  BY <1>1, <1>2, <1>3

LEMMA EventTypes == ASSUME TypeOK, Works \/ Fails PROVE events' \in 0..MaxEvents
  BY BoundAssumption DEF TypeOK, Works, Fails, Happens

LEMMA ReportTypes ==
  ASSUME TypeOK, NEW t \in Threads, NEW bad \in BOOLEAN, Report(t, bad) \/ NoReport
  PROVE  errFlag' \in BOOLEAN /\ flagBy' \in Threads \cup {"other"}
  BY DEF TypeOK, Report, NoReport

\* What the tables, and what the threads, have to be.
StoreOK ==
  /\ table \in Studied /\ central \in Rows /\ local \in LocalRows /\ memory \in Rows
  /\ fetched \subseteq Keys /\ asked \in BOOLEAN
FlagsOK ==
  /\ errFlag \in BOOLEAN /\ flagBy \in Threads \cup {"other"}
  /\ picked \in BOOLEAN /\ excused \subseteq Keys /\ hurt \in BOOLEAN
  /\ events \in 0..MaxEvents
RunOK ==
  /\ at \in [Threads -> Places] /\ phase \in {"boot", "startup", "serving"}
  /\ started \in {"no", "full", "late", "failed"}
HandOK ==
  /\ hand \in [Threads -> Rows] /\ row \in [Threads -> SUBSET Keys]
  /\ found \in [Threads -> BOOLEAN]
  /\ some \in [Threads -> BOOLEAN] /\ retried \in [Threads -> BOOLEAN]

LEMMA TypeParts == TypeOK <=> StoreOK /\ FlagsOK /\ RunOK /\ HandOK
  BY DEF TypeOK, StoreOK, FlagsOK, RunOK, HandOK, Places, Rows, LocalRows

LEMMA TypePartsNext == TypeOK' <=> StoreOK' /\ FlagsOK' /\ RunOK' /\ HandOK'
  BY DEF TypeOK, StoreOK, FlagsOK, RunOK, HandOK, Places, Rows, LocalRows

\* Moving on and leaving everything else alone.
LEMMA StillTypes ==
  ASSUME TypeOK, NEW t \in Threads, Still(t), Works \/ Fails,
         NEW bad \in BOOLEAN, Report(t, bad) \/ NoReport,
         at' \in [Threads -> Places], phase' \in {"boot", "startup", "serving"},
         picked' \in BOOLEAN, excused' \subseteq Keys, hurt' \in BOOLEAN
  PROVE  TypeOK'
<1>1. StoreOK /\ FlagsOK /\ RunOK /\ HandOK
  BY TypeParts
<1>2. StoreOK' /\ HandOK'
  BY <1>1 DEF StoreOK, HandOK, Still, tables, atRow
<1>3. FlagsOK'
  BY EventTypes, ReportTypes DEF FlagsOK
<1>4. RunOK'
  BY <1>1 DEF RunOK, Still
<1> QED
  BY <1>2, <1>3, <1>4, TypePartsNext

LEMMA AbandonTypes ==
  ASSUME TypeOK, NEW t \in Threads, Abandon(t), Works \/ Fails,
         NEW bad \in BOOLEAN, Report(t, bad) \/ NoReport
  PROVE  TypeOK'
<1>1. at' \in [Threads -> Places] /\ phase' \in {"boot", "startup", "serving"}
  <2>1. AfterDownload(t, FALSE) \in Places
    BY NextPlaces DEF Places
  <2> QED
    BY <2>1, Moves DEF Abandon
<1>2. Still(t) /\ picked' \in BOOLEAN /\ excused' \subseteq Keys /\ hurt' \in BOOLEAN
  BY DEF Abandon, history, TypeOK
<1> QED
  BY <1>1, <1>2, StillTypes

LEMMA ProceedTypes ==
  ASSUME TypeOK, NEW t \in Threads, NEW to \in Places, Proceed(t, to), Works \/ Fails,
         NEW bad \in BOOLEAN, Report(t, bad) \/ NoReport
  PROVE  TypeOK'
<1>1. at' \in [Threads -> Places] /\ phase' \in {"boot", "startup", "serving"}
  BY Moves DEF Proceed
<1>2. Still(t) /\ picked' \in BOOLEAN /\ excused' \subseteq Keys /\ hurt' \in BOOLEAN
  BY DEF Proceed, history, TypeOK
<1> QED
  BY <1>1, <1>2, StillTypes

\* The statements before the first row.
LEMMA AskTypes == ASSUME TypeOK, NEW t \in Threads, Ask(t) PROVE TypeOK'
<1>1. CASE Fails /\ Report(t, TRUE) /\ Abandon(t)
  BY <1>1, AbandonTypes
<1>2. CASE Works /\ Report(t, FALSE) /\ Abandon(t)
  BY <1>2, AbandonTypes
<1>3. CASE Works /\ NoReport /\ Proceed(t, "select")
  <2>1. "select" \in Places
    BY DEF Places
  <2> QED
    BY <1>3, <2>1, ProceedTypes
<1> QED
  BY <1>1, <1>2, <1>3 DEF Ask

LEMMA CountTypes == ASSUME TypeOK, NEW t \in Threads, Count(t) PROVE TypeOK'
<1>1. CASE Fails /\ Report(t, TRUE) /\ Abandon(t)
  BY <1>1, AbandonTypes
<1>2. CASE Works /\ NoReport /\ Abandon(t)
  BY <1>2, AbandonTypes
<1>3. CASE Works /\ Report(t, FALSE) /\ Proceed(t, "select")
  <2>1. "select" \in Places
    BY DEF Places
  <2> QED
    BY <1>3, <2>1, ProceedTypes
<1> QED
  BY <1>1, <1>2, <1>3 DEF Count

LEMMA ClearTypes == ASSUME TypeOK, NEW t \in Threads, Clear(t) PROVE TypeOK'
<1>1. CASE Fails /\ Abandon(t)
  BY <1>1, AbandonTypes DEF Clear
<1>2. CASE ~(Fails /\ Abandon(t))
  <2>1. /\ Works /\ NoReport /\ Goto(t, "select") /\ local' = NoRows /\ hurt' = TRUE
        /\ UNCHANGED <<table, central, fetched, asked, memory, hand, atRow,
                       some, retried, phase, started, picked, excused>>
    BY <1>2 DEF Clear
  <2>2. at' \in [Threads -> Places]
    <3>1. "select" \in Places
      BY DEF Places
    <3> QED
      BY <2>1, <3>1, Moves
  <2>3. StoreOK /\ FlagsOK /\ RunOK /\ HandOK
    BY TypeParts
  <2>4. StoreOK' /\ HandOK'
    BY <2>1, <2>3, NoLocalRows DEF StoreOK, HandOK, atRow
  <2>5. FlagsOK'
    BY <2>1, <2>3, EventTypes DEF FlagsOK, NoReport
  <2>6. RunOK'
    BY <2>1, <2>2, <2>3 DEF RunOK
  <2> QED
    BY <2>4, <2>5, <2>6, TypePartsNext
<1> QED
  BY <1>1, <1>2

LEMMA OnlyRows == ASSUME TypeOK, NEW keys PROVE Only(keys) \in Rows
  BY VersionsFacts DEF TypeOK, Only, Rows

LEMMA DropRows ==
  ASSUME TypeOK, NEW t \in Threads, NEW k \in Keys
  PROVE  /\ Drop(t, k) \in Rows
         /\ [hand EXCEPT ![t] = Drop(t, k)] \in [Threads -> Rows]
<1>1. hand \in [Threads -> Rows]
  BY TypeParts DEF HandOK
<1>2. hand[t] \in Rows
  BY <1>1
<1>3. Drop(t, k) \in Rows
  BY <1>2, VersionsFacts DEF Drop, Rows
<1> QED
  BY <1>1, <1>3

LEMMA SelectTypes == ASSUME TypeOK, NEW t \in Threads, Select(t) PROVE TypeOK'
<1>1. CASE Fails /\ Report(t, TRUE) /\ Abandon(t)
  BY <1>1, AbandonTypes
<1>2. ASSUME NEW got \in SUBSET Qualify,
             SQLSelect(Qualify, How.top, got), Report(t, FALSE),
             hand' = [hand EXCEPT ![t] = Only(got)],
             IF How.clears = "after" /\ got # {}
             THEN Goto(t, "truncate") /\ UNCHANGED <<some, phase>>
             ELSE NextRow(t, Only(got), FALSE),
             hurt' = (got # Qualify \/ (How.clears = "after" /\ got = {})),
             excused' = IF How.marks THEN excused ELSE {},
             picked' = (picked \/ t = Monitor),
             UNCHANGED <<table, tables, atRow, retried, started>>
      PROVE  TypeOK'
  <2>1. StoreOK /\ FlagsOK /\ RunOK /\ HandOK
    BY TypeParts
  <2>2. Works \/ Fails
    BY <1>2 DEF SQLSelect
  <2>3. FlagsOK'
    <3>1. hurt' \in BOOLEAN /\ excused' \subseteq Keys /\ picked' \in BOOLEAN
      BY <1>2, <2>1 DEF FlagsOK
    <3> QED
      BY <1>2, <2>2, <3>1, EventTypes, ReportTypes DEF FlagsOK
  <2>4. /\ at' \in [Threads -> Places] /\ phase' \in {"boot", "startup", "serving"}
        /\ some' \in [Threads -> BOOLEAN]
    <3>1. CASE How.clears = "after" /\ got # {}
      <4>1. "truncate" \in Places
        BY DEF Places
      <4> QED
        BY <1>2, <3>1, <4>1, <2>1, Moves DEF RunOK, HandOK
    <3>2. CASE ~(How.clears = "after" /\ got # {})
      BY <1>2, <3>2, NextRowMoves, RowCounts
    <3> QED
      BY <3>1, <3>2
  <2>5. RunOK'
    BY <1>2, <2>1, <2>4 DEF RunOK
  <2>6. HandOK'
    BY <1>2, <2>1, <2>4, OnlyRows DEF HandOK, atRow
  <2>7. StoreOK'
    BY <1>2, <2>1 DEF StoreOK, tables
  <2> QED
    BY <2>3, <2>5, <2>6, <2>7, TypePartsNext
<1> QED
  BY <1>1, <1>2 DEF Select

LEMMA TruncateTypes == ASSUME TypeOK, NEW t \in Threads, Truncate(t) PROVE TypeOK'
<1>1. StoreOK /\ FlagsOK /\ RunOK /\ HandOK
  BY TypeParts
<1>2. StoreOK'
  BY <1>1, NoLocalRows DEF StoreOK, Truncate
<1>3. FlagsOK'
  <2>1. Works \/ Fails
    BY DEF Truncate
  <2>2. hurt' \in BOOLEAN
    BY <1>1 DEF Truncate, FlagsOK
  <2> QED
    BY <1>1, <2>1, <2>2, EventTypes DEF FlagsOK, Truncate, NoReport
<1>4. RunOK'
  <2>1. "write" \in Places
    BY DEF Places
  <2>2. at' \in [Threads -> Places]
    BY <2>1, Moves DEF Truncate
  <2> QED
    BY <1>1, <2>2 DEF RunOK, Truncate
<1>5. HandOK'
  BY <1>1 DEF HandOK, Truncate, atRow
<1> QED
  BY <1>2, <1>3, <1>4, <1>5, TypePartsNext

\* One row, copied or passed over.
LEMMA AtTypes ==
  ASSUME TypeOK, NEW t \in Threads, NEW keys \in SUBSET Keys, NEW seen \in BOOLEAN,
         At(t, keys, seen)
  PROVE  row' \in [Threads -> SUBSET Keys] /\ found' \in [Threads -> BOOLEAN]
  BY DEF TypeOK, At

LEMMA RowTypes ==
  ASSUME TypeOK, NEW t \in Threads, NEW k \in Keys, CopyRow(t, k) \/ SkipRow(t, k),
         UNCHANGED <<started, retried>>
  PROVE  /\ local' \in LocalRows /\ hurt' \in BOOLEAN /\ excused' \subseteq Keys
         /\ RunOK' /\ HandOK'
<1>1. StoreOK /\ FlagsOK /\ RunOK /\ HandOK
  BY TypeParts
<1>2. /\ row' \in [Threads -> SUBSET Keys] /\ found' \in [Threads -> BOOLEAN]
  <2>1. PICK keys \in {{}, {k}} : At(t, keys, FALSE)
    BY DEF CopyRow, SkipRow
  <2> QED
    BY <2>1, AtTypes
<1>3. CASE SkipRow(t, k)
  <2>1. /\ at' \in [Threads -> Places] /\ phase' \in {"boot", "startup", "serving"}
        /\ some' \in [Threads -> BOOLEAN]
    <3>1. some[t] \in BOOLEAN
      BY <1>1 DEF HandOK
    <3> QED
      BY <1>3, <3>1, NextRowMoves, RowCounts DEF SkipRow
  <2>2. RunOK'
    BY <1>1, <2>1 DEF RunOK
  <2>3. hand' \in [Threads -> Rows]
    BY <1>3, DropRows DEF SkipRow
  <2>4. local' \in LocalRows /\ hurt' \in BOOLEAN /\ excused' \subseteq Keys
    BY <1>1, <1>3 DEF SkipRow, StoreOK, FlagsOK
  <2> QED
    BY <1>1, <1>2, <2>1, <2>2, <2>3, <2>4 DEF HandOK
<1>4. CASE CopyRow(t, k)
  <2>1. hand[t] \in Rows
    BY <1>1 DEF HandOK
  <2>2. hand[t][k] \in Versions
    BY <2>1 DEF Rows
  <2>3. local' \in LocalRows
    BY <1>1, <1>4, <2>2, StudiedTable, RowIsWritten DEF CopyRow, StoreOK
  <2>4. hurt' \in BOOLEAN /\ excused' \subseteq Keys
    BY <1>1, <1>4 DEF CopyRow, FlagsOK
  <2>5. CASE How.marks
    <3>1. Goto(t, "mark") /\ UNCHANGED <<hand, some, phase>>
      BY <1>4, <2>5 DEF CopyRow
    <3>2. "mark" \in Places
      BY DEF Places
    <3>3. at' \in [Threads -> Places]
      BY <3>1, <3>2, Moves
    <3>4. RunOK'
      BY <1>1, <3>1, <3>3 DEF RunOK
    <3>5. HandOK'
      BY <1>1, <1>2, <3>1 DEF HandOK
    <3> QED
      BY <2>3, <2>4, <3>4, <3>5
  <2>6. CASE ~How.marks
    <3>1. hand' = [hand EXCEPT ![t] = Drop(t, k)] /\ NextRow(t, Drop(t, k), TRUE)
      BY <1>4, <2>6 DEF CopyRow
    <3>2. /\ at' \in [Threads -> Places] /\ phase' \in {"boot", "startup", "serving"}
          /\ some' \in [Threads -> BOOLEAN]
      BY <3>1, NextRowMoves, RowCounts
    <3>3. RunOK'
      BY <1>1, <3>2 DEF RunOK
    <3>4. hand' \in [Threads -> Rows]
      BY <3>1, DropRows
    <3>5. HandOK'
      BY <1>1, <1>2, <3>2, <3>4 DEF HandOK
    <3> QED
      BY <2>3, <2>4, <3>3, <3>5
  <2> QED
    BY <2>5, <2>6
<1> QED
  BY <1>3, <1>4

\* What the two statements for a row have in common.
LEMMA RowStatementTypes ==
  ASSUME TypeOK, NEW t \in Threads, Works \/ Fails, Report(t, FALSE) \/ NoReport,
         UNCHANGED <<table, central, fetched, asked, memory, retried, started, picked>>,
         local' \in LocalRows, hurt' \in BOOLEAN, excused' \subseteq Keys, RunOK', HandOK'
  PROVE  TypeOK'
<1>1. StoreOK /\ FlagsOK
  BY TypeParts
<1>2. StoreOK'
  BY <1>1 DEF StoreOK
<1>3. FlagsOK'
  BY <1>1, EventTypes, ReportTypes DEF FlagsOK
<1> QED
  BY <1>2, <1>3, TypePartsNext

LEMMA LookupTypes == ASSUME TypeOK, NEW t \in Threads, Lookup(t) PROVE TypeOK'
<1>1. StoreOK /\ FlagsOK /\ RunOK /\ HandOK
  BY TypeParts
<1>2. /\ NoReport
      /\ UNCHANGED <<table, central, fetched, asked, memory, retried, started, picked>>
  BY DEF Lookup
<1>3. ASSUME NEW k \in Keys, Fails, SkipRow(t, k) PROVE TypeOK'
  <2>1. /\ local' \in LocalRows /\ hurt' \in BOOLEAN /\ excused' \subseteq Keys
        /\ RunOK' /\ HandOK'
    BY <1>2, <1>3, RowTypes
  <2> QED
    BY <1>2, <1>3, <2>1, RowStatementTypes
<1>4. ASSUME NEW k \in Keys, NEW got, Works \/ Fails, At(t, {k}, got # {}), Goto(t, "write"),
             IF k \in Stored(local) \ got
             THEN hurt' = TRUE /\ excused' = excused \cup {k}
             ELSE UNCHANGED <<hurt, excused>>,
             UNCHANGED <<local, hand, some, phase>>
      PROVE  TypeOK'
  <2>1. row' \in [Threads -> SUBSET Keys] /\ found' \in [Threads -> BOOLEAN]
    <3>1. {k} \in SUBSET Keys /\ (got # {}) \in BOOLEAN
      OBVIOUS
    <3> QED
      BY <1>4, <3>1, AtTypes
  <2>2. HandOK'
    BY <1>1, <1>2, <1>4, <2>1 DEF HandOK
  <2>3. "write" \in Places
    BY DEF Places
  <2>4. RunOK'
    BY <1>1, <1>2, <1>4, <2>3, Moves DEF RunOK
  <2>5. local' \in LocalRows /\ hurt' \in BOOLEAN /\ excused' \subseteq Keys
    BY <1>1, <1>4 DEF StoreOK, FlagsOK
  <2> QED
    BY <1>2, <1>4, <2>2, <2>4, <2>5, RowStatementTypes
<1> QED
  <2>1. InHand(t) \subseteq Keys
    BY DEF InHand, In
  <2>2. \A keys, got : SQLSelect(keys, FALSE, got) => Works \/ Fails
    BY DEF SQLSelect
  <2> QED
    BY <1>3, <1>4, <2>1, <2>2 DEF Lookup

\* The row that Write is about.
LEMMA WrittenKey ==
  ASSUME TypeOK, NEW t \in Threads
  PROVE  (IF LooksUp(table.name) THEN row[t] ELSE InHand(t)) \subseteq Keys
  BY TypeParts DEF HandOK, InHand, In

LEMMA WriteTypes == ASSUME TypeOK, NEW t \in Threads, Write(t) PROVE TypeOK'
<1>1. PICK k \in Keys : CopyRow(t, k) \/ SkipRow(t, k)
  BY WrittenKey DEF Write
<1>2. /\ Works \/ Fails
      /\ Report(t, FALSE) \/ NoReport
      /\ UNCHANGED <<table, central, fetched, asked, memory, retried, started, picked>>
  BY DEF Write
<1>3. /\ local' \in LocalRows /\ hurt' \in BOOLEAN /\ excused' \subseteq Keys
      /\ RunOK' /\ HandOK'
  BY <1>1, <1>2, RowTypes
<1> QED
  BY <1>2, <1>3, RowStatementTypes

LEMMA MarkTypes == ASSUME TypeOK, NEW t \in Threads, Mark(t) PROVE TypeOK'
<1>1. StoreOK /\ FlagsOK /\ RunOK /\ HandOK
  BY TypeParts
<1>2. row[t] \subseteq Keys
  BY <1>1 DEF HandOK
<1>3. PICK k \in row[t] :
        /\ \/ /\ Works /\ Report(t, FALSE)
              /\ fetched' = fetched \cup ({k} \cap In(central))
              /\ NextRow(t, Drop(t, k), TRUE)
           \/ /\ Fails /\ Report(t, TRUE)
              /\ fetched' \in {fetched, fetched \cup ({k} \cap In(central))}
              /\ NextRow(t, Drop(t, k), some[t])
        /\ hand' = [hand EXCEPT ![t] = Drop(t, k)]
  BY DEF Mark
<1>4. k \in Keys
  BY <1>2
<1>5. /\ At(t, {}, FALSE)
      /\ UNCHANGED <<table, central, asked, local, memory, retried, started, history>>
  BY DEF Mark
<1>6. StoreOK'
  <2>1. fetched' \subseteq Keys
    BY <1>1, <1>3, <1>4 DEF StoreOK
  <2> QED
    BY <1>1, <1>5, <2>1 DEF StoreOK
<1>7. FlagsOK'
  <2>1. Works \/ Fails
    BY <1>3
  <2>2. Report(t, FALSE) \/ Report(t, TRUE)
    BY <1>3
  <2> QED
    BY <1>1, <1>5, <2>1, <2>2, EventTypes, ReportTypes DEF FlagsOK, history
<1>8. RunOK'
  <2>1. NextRow(t, Drop(t, k), TRUE) \/ NextRow(t, Drop(t, k), some[t])
    BY <1>3
  <2>2. at' \in [Threads -> Places] /\ phase' \in {"boot", "startup", "serving"}
    BY <2>1, NextRowMoves
  <2> QED
    BY <1>1, <1>5, <2>2 DEF RunOK
<1>9. HandOK'
  <2>1. hand' \in [Threads -> Rows]
    BY <1>3, <1>4, DropRows
  <2>2. some' \in [Threads -> BOOLEAN]
    <3>1. some[t] \in BOOLEAN
      BY <1>1 DEF HandOK
    <3> QED
      BY <1>3, <3>1, RowCounts
  <2>3. row' \in [Threads -> SUBSET Keys] /\ found' \in [Threads -> BOOLEAN]
    BY <1>5, AtTypes
  <2> QED
    BY <1>1, <1>5, <2>1, <2>2, <2>3 DEF HandOK
<1> QED
  BY <1>6, <1>7, <1>8, <1>9, TypePartsNext

LEMMA UnaskTypes == ASSUME TypeOK, NEW t \in Threads, Unask(t) PROVE TypeOK'
<1>1. StoreOK /\ FlagsOK /\ RunOK /\ HandOK
  BY TypeParts
<1>2. StoreOK'
  BY <1>1 DEF StoreOK, Unask
<1>3. FlagsOK'
  <2>1. (Works \/ Fails) /\ (NoReport \/ Report(t, TRUE))
    BY DEF Unask
  <2> QED
    BY <1>1, <2>1, EventTypes, ReportTypes DEF FlagsOK, Unask, history
<1>4. RunOK'
  <2>1. AfterDownload(t, some[t]) \in Places
    BY NextPlaces DEF Places
  <2>2. at' \in [Threads -> Places] /\ phase' \in {"boot", "startup", "serving"}
    BY <2>1, Moves DEF Unask
  <2> QED
    BY <1>1, <2>2 DEF RunOK, Unask
<1>5. HandOK'
  BY <1>1 DEF HandOK, Unask, atRow
<1> QED
  BY <1>2, <1>3, <1>4, <1>5, TypePartsNext

\* There are no empty rows in the local database, and the row a thread is
\* at is one it has in hand.
RealRows ==
  /\ \A k \in Keys : NoRow \notin local[k]
  /\ \A t \in Threads : /\ row[t] \subseteq InHand(t)
                        /\ at[t] \notin {"write", "mark"} => row[t] = {}

\* What TakeRows and FindNothing do to the memory and to the run.
LEMMA TakenTypes ==
  ASSUME TypeOK, NEW t \in Threads, NEW got \in SUBSET Stored(local),
         table.name # "Season", TakeRows(t, got)
  PROVE  /\ memory' \in Rows
         /\ RealRows /\ got # {} => In(memory') # {}
         /\ \E ok \in BOOLEAN : EndLoad(t, ok)
<1>1. local \in LocalRows /\ memory \in Rows
  BY TypeParts DEF StoreOK
<1>2. PICK read : /\ \A k \in got : read[k] \in local[k]
                  /\ memory' = LoadRows(table.name, memory,
                                [k \in Keys |-> IF k \in got THEN read[k] ELSE NoRow])
  BY DEF TakeRows
<1> DEFINE rows == [k \in Keys |-> IF k \in got THEN read[k] ELSE NoRow]
<1>3. \A k \in got : k \in Keys /\ read[k] \in Versions
  BY <1>1, <1>2 DEF LocalRows, Stored
<1>4. rows \in Rows
  BY <1>3, VersionsFacts DEF Rows
<1>5. ASSUME RealRows, got # {} PROVE In(rows) # {}
  <2>1. PICK k \in got : TRUE
    BY <1>5
  <2>2. k \in Keys /\ read[k] # NoRow
    BY <1>2, <1>3, <1>5 DEF RealRows
  <2> QED
    BY <2>1, <2>2 DEF In
<1>6. memory' = LoadRows(table.name, memory, rows)
  BY <1>2
<1>7. table.name \in Names \ {"Season"}
  BY StudiedTable
<1>8. \E ok \in BOOLEAN : EndLoad(t, ok)
  BY DEF TakeRows
<1> HIDE DEF rows
<1> QED
  BY <1>1, <1>4, <1>5, <1>6, <1>7, <1>8, RowsAreLoaded

LEMMA LoadTypes == ASSUME TypeOK, NEW t \in Threads, Load(t) PROVE TypeOK'
<1>1. StoreOK /\ FlagsOK /\ RunOK /\ HandOK
  BY TypeParts
<1>2. /\ table.name # "Season" /\ NoReport
      /\ UNCHANGED <<table, central, fetched, asked, local, hand, atRow, some,
                     history>>
  BY DEF Load
<1>3. /\ Works \/ Fails
      /\ memory' \in Rows /\ RunOK' /\ retried' \in [Threads -> BOOLEAN]
  <2>1. ASSUME NEW ok \in BOOLEAN, EndLoad(t, ok)
        PROVE  RunOK' /\ retried' \in [Threads -> BOOLEAN]
    BY <2>1, EndLoadMoves DEF RunOK
  <2>2. CASE Fails /\ EndLoad(t, FALSE) /\ UNCHANGED memory
    BY <1>1, <2>1, <2>2 DEF StoreOK
  <2>3. ASSUME NEW got \in SUBSET Stored(local), SQLSelect(Stored(local), FALSE, got),
               FindNothing(t)
        PROVE  /\ Works \/ Fails
               /\ memory' \in Rows /\ RunOK' /\ retried' \in [Threads -> BOOLEAN]
    <3>1. (Works \/ Fails) /\ memory' \in Rows
      BY <1>1, <2>3 DEF SQLSelect, FindNothing, StoreOK
    <3>2. CASE EndLoad(t, FALSE)
      BY <2>1, <3>1, <3>2
    <3>3. CASE /\ retried' = [retried EXCEPT ![t] = TRUE]
               /\ Goto(t, IF How.clears = "before" THEN "clear" ELSE "select")
               /\ UNCHANGED <<phase, started>>
      <4>1. "clear" \in Places /\ "select" \in Places
        BY DEF Places
      <4>2. at' \in [Threads -> Places]
        BY <3>3, <4>1, Moves
      <4>3. RunOK'
        BY <1>1, <3>3, <4>2 DEF RunOK
      <4>4. retried' \in [Threads -> BOOLEAN]
        BY <1>1, <3>3 DEF HandOK
      <4> QED
        BY <3>1, <4>3, <4>4
    <3> QED
      BY <2>3, <3>2, <3>3 DEF FindNothing
  <2>4. ASSUME NEW got \in SUBSET Stored(local), SQLSelect(Stored(local), FALSE, got),
               TakeRows(t, got)
        PROVE  /\ Works \/ Fails
               /\ memory' \in Rows /\ RunOK' /\ retried' \in [Threads -> BOOLEAN]
    <3>1. Works \/ Fails
      BY <2>4 DEF SQLSelect
    <3>2. memory' \in Rows /\ \E ok \in BOOLEAN : EndLoad(t, ok)
      BY <1>2, <2>4, TakenTypes
    <3> QED
      BY <2>1, <3>1, <3>2
  <2> QED
    BY <2>2, <2>3, <2>4 DEF Load
<1>4. StoreOK'
  BY <1>1, <1>2, <1>3 DEF StoreOK
<1>5. FlagsOK'
  BY <1>1, <1>2, <1>3, EventTypes DEF FlagsOK, history, NoReport
<1>6. HandOK'
  BY <1>1, <1>2, <1>3 DEF HandOK, atRow
<1> QED
  BY <1>3, <1>4, <1>5, <1>6, TypePartsNext

LEMMA LoadOthersTypes == ASSUME TypeOK, NEW t \in Threads, LoadOthers(t) PROVE TypeOK'
<1>1. StoreOK /\ FlagsOK /\ RunOK /\ HandOK
  BY TypeParts
<1>2. RunOK' /\ retried' \in [Threads -> BOOLEAN]
  BY EndLoadMoves DEF RunOK, LoadOthers
<1>3. StoreOK'
  BY <1>1 DEF StoreOK, LoadOthers, tables
<1>4. FlagsOK'
  BY <1>1, EventTypes DEF FlagsOK, LoadOthers, NoReport, history
<1>5. HandOK'
  BY <1>1, <1>2 DEF HandOK, LoadOthers, atRow
<1> QED
  BY <1>2, <1>3, <1>4, <1>5, TypePartsNext

LEMMA ReplyTypes == ASSUME TypeOK, NEW t \in Threads, Reply(t) PROVE TypeOK'
<1>1. "idle" \in Places /\ "load" \in Places
  BY DEF Places
<1>2. UNCHANGED phase /\ Goto(t, IF errFlag THEN "idle" ELSE "load")
  BY DEF Reply
<1>3. at' \in [Threads -> Places] /\ phase' \in {"boot", "startup", "serving"}
  BY <1>1, <1>2, Moves
<1>4. /\ Still(t) /\ Works /\ NoReport
      /\ picked' \in BOOLEAN /\ excused' \subseteq Keys /\ hurt' \in BOOLEAN
  BY DEF Reply, TypeOK
<1> QED
  BY <1>3, <1>4, StillTypes

LEMMA CommandTypes == ASSUME TypeOK, NEW t \in Threads, Command(t) PROVE TypeOK'
<1>1. Statements(t) \in Places
  BY NextPlaces DEF Places
<1>2. at' \in [Threads -> Places] /\ phase' \in {"boot", "startup", "serving"}
  BY <1>1, Moves DEF Command
<1>3. /\ Still(t) /\ Works /\ NoReport
      /\ picked' \in BOOLEAN /\ excused' \subseteq Keys /\ hurt' \in BOOLEAN
  BY DEF Command, TypeOK, history
<1> QED
  BY <1>2, <1>3, StillTypes

\* The office, the timer, the other threads, a restart.
LEMMA OthersTypes ==
  ASSUME TypeOK,
         \/ CmdClearSeason \/ LateStart \/ OtherStatement \/ Crash
         \/ \E k \in Keys : Edit(k) \/ ClearExpired(k)
  PROVE  TypeOK'
<1>1. StoreOK /\ FlagsOK /\ RunOK /\ HandOK
  BY TypeParts
<1>2. CASE CmdClearSeason
  <2>1. StoreOK'
    BY <1>1, <1>2, NoLocalRows DEF StoreOK, CmdClearSeason
  <2>2. FlagsOK'
    BY <1>1, <1>2, EventTypes DEF FlagsOK, CmdClearSeason, NoReport
  <2>3. RunOK' /\ HandOK'
    BY <1>1, <1>2 DEF RunOK, HandOK, CmdClearSeason, atRow
  <2> QED
    BY <2>1, <2>2, <2>3, TypePartsNext
<1>3. CASE LateStart
  <2>1. StoreOK' /\ FlagsOK'
    BY <1>1, <1>3 DEF StoreOK, FlagsOK, LateStart, tables, history
  <2>2. RunOK' /\ HandOK'
    BY <1>1, <1>3 DEF RunOK, HandOK, LateStart, atRow
  <2> QED
    BY <2>1, <2>2, TypePartsNext
<1>4. CASE OtherStatement
  <2>1. StoreOK' /\ FlagsOK'
    BY <1>1, <1>4 DEF StoreOK, FlagsOK, OtherStatement, tables, history
  <2>2. RunOK' /\ HandOK'
    BY <1>1, <1>4 DEF RunOK, HandOK, OtherStatement, atRow
  <2> QED
    BY <2>1, <2>2, TypePartsNext
<1>5. CASE Crash
  <2>1. StoreOK'
    BY <1>1, <1>5, EmptyRows DEF StoreOK, Crash
  <2>2. FlagsOK'
    <3>1. events' \in 0..MaxEvents
      BY <1>5, EventTypes DEF Crash, Fails
    <3>2. errFlag' \in BOOLEAN /\ flagBy' \in Threads \cup {"other"}
      BY <1>5 DEF Crash, Threads
    <3>3. picked' \in BOOLEAN /\ excused' \subseteq Keys /\ hurt' \in BOOLEAN
      BY <1>1, <1>5 DEF Crash, FlagsOK
    <3> QED
      BY <3>1, <3>2, <3>3 DEF FlagsOK
  <2>3. RunOK'
    BY <1>5 DEF RunOK, Crash, Places
  <2>4. HandOK'
    BY <1>5, EmptyRows DEF HandOK, Crash
  <2> QED
    BY <2>1, <2>2, <2>3, <2>4, TypePartsNext
<1>6. ASSUME NEW k \in Keys, Edit(k)
      PROVE  TypeOK'
  <2>1. PICK v \in {events + 2, NoRow} : central' = [central EXCEPT ![k] = v]
    BY <1>6 DEF Edit
  <2>2. v \in Versions
    BY <1>1, <1>6, <2>1, VersionsFacts DEF Edit, Happens, FlagsOK
  <2>3. central' \in Rows
    BY <1>1, <2>1, <2>2 DEF StoreOK, Rows
  <2>4. How.asks \in BOOLEAN
    BY StudiedTable, MarkedTables DEF How
  <2>5. StoreOK'
    BY <1>1, <1>6, <2>3, <2>4 DEF StoreOK, Edit
  <2>6. events' \in 0..MaxEvents
    BY <1>6, EventTypes DEF Edit, Fails
  <2>7. FlagsOK'
    BY <1>1, <1>6, <2>6 DEF FlagsOK, Edit, NoReport
  <2>8. RunOK' /\ HandOK'
    BY <1>1, <1>6 DEF RunOK, HandOK, Edit, atRow
  <2> QED
    BY <2>5, <2>7, <2>8, TypePartsNext
<1>7. ASSUME NEW k \in Keys, ClearExpired(k)
      PROVE  TypeOK'
  <2>1. local' \in LocalRows
    <3>1. PICK left \in SUBSET local[k] : local' = [local EXCEPT ![k] = left]
      BY <1>7 DEF ClearExpired
    <3> QED
      BY <1>1, <3>1 DEF StoreOK, LocalRows
  <2>2. StoreOK'
    BY <1>1, <1>7, <2>1 DEF StoreOK, ClearExpired
  <2>3. FlagsOK'
    BY <1>1, <1>7, EventTypes DEF FlagsOK, ClearExpired, NoReport
  <2>4. RunOK' /\ HandOK'
    BY <1>1, <1>7 DEF RunOK, HandOK, ClearExpired, atRow
  <2> QED
    BY <2>2, <2>3, <2>4, TypePartsNext
<1> QED
  BY <1>2, <1>3, <1>4, <1>5, <1>6, <1>7

LEMMA TypeInit == Init => TypeOK
<1> SUFFICES ASSUME Init PROVE StoreOK /\ FlagsOK /\ RunOK /\ HandOK
  BY TypeParts
<1>1. [k \in Keys |-> 1] \in Rows
  BY VersionsFacts DEF Rows
<1>2. StoreOK
  <2>1. [k \in Keys |-> {1}] \in LocalRows
    BY VersionsFacts DEF LocalRows
  <2> QED
    BY <1>1, <2>1, EmptyRows, NoLocalRows DEF Init, StoreOK
<1>3. FlagsOK
  <2>1. events \in 0..MaxEvents
    BY BoundAssumption DEF Init
  <2>2. hurt \in BOOLEAN /\ excused \subseteq Keys
    BY DEF Init
  <2>3. /\ errFlag \in BOOLEAN /\ flagBy \in Threads \cup {"other"}
        /\ picked \in BOOLEAN
    BY DEF Init, Threads
  <2> QED
    BY <2>1, <2>2, <2>3 DEF FlagsOK
<1>4. RunOK
  BY DEF Init, RunOK, Places
<1>5. HandOK
  BY EmptyRows DEF Init, HandOK
<1> QED
  BY <1>2, <1>3, <1>4, <1>5

LEMMA TypeStep == TypeOK /\ [Next]_vars => TypeOK'
<1> SUFFICES ASSUME TypeOK, [Next]_vars PROVE TypeOK'
  OBVIOUS
<1>1. ASSUME NEW t \in Threads, Run(t) \/ Command(t)
      PROVE  TypeOK'
  BY <1>1, AskTypes, CountTypes, ClearTypes, SelectTypes, TruncateTypes,
     LookupTypes, WriteTypes, MarkTypes, UnaskTypes, LoadTypes, LoadOthersTypes, ReplyTypes,
     CommandTypes DEF Run, Download
<1>2. CASE UNCHANGED vars
  <2>1. StoreOK' /\ FlagsOK' /\ RunOK' /\ HandOK'
    BY <1>2, TypeParts DEF vars, tables, atRow, history, StoreOK, FlagsOK, RunOK, HandOK
  <2> QED
    BY <2>1, TypePartsNext
<1> QED
  BY <1>1, <1>2, OthersTypes DEF Next

(***************************************************************************)
(* The tables, the rows in hand and the flags have their types in every    *)
(* state, whatever fails and however often (db.cpp:548-2249, 3075-3252).   *)
(***************************************************************************)
THEOREM TypeCorrect == Spec => []TypeOK
  BY TypeInit, TypeStep, PTL DEF Spec

-----------------------------------------------------------------------------
(* The rows a thread is at.                                                *)

\* No step changes which table is studied.
LEMMA TableIsKept == [Next]_vars => table' = table
<1> SUFFICES ASSUME [Next]_vars PROVE table' = table
  OBVIOUS
<1>1. ASSUME NEW t \in Threads, Run(t) \/ Command(t) PROVE table' = table
  BY <1>1 DEF Run, Download, Ask, Count, Clear, Select, Truncate, Lookup, Write,
              Mark, Unask, Load, LoadOthers, Reply, Command, Abandon, Proceed, Still
<1>2. CASE CmdClearSeason \/ LateStart \/ OtherStatement \/ Crash
  BY <1>2 DEF CmdClearSeason, LateStart, OtherStatement, Crash
<1>3. CASE \E k \in Keys : Edit(k) \/ ClearExpired(k)
  BY <1>3 DEF Edit, ClearExpired
<1>4. CASE UNCHANGED vars
  BY <1>4 DEF vars
<1> QED
  BY <1>1, <1>2, <1>3, <1>4 DEF Next

\* A step of one thread leaves the place and the rows of the others alone.
LEMMA OthersStay ==
  ASSUME TypeOK, NEW t \in Threads, Run(t) \/ Command(t), NEW u \in Threads \ {t}
  PROVE  at'[u] = at[u] /\ hand'[u] = hand[u] /\ row'[u] = row[u] /\ found'[u] = found[u]
<1>0. RunOK /\ HandOK
  BY TypeParts
<1>1. ASSUME NEW to, Goto(t, to) PROVE at'[u] = at[u]
  BY <1>0, <1>1 DEF Goto, RunOK
<1>2. /\ Abandon(t) => at'[u] = at[u]
      /\ \A left, got : NextRow(t, left, got) => at'[u] = at[u]
      /\ \A ok : EndLoad(t, ok) => at'[u] = at[u]
  BY <1>1 DEF Abandon, NextRow, EndLoad, EndLoadParameter, Leave
<1>3. at'[u] = at[u]
  <2>1. CASE Ask(t) \/ Count(t) \/ Clear(t) \/ Select(t) \/ Truncate(t)
    BY <1>1, <1>2, <2>1 DEF Ask, Count, Clear, Select, Truncate, Proceed
  <2>2. CASE Lookup(t) \/ Write(t) \/ Mark(t)
    BY <1>1, <1>2, <2>2 DEF Lookup, Write, Mark, SkipRow, CopyRow
  <2>3. CASE Unask(t) \/ Load(t) \/ LoadOthers(t) \/ Reply(t) \/ Command(t)
    BY <1>1, <1>2, <2>3 DEF Unask, Leave, Load, FindNothing, TakeRows, LoadOthers, Reply,
                            Command
  <2> QED
    BY <2>1, <2>2, <2>3 DEF Run, Download
<1>4. hand'[u] = hand[u]
  <2>1. UNCHANGED hand \/ \E rows : hand' = [hand EXCEPT ![t] = rows]
    BY DEF Run, Download, Ask, Count, Clear, Select, Truncate, Lookup, Write, Mark, Unask,
           Load, LoadOthers, Reply, Command, Abandon, Proceed, Still, SkipRow, CopyRow
  <2> QED
    BY <1>0, <2>1 DEF HandOK
<1>5. row'[u] = row[u] /\ found'[u] = found[u]
  <2>1. UNCHANGED atRow \/ \E keys, seen : At(t, keys, seen)
    BY DEF Run, Download, Ask, Count, Clear, Select, Truncate, Lookup, Write, Mark, Unask,
           Load, LoadOthers, Reply, Command, Abandon, Proceed, Still, SkipRow, CopyRow
  <2> QED
    BY <1>0, <2>1 DEF HandOK, At, atRow
<1> QED
  BY <1>3, <1>4, <1>5

\* Where a row is looked up or written, and where there is no row.
LEMMA QuietActions ==
  ASSUME TypeOK, RealRows, NEW t \in Threads,
         \/ Ask(t) \/ Count(t) \/ Clear(t) \/ Select(t) \/ Truncate(t) \/ Unask(t)
         \/ Load(t) \/ LoadOthers(t) \/ Reply(t) \/ Command(t)
  PROVE  row[t] = {} /\ UNCHANGED atRow
<1>1. at[t] \notin {"write", "mark"}
  BY DEF Ask, Count, Clear, Select, Truncate, Unask, Load, LoadOthers, Reply, Command, Serving
<1>2. UNCHANGED atRow
  BY DEF Ask, Count, Clear, Select, Truncate, Unask, Load, LoadOthers, Reply, Command,
         Abandon, Proceed, Still
<1> QED
  BY <1>1, <1>2 DEF RealRows

\* The row that Lookup or Write is about is one in hand.
LEMMA RowInHand ==
  ASSUME TypeOK, RealRows, NEW t \in Threads,
         NEW k \in IF LooksUp(table.name) THEN row[t] ELSE InHand(t)
  PROVE  k \in InHand(t) /\ k \in Keys /\ hand[t][k] \in Versions \ {NoRow}
<1>1. k \in InHand(t)
  BY DEF RealRows
<1>2. hand[t] \in Rows
  BY TypeParts DEF HandOK
<1> QED
  BY <1>1, <1>2 DEF InHand, In, Rows

LEMMA RealRowsInit == Init => RealRows
  BY NoLocalRows DEF Init, RealRows, NoRow

LEMMA RealRowsWhenRunning ==
  ASSUME TypeOK, RealRows, NEW t \in Threads, Run(t) \/ Command(t)
  PROVE  RealRows'
<1>0. StoreOK /\ RunOK /\ HandOK
  BY TypeParts
<1> DEFINE QuietStep == \/ Ask(t) \/ Count(t) \/ Clear(t) \/ Select(t) \/ Truncate(t)
                        \/ Unask(t) \/ Load(t) \/ LoadOthers(t) \/ Reply(t) \/ Command(t)
           RowAt == \/ row'[t] = {}
                    \/ row'[t] \subseteq In(hand'[t]) /\ at'[t] \in {"write", "mark"}
           StillReal == \A j \in Keys : NoRow \notin local'[j]
<1>1. ASSUME QuietStep PROVE RowAt /\ StillReal
  <2>1. RowAt
    BY <1>1, QuietActions DEF atRow
  <2>2. local' = local \/ local' = NoRows
    BY <1>1 DEF Ask, Count, Clear, Select, Truncate, Unask, Load, LoadOthers, Reply, Command,
                Abandon, Proceed, Still, tables
  <2>3. StillReal
    BY <2>2, NoLocalRows DEF RealRows
  <2> QED
    BY <2>1, <2>3
<1>2. ASSUME NEW k \in Keys, SkipRow(t, k) PROVE RowAt /\ StillReal
  BY <1>0, <1>2 DEF SkipRow, At, HandOK, RealRows
<1>3. ASSUME Lookup(t) PROVE RowAt /\ StillReal
  <2>1. PICK k \in InHand(t) :
          \/ SkipRow(t, k)
          \/ /\ \E seen : At(t, {k}, seen)
             /\ Goto(t, "write") /\ UNCHANGED <<local, hand>>
    BY <1>3 DEF Lookup
  <2>2. k \in Keys
    BY DEF InHand, In
  <2>3. CASE SkipRow(t, k)
    BY <1>2, <2>2, <2>3
  <2>4. CASE /\ \E seen : At(t, {k}, seen)
             /\ Goto(t, "write") /\ UNCHANGED <<local, hand>>
    <3>1. row'[t] = {k} /\ at'[t] = "write" /\ hand' = hand /\ local' = local
      BY <1>0, <2>4 DEF At, Goto, HandOK, RunOK
    <3> QED
      BY <2>1, <3>1 DEF InHand, RealRows
  <2> QED
    BY <2>1, <2>3, <2>4
<1>4. ASSUME Write(t) PROVE RowAt /\ StillReal
  <2>1. PICK k \in IF LooksUp(table.name) THEN row[t] ELSE InHand(t) :
               CopyRow(t, k) \/ SkipRow(t, k)
    BY <1>4 DEF Write
  <2>2. k \in InHand(t) /\ k \in Keys /\ hand[t][k] \in Versions \ {NoRow}
    BY <2>1, RowInHand
  <2>3. CASE SkipRow(t, k)
    BY <1>2, <2>2, <2>3
  <2>4. CASE CopyRow(t, k)
    <3>1. local' = WriteRow(table.name, local, k, hand[t][k], found[t])
      BY <2>4 DEF CopyRow
    <3>2. /\ \A j \in Keys \ {k} : local'[j] = local[j]
          /\ local'[k] \subseteq local[k] \cup {hand[t][k]}
      BY <1>0, <2>2, <3>1, RowIsWritten, StudiedTable DEF StoreOK
    <3>3. StillReal
      BY <2>2, <3>2 DEF RealRows
    <3>4. \/ row'[t] = {}
          \/ row'[t] = {k} /\ hand' = hand /\ at'[t] = "mark"
      BY <1>0, <2>4 DEF CopyRow, At, Goto, HandOK, RunOK
    <3>5. RowAt
      BY <2>2, <3>4 DEF InHand
    <3> QED
      BY <3>3, <3>5
  <2> QED
    BY <2>1, <2>3, <2>4
<1>5. ASSUME Mark(t) PROVE RowAt /\ StillReal
  <2>1. row'[t] = {} /\ local' = local
    BY <1>0, <1>5 DEF Mark, At, HandOK
  <2> QED
    BY <2>1 DEF RealRows
<1>6. RowAt /\ StillReal
  BY <1>1, <1>3, <1>4, <1>5 DEF Run, Download
<1>7. ASSUME NEW u \in Threads
      PROVE  /\ row'[u] \subseteq In(hand'[u])
             /\ at'[u] \notin {"write", "mark"} => row'[u] = {}
  <2>1. CASE u = t
    BY <1>6, <2>1
  <2>2. CASE u # t
    BY <2>2, OthersStay DEF RealRows, InHand
  <2> QED
    BY <2>1, <2>2
<1> QED
  BY <1>6, <1>7 DEF RealRows, InHand, In

LEMMA RealRowsStep == TypeOK /\ RealRows /\ [Next]_vars => RealRows'
<1> SUFFICES ASSUME TypeOK, RealRows, [Next]_vars PROVE RealRows'
  OBVIOUS
<1>1. CASE \E t \in Threads : Run(t) \/ Command(t)
  BY <1>1, RealRowsWhenRunning
<1>2. CASE CmdClearSeason
  BY <1>2, NoLocalRows DEF CmdClearSeason, atRow, RealRows, InHand, In
<1>3. CASE LateStart \/ OtherStatement \/ UNCHANGED vars \/ \E k \in Keys : Edit(k)
  <2>1. UNCHANGED <<local, at, hand, row>>
    BY <1>3 DEF LateStart, OtherStatement, Edit, vars, tables, atRow
  <2> QED
    BY <2>1 DEF RealRows, InHand, In
<1>4. CASE Crash
  <2>1. local' = local /\ \A t \in Threads : row'[t] = {}
    BY <1>4 DEF Crash
  <2> QED
    BY <2>1 DEF RealRows
<1>5. ASSUME NEW k \in Keys, ClearExpired(k) PROVE RealRows'
  <2>1. /\ \A j \in Keys : local'[j] \subseteq local[j]
        /\ UNCHANGED <<at, hand, row>>
    <3>1. local \in LocalRows
      BY TypeParts DEF StoreOK
    <3> QED
      BY <1>5, <3>1 DEF ClearExpired, atRow, LocalRows
  <2> QED
    BY <2>1 DEF RealRows, InHand, In
<1> QED
  BY <1>1, <1>2, <1>3, <1>4, <1>5 DEF Next

LEMMA RowsAreReal == Spec => []RealRows
  BY RealRowsInit, RealRowsStep, TypeCorrect, PTL DEF Spec

-----------------------------------------------------------------------------
(* Marked rows.  A row in hand is the central one unless the office has    *)
(* changed it since.  What a lookup said stays good enough until the row   *)
(* is written, and the row that is about to be marked is the only local    *)
(* one of its key: a table with marks is cleared by commands only, and two *)
(* strands that write the same key write the same row.                     *)

HandIsCurrent ==
  \A t \in Threads : \A k \in InHand(t) \ excused : hand[t][k] = central[k]

\* The local rows of the key a thread is at.
RowIsLocal(t, k) ==
  /\ at[t] = "write" /\ found[t] => local[k] # {}
  /\ at[t] = "write" /\ ~found[t] => local[k] \subseteq {central[k]}
  /\ at[t] = "mark" => local[k] = {central[k]}

WrittenIsLocal == \A t \in Threads : \A k \in row[t] \ excused : RowIsLocal(t, k)

NeverCleared == \A t \in Threads : at[t] \notin {"clear", "truncate"}

FetchedIsLocal ==
  \A k \in (In(central) \cap fetched) \ excused : local[k] = {central[k]}

MarksParts == HandIsCurrent /\ WrittenIsLocal /\ NeverCleared /\ FetchedIsLocal
MarksInv == How.marks => MarksParts

LEMMA MarksInit == Init => MarksInv
<1> SUFFICES ASSUME Init PROVE HandIsCurrent /\ WrittenIsLocal /\ NeverCleared /\ FetchedIsLocal
  BY DEF MarksInv, MarksParts
<1>1. HandIsCurrent
  BY EmptyRows DEF Init, HandIsCurrent, InHand
<1>2. WrittenIsLocal /\ NeverCleared
  BY DEF Init, WrittenIsLocal, NeverCleared
<1>3. FetchedIsLocal
  BY DEF Init, FetchedIsLocal
<1> QED
  BY <1>1, <1>2, <1>3

\* What a step of one thread has to keep: its own hand and row, and of the
\* local rows those that are not the central ones.
LEMMA MarksWhenOneSteps ==
  ASSUME TypeOK, RealRows, MarksParts, NEW t \in Threads, Run(t) \/ Command(t),
         central' = central, excused \subseteq excused',
         \A k \in Keys \ excused' : local'[k] = local[k] \/ local'[k] = {central[k]},
         \A k \in In(hand'[t]) \ excused' : hand'[t][k] = central[k],
         \A k \in row'[t] \ excused' :
           /\ at'[t] = "write" /\ found'[t] => local'[k] # {}
           /\ at'[t] = "write" /\ ~found'[t] => local'[k] \subseteq {central[k]}
           /\ at'[t] = "mark" => local'[k] = {central[k]},
         at'[t] \notin {"clear", "truncate"},
         \A k \in fetched' \ (fetched \cup excused') : local[k] = {central[k]}
  PROVE  MarksParts'
<1>1. HandIsCurrent'
  <2> SUFFICES ASSUME NEW u \in Threads, NEW k \in In(hand'[u]) \ excused'
               PROVE  hand'[u][k] = central[k]
    BY DEF HandIsCurrent, InHand, In
  <2>1. CASE u = t
    BY <2>1
  <2>2. CASE u # t
    BY <2>2, OthersStay DEF MarksParts, HandIsCurrent, InHand
  <2> QED
    BY <2>1, <2>2
<1>2. WrittenIsLocal'
  <2> SUFFICES ASSUME NEW u \in Threads, NEW k \in row'[u] \ excused'
               PROVE  RowIsLocal(u, k)'
    BY DEF WrittenIsLocal
  <2>1. CASE u = t
    BY <2>1 DEF RowIsLocal
  <2>2. CASE u # t
    <3>1. at'[u] = at[u] /\ row'[u] = row[u] /\ found'[u] = found[u]
      BY <2>2, OthersStay
    <3>2. k \in row[u] \ excused /\ k \in Keys \ excused'
      BY <3>1, TypeParts DEF HandOK
    <3>3. RowIsLocal(u, k)
      BY <3>2 DEF MarksParts, WrittenIsLocal
    <3>4. local'[k] = local[k] \/ local'[k] = {central[k]}
      BY <3>2
    <3> QED
      BY <3>1, <3>3, <3>4 DEF RowIsLocal
  <2> QED
    BY <2>1, <2>2
<1>3. NeverCleared'
  BY OthersStay DEF MarksParts, NeverCleared
<1>4. FetchedIsLocal'
  <2> SUFFICES ASSUME NEW k \in (In(central) \cap fetched') \ excused'
               PROVE  local'[k] = {central[k]}
    BY DEF FetchedIsLocal, In
  <2>1. k \in Keys \ excused' /\ k \notin excused /\ k \in In(central)
    BY DEF In
  <2>2. local[k] = {central[k]}
    BY <2>1 DEF MarksParts, FetchedIsLocal
  <2> QED
    BY <2>1, <2>2
<1> QED
  BY <1>1, <1>2, <1>3, <1>4 DEF MarksParts

\* The place a thread goes to, when its table is never cleared.
LEMMA MovesOn ==
  ASSUME TypeOK, How.marks, NEW t \in Threads,
         \/ Abandon(t) \/ Ask(t) \/ Count(t) \/ LoadOthers(t) \/ Load(t)
         \/ Reply(t) \/ Command(t) \/ Unask(t)
  PROVE  \E to \in Places \ {"clear", "truncate"} : at' = [at EXCEPT ![t] = to]
<1>1. {"idle", "load", "reply", "select", "count", "ask"} \subseteq Places \ {"clear", "truncate"}
  BY DEF Places
<1>2. How.clears = "never" /\ table.name \in {"Season", "Message", "Parameter"}
  BY StudiedTable
<1>3. ASSUME Abandon(t)
      PROVE  \E to \in Places \ {"clear", "truncate"} : at' = [at EXCEPT ![t] = to]
  BY <1>1, <1>3, NextPlaces DEF Abandon, Leave, Goto
<1>4. CASE Ask(t) \/ Count(t)
  BY <1>1, <1>3, <1>4 DEF Ask, Count, Proceed, Goto
<1>5. ASSUME NEW ok, EndLoad(t, ok)
      PROVE  \E to \in Places \ {"clear", "truncate"} : at' = [at EXCEPT ![t] = to]
  BY <1>1, <1>5, EndLoadMoves
<1>6. CASE Load(t) \/ LoadOthers(t)
  <2>1. ~Refetches(table.name)
    BY <1>2 DEF Refetches
  <2>2. \E ok \in BOOLEAN : EndLoad(t, ok)
    BY <1>6, <2>1 DEF Load, LoadOthers, FindNothing, TakeRows
  <2> QED
    BY <1>5, <2>2
<1>7. CASE Reply(t)
  BY <1>1, <1>7 DEF Reply, Goto
<1>8. CASE Command(t)
  <2>1. Statements(t) \in {"ask", "count", "select"}
    BY <1>2 DEF Statements
  <2> QED
    BY <1>1, <1>8, <2>1 DEF Command, Goto
<1>9. CASE Unask(t)
  BY <1>1, <1>9, NextPlaces DEF Unask, Leave, Goto
<1> QED
  BY <1>3, <1>4, <1>6, <1>7, <1>8, <1>9

LEMMA MarksWhenQuiet ==
  ASSUME TypeOK, RealRows, How.marks, MarksParts, NEW t \in Threads,
         \/ Ask(t) \/ Count(t) \/ LoadOthers(t) \/ Load(t)
         \/ Reply(t) \/ Command(t) \/ Unask(t)
  PROVE  MarksParts'
<1>1. UNCHANGED <<central, local, hand, excused, fetched>>
  BY DEF Ask, Count, LoadOthers, Load, Reply, Command, Unask, Abandon, Proceed,
         Still, tables, history
<1>2. row'[t] = {}
  BY QuietActions DEF atRow
<1>3. at'[t] \notin {"clear", "truncate"}
  <2>1. PICK to \in Places \ {"clear", "truncate"} : at' = [at EXCEPT ![t] = to]
    BY MovesOn
  <2> QED
    BY <2>1, TypeParts DEF RunOK
<1>4. \A k \in In(hand'[t]) \ excused' : hand'[t][k] = central[k]
  BY <1>1 DEF MarksParts, HandIsCurrent, InHand
<1>5. Run(t) \/ Command(t)
  BY DEF Run, Download
<1> QED
  BY <1>1, <1>2, <1>3, <1>4, <1>5, MarksWhenOneSteps

LEMMA MarksWhenSelecting ==
  ASSUME TypeOK, RealRows, How.marks, MarksParts, NEW t \in Threads, Select(t)
  PROVE  MarksParts'
<1>0. HandOK /\ RunOK
  BY TypeParts
<1>1. UNCHANGED <<central, local, excused, fetched>> /\ row'[t] = {}
  <2>1. UNCHANGED <<central, local, fetched>>
    BY DEF Select, Abandon, Still, tables
  <2>2. UNCHANGED excused
    BY DEF Select, Abandon, history
  <2> QED
    BY <2>1, <2>2, QuietActions DEF atRow
<1>2. How.clears = "never"
  BY StudiedTable
<1>3. /\ \A k \in In(hand'[t]) \ excused' : hand'[t][k] = central[k]
      /\ at'[t] \notin {"clear", "truncate"}
  <2>1. CASE Abandon(t)
    <3>1. hand' = hand
      BY <2>1 DEF Abandon, Still
    <3>2. PICK to \in Places \ {"clear", "truncate"} : at' = [at EXCEPT ![t] = to]
      BY <2>1, MovesOn
    <3> QED
      BY <1>0, <1>1, <3>1, <3>2 DEF MarksParts, HandIsCurrent, InHand, RunOK
  <2>2. CASE ~Abandon(t)
    <3>1. PICK got \in SUBSET Qualify : /\ hand' = [hand EXCEPT ![t] = Only(got)]
                                        /\ NextRow(t, Only(got), FALSE)
      BY <1>2, <2>2 DEF Select
    <3>2. hand'[t] = Only(got)
      BY <1>0, <3>1 DEF HandOK
    <3>3. PICK to \in {"lookup", "write", "unask", "load", "reply", "idle"} :
                  at' = [at EXCEPT ![t] = to]
      BY <3>1, NextRowMoves
    <3> QED
      BY <1>0, <3>2, <3>3 DEF Only, In, RunOK
  <2> QED
    BY <2>1, <2>2
<1>4. Run(t)
  BY DEF Run, Download
<1> QED
  BY <1>1, <1>3, <1>4, MarksWhenOneSteps

\* A row is dropped from the hand of a thread that goes on.
LEMMA MarksWhenDropping ==
  ASSUME TypeOK, RealRows, How.marks, MarksParts, NEW t \in Threads,
         Run(t) \/ Command(t), NEW k \in Keys,
         hand' = [hand EXCEPT ![t] = Drop(t, k)], row'[t] = {},
         NEW got, NextRow(t, Drop(t, k), got),
         UNCHANGED <<central, local, excused>>,
         \A j \in fetched' \ (fetched \cup excused) : local[j] = {central[j]}
  PROVE  MarksParts'
<1>0. HandOK /\ RunOK
  BY TypeParts
<1>1. hand'[t] = Drop(t, k)
  BY <1>0 DEF HandOK
<1>2. \A j \in In(hand'[t]) \ excused' : hand'[t][j] = central[j]
  <2> SUFFICES ASSUME NEW j \in In(hand'[t]) \ excused PROVE hand'[t][j] = central[j]
    OBVIOUS
  <2>1. hand[t] \in Rows /\ j \in Keys /\ hand'[t][j] # NoRow
    BY <1>0 DEF HandOK, In
  <2>2. hand'[t][j] = hand[t][j]
    BY <1>1, <2>1 DEF Drop, Rows
  <2>3. j \in InHand(t)
    BY <2>1, <2>2 DEF InHand, In
  <2> QED
    BY <2>2, <2>3 DEF MarksParts, HandIsCurrent
<1>3. at'[t] \notin {"clear", "truncate"}
  <2>1. PICK to \in {"lookup", "write", "unask", "load", "reply", "idle"} :
                at' = [at EXCEPT ![t] = to]
    BY NextRowMoves
  <2> QED
    BY <1>0, <2>1 DEF RunOK
<1> QED
  BY <1>2, <1>3, MarksWhenOneSteps

LEMMA MarksWhenSkipping ==
  ASSUME TypeOK, RealRows, How.marks, MarksParts, NEW t \in Threads,
         Lookup(t) \/ Write(t), NEW k \in Keys, SkipRow(t, k)
  PROVE  MarksParts'
<1>1. /\ Run(t) /\ central' = central /\ fetched' = fetched
  BY DEF Run, Download, Lookup, Write
<1>2. /\ hand' = [hand EXCEPT ![t] = Drop(t, k)] /\ NextRow(t, Drop(t, k), some[t])
      /\ UNCHANGED <<local, excused>>
  BY DEF SkipRow
<1>3. row'[t] = {}
  BY TypeParts DEF SkipRow, At, HandOK
<1> QED
  BY <1>1, <1>2, <1>3, MarksWhenDropping

\* What the lookup returned is all there is, unless it broke off.
LEMMA MarksWhenLookingUp ==
  ASSUME TypeOK, RealRows, How.marks, MarksParts, NEW t \in Threads, Lookup(t)
  PROVE  MarksParts'
<1>0. HandOK /\ RunOK
  BY TypeParts
<1>1. Run(t) /\ central' = central /\ fetched' = fetched
  BY DEF Run, Download, Lookup
<1>2. PICK k \in InHand(t) :
        \/ SkipRow(t, k)
        \/ \E got \in SUBSET ({k} \cap Stored(local)) :
             /\ At(t, {k}, got # {}) /\ Goto(t, "write")
             /\ IF k \in Stored(local) \ got
                THEN hurt' = TRUE /\ excused' = excused \cup {k}
                ELSE UNCHANGED <<hurt, excused>>
             /\ UNCHANGED <<local, hand, some, phase>>
  BY DEF Lookup
<1>3. k \in Keys
  BY DEF InHand, In
<1>4. CASE SkipRow(t, k)
  BY <1>3, <1>4, MarksWhenSkipping
<1>5. ASSUME NEW got \in SUBSET ({k} \cap Stored(local)),
             At(t, {k}, got # {}), Goto(t, "write"),
             IF k \in Stored(local) \ got
             THEN hurt' = TRUE /\ excused' = excused \cup {k}
             ELSE UNCHANGED <<hurt, excused>>,
             UNCHANGED <<local, hand, some, phase>>
      PROVE  MarksParts'
  <2>1. at'[t] = "write" /\ row'[t] = {k} /\ found'[t] = (got # {})
    BY <1>0, <1>5 DEF At, Goto, HandOK, RunOK
  <2>2. excused \subseteq excused'
    BY <1>5
  <2>3. k \notin excused' => /\ got # {} => local[k] # {}
                             /\ got = {} => local[k] = {}
    BY <1>3, <1>5 DEF Stored
  <2>4. \A j \in In(hand'[t]) \ excused' : hand'[t][j] = central[j]
    BY <1>5, <2>2 DEF MarksParts, HandIsCurrent, InHand
  <2>5. \A j \in row'[t] \ excused' :
           /\ at'[t] = "write" /\ found'[t] => local'[j] # {}
           /\ at'[t] = "write" /\ ~found'[t] => local'[j] \subseteq {central[j]}
           /\ at'[t] = "mark" => local'[j] = {central[j]}
    BY <1>5, <2>1, <2>3
  <2>6. \A j \in Keys \ excused' : local'[j] = local[j] \/ local'[j] = {central[j]}
    BY <1>5
  <2>7. at'[t] \notin {"clear", "truncate"}
    BY <2>1
  <2> QED
    BY <1>1, <2>2, <2>4, <2>5, <2>6, <2>7, MarksWhenOneSteps
<1> QED
  BY <1>2, <1>4, <1>5

LEMMA MarksWhenWriting ==
  ASSUME TypeOK, RealRows, How.marks, MarksParts, NEW t \in Threads, Write(t)
  PROVE  MarksParts'
<1>0. HandOK /\ RunOK /\ StoreOK
  BY TypeParts
<1>1. /\ at[t] = "write" /\ Run(t)
      /\ UNCHANGED <<central, fetched>>
  BY DEF Write, Run, Download
<1>2. LooksUp(table.name) /\ table.name \in Names
  BY StudiedTable
<1>3. PICK k \in row[t] : CopyRow(t, k) \/ SkipRow(t, k)
  BY <1>2 DEF Write
<1>4. k \in InHand(t) /\ k \in Keys /\ hand[t][k] \in Versions
  BY <1>2, <1>3, RowInHand
<1>5. CASE SkipRow(t, k)
  BY <1>4, <1>5, MarksWhenSkipping
<1>6. CASE CopyRow(t, k)
  <2>1. /\ at'[t] = "mark" /\ row'[t] = {k} /\ hand' = hand /\ excused' = excused
        /\ local' = WriteRow(table.name, local, k, hand[t][k], found[t])
    BY <1>0, <1>6 DEF CopyRow, At, Goto, HandOK, RunOK
  <2>2. local' = Upsert(local, k, hand[t][k], found[t])
    BY <1>0, <1>2, <1>4, <2>1, RowIsWritten DEF StoreOK
  <2>3. \A j \in Keys \ {k} : local'[j] = local[j]
    BY <1>0, <1>4, <2>2 DEF Upsert, Update, Insert, StoreOK, LocalRows
  <2>4. ASSUME k \notin excused PROVE local'[k] = {central[k]}
    <3>1. hand[t][k] = central[k]
      BY <1>4, <2>4 DEF MarksParts, HandIsCurrent
    <3>2. RowIsLocal(t, k)
      BY <1>3, <2>4 DEF MarksParts, WrittenIsLocal
    <3>3. CASE found[t]
      <4>1. local[k] # {}
        BY <1>1, <3>2, <3>3 DEF RowIsLocal
      <4> QED
        BY <1>0, <1>4, <2>2, <3>1, <3>3, <4>1 DEF Upsert, Update, StoreOK, LocalRows
    <3>4. CASE ~found[t]
      <4>1. local[k] \subseteq {central[k]}
        BY <1>1, <3>2, <3>4 DEF RowIsLocal
      <4>2. local'[k] = local[k] \cup {central[k]}
        BY <1>0, <1>4, <2>2, <3>1, <3>4 DEF Upsert, Insert, StoreOK, LocalRows
      <4> QED
        BY <4>1, <4>2
    <3> QED
      BY <3>3, <3>4
  <2>5. \A j \in Keys \ excused' : local'[j] = local[j] \/ local'[j] = {central[j]}
    BY <2>1, <2>3, <2>4
  <2>6. \A j \in In(hand'[t]) \ excused' : hand'[t][j] = central[j]
    BY <2>1 DEF MarksParts, HandIsCurrent, InHand
  <2>7. \A j \in row'[t] \ excused' :
           /\ at'[t] = "write" /\ found'[t] => local'[j] # {}
           /\ at'[t] = "write" /\ ~found'[t] => local'[j] \subseteq {central[j]}
           /\ at'[t] = "mark" => local'[j] = {central[j]}
    BY <2>1, <2>4
  <2>8. at'[t] \notin {"clear", "truncate"} /\ excused \subseteq excused'
    BY <2>1
  <2> QED
    BY <1>1, <2>5, <2>6, <2>7, <2>8, MarksWhenOneSteps
<1> QED
  BY <1>3, <1>5, <1>6

LEMMA MarksWhenMarking ==
  ASSUME TypeOK, RealRows, How.marks, MarksParts, NEW t \in Threads, Mark(t)
  PROVE  MarksParts'
<1>1. PICK k \in row[t] :
        /\ hand' = [hand EXCEPT ![t] = Drop(t, k)]
        /\ fetched' \in {fetched, fetched \cup ({k} \cap In(central))}
        /\ \E ret : NextRow(t, Drop(t, k), ret)
  BY DEF Mark
<1>2. /\ at[t] = "mark" /\ At(t, {}, FALSE) /\ Run(t)
      /\ UNCHANGED <<central, local, excused>>
  BY DEF Mark, history, Run, Download
<1>3. k \in Keys /\ row'[t] = {}
  BY <1>1, <1>2, TypeParts DEF At, HandOK
<1>4. \A j \in fetched' \ (fetched \cup excused) : local[j] = {central[j]}
  <2>1. k \notin excused => local[k] = {central[k]}
    BY <1>1, <1>2 DEF MarksParts, WrittenIsLocal, RowIsLocal
  <2> QED
    BY <1>1, <2>1
<1> QED
  BY <1>1, <1>2, <1>3, <1>4, MarksWhenDropping

\* The office excuses the keys it changes under a hand, the commands those
\* they clear; a restart drops what is in hand.
LEMMA MarksWhenOthersStep ==
  ASSUME TypeOK, RealRows, How.marks, MarksParts,
         \/ CmdClearSeason \/ LateStart \/ OtherStatement \/ Crash
         \/ \E k \in Keys : Edit(k) \/ ClearExpired(k)
  PROVE  MarksParts'
<1>0. \A t \in Threads : row[t] \subseteq Keys
  BY TypeParts DEF HandOK
<1>1. CASE CmdClearSeason
  <2>1. /\ excused' = Keys /\ UNCHANGED <<central, fetched, hand, row, found, at>>
    BY <1>1 DEF CmdClearSeason, atRow
  <2>2. HandIsCurrent' /\ FetchedIsLocal'
    BY <2>1 DEF HandIsCurrent, FetchedIsLocal, InHand, In
  <2>3. WrittenIsLocal'
    BY <1>0, <2>1 DEF WrittenIsLocal
  <2>4. NeverCleared'
    BY <2>1 DEF MarksParts, NeverCleared
  <2> QED
    BY <2>2, <2>3, <2>4 DEF MarksParts
<1>2. CASE LateStart \/ OtherStatement
  <2>1. UNCHANGED <<central, fetched, local, hand, row, found, at, excused>>
    BY <1>2 DEF LateStart, OtherStatement, tables, history, atRow
  <2> QED
    BY <2>1 DEF MarksParts, HandIsCurrent, WrittenIsLocal, RowIsLocal, NeverCleared,
                FetchedIsLocal, InHand, In
<1>3. CASE Crash
  <2>1. /\ UNCHANGED <<central, fetched, local, excused>>
        /\ \A t \in Threads : /\ hand'[t] = Empty /\ row'[t] = {}
                              /\ at'[t] \in {"load", "idle"}
    BY <1>3 DEF Crash
  <2>2. HandIsCurrent'
    BY <2>1, EmptyRows DEF HandIsCurrent, InHand
  <2>3. WrittenIsLocal' /\ NeverCleared'
    BY <2>1 DEF WrittenIsLocal, NeverCleared
  <2>4. FetchedIsLocal'
    BY <2>1 DEF MarksParts, FetchedIsLocal, In
  <2> QED
    BY <2>2, <2>3, <2>4 DEF MarksParts
<1>4. ASSUME NEW k \in Keys, Edit(k)
      PROVE  MarksParts'
  <2>1. PICK v \in {events + 2, NoRow} : central' = [central EXCEPT ![k] = v]
    BY <1>4 DEF Edit
  <2>2. /\ fetched' = fetched \ {k} /\ UNCHANGED <<local, at, hand, row, found>>
        /\ excused' = IF \E t \in Threads : k \in InHand(t)
                      THEN excused \cup {k} ELSE excused \ {k}
    BY <1>4 DEF Edit, atRow
  <2>3. central \in Rows
    BY TypeParts DEF StoreOK
  <2>4. \A j \in Keys : j # k => central'[j] = central[j] /\ (j \in excused' <=> j \in excused)
    BY <2>1, <2>2, <2>3 DEF Rows
  <2>5. \A t \in Threads : k \in InHand(t) => k \in excused'
    BY <2>2
  <2>6. HandIsCurrent'
    <3> SUFFICES ASSUME NEW t \in Threads, NEW j \in InHand(t), j \notin excused'
                 PROVE  hand[t][j] = central'[j]
      BY <2>2 DEF HandIsCurrent, InHand, In
    <3>1. j # k /\ j \in Keys
      BY <2>5 DEF InHand, In
    <3> QED
      BY <2>4, <3>1 DEF MarksParts, HandIsCurrent
  <2>7. WrittenIsLocal'
    <3> SUFFICES ASSUME NEW t \in Threads, NEW j \in row[t], j \notin excused'
                 PROVE  RowIsLocal(t, j)'
      BY <2>2 DEF WrittenIsLocal
    <3>1. j # k /\ j \in Keys
      BY <1>0, <2>5 DEF RealRows
    <3>2. RowIsLocal(t, j) /\ central'[j] = central[j]
      BY <2>4, <3>1 DEF MarksParts, WrittenIsLocal
    <3> QED
      BY <2>2, <3>2 DEF RowIsLocal
  <2>8. NeverCleared'
    BY <2>2 DEF MarksParts, NeverCleared
  <2>9. FetchedIsLocal'
    <3> SUFFICES ASSUME NEW j \in In(central'), j \in fetched', j \notin excused'
                 PROVE  local[j] = {central'[j]}
      BY <2>2 DEF FetchedIsLocal, In
    <3>1. j # k /\ j \in Keys /\ j \in fetched
      BY <2>2 DEF In
    <3>2. central'[j] = central[j] /\ j \notin excused /\ j \in In(central)
      BY <2>4, <3>1 DEF In
    <3> QED
      BY <3>1, <3>2 DEF MarksParts, FetchedIsLocal
  <2> QED
    BY <2>6, <2>7, <2>8, <2>9 DEF MarksParts
<1>5. ASSUME NEW k \in Keys, ClearExpired(k)
      PROVE  MarksParts'
  <2>1. /\ \E left : local' = [local EXCEPT ![k] = left]
        /\ excused' = excused \cup {k}
        /\ UNCHANGED <<central, fetched, hand, row, found, at>>
    BY <1>5 DEF ClearExpired, atRow
  <2>2. local \in LocalRows
    BY TypeParts DEF StoreOK
  <2>3. \A j \in Keys : j \notin excused' => j \notin excused /\ local'[j] = local[j]
    BY <2>1, <2>2 DEF LocalRows
  <2>4. HandIsCurrent' /\ NeverCleared'
    BY <2>1 DEF MarksParts, HandIsCurrent, NeverCleared, InHand, In
  <2>5. WrittenIsLocal'
    <3> SUFFICES ASSUME NEW t \in Threads, NEW j \in row[t], j \notin excused'
                 PROVE  RowIsLocal(t, j)'
      BY <2>1 DEF WrittenIsLocal
    <3>1. RowIsLocal(t, j) /\ local'[j] = local[j]
      BY <1>0, <2>3 DEF MarksParts, WrittenIsLocal
    <3> QED
      BY <2>1, <3>1 DEF RowIsLocal
  <2>6. FetchedIsLocal'
    BY <2>1, <2>3 DEF MarksParts, FetchedIsLocal, In
  <2> QED
    BY <2>4, <2>5, <2>6 DEF MarksParts
<1> QED
  BY <1>1, <1>2, <1>3, <1>4, <1>5

LEMMA MarksStep == TypeOK /\ RealRows /\ MarksInv /\ [Next]_vars => MarksInv'
<1> SUFFICES ASSUME TypeOK, RealRows, MarksInv, [Next]_vars, How.marks'
             PROVE  MarksParts'
  BY DEF MarksInv
<1>1. table' = table
  BY TableIsKept
<1>2. How.marks /\ MarksParts
  BY <1>1 DEF MarksInv, How
<1>3. ASSUME NEW t \in Threads, Run(t) \/ Command(t)
      PROVE  MarksParts'
  <2>1. ~Clear(t) /\ ~Truncate(t)
    BY <1>2 DEF MarksParts, NeverCleared, Clear, Truncate
  <2> QED
    BY <1>2, <1>3, <2>1, MarksWhenQuiet, MarksWhenSelecting, MarksWhenLookingUp,
       MarksWhenWriting, MarksWhenMarking DEF Run, Download
<1>4. CASE UNCHANGED vars
  <2>1. UNCHANGED <<central, fetched, local, hand, row, found, at, excused>>
    BY <1>4 DEF vars, tables, history, atRow
  <2> QED
    BY <1>2, <2>1 DEF MarksParts, HandIsCurrent, WrittenIsLocal, RowIsLocal,
                      NeverCleared, FetchedIsLocal, InHand, In
<1> QED
  BY <1>2, <1>3, <1>4, MarksWhenOthersStep DEF Next

(***************************************************************************)
(* A season, message or parameter the central database counts as fetched   *)
(* is the only local row of its key, in the version the central one has,   *)
(* whatever the two strands, the office, failures and restarts do, with    *)
(* the three exceptions the property names: changed under way, cleared,    *)
(* inserted beside an old row that a broken lookup did not return          *)
(* (db.cpp:548-784, 962-1344, odbc.cpp:184-226).                           *)
(***************************************************************************)
THEOREM FetchedRowsAreCurrent == Spec => []FetchedRowIsCurrent
<1>1. MarksInv => FetchedRowIsCurrent
  BY DEF MarksInv, MarksParts, FetchedIsLocal, FetchedRowIsCurrent
<1> QED
  BY <1>1, MarksInit, MarksStep, TypeCorrect, RowsAreReal, PTL DEF Spec

-----------------------------------------------------------------------------
(* The start.                                                              *)

LEMMA StartStep ==
  ASSUME TypeOK, RealRows, StartsWithWhatItNeeds, [Next]_vars
  PROVE  StartsWithWhatItNeeds'
<1>1. CASE UNCHANGED <<table, memory, started>>
  BY <1>1 DEF StartsWithWhatItNeeds
<1>2. CASE Crash
  BY <1>2 DEF Crash, StartsWithWhatItNeeds
<1>3. CASE LateStart
  BY <1>3 DEF LateStart, StartsWithWhatItNeeds, tables
<1>4. ASSUME NEW t \in Threads, LoadOthers(t)
      PROVE  StartsWithWhatItNeeds'
  <2>1. table.name = "Season" /\ UNCHANGED <<table, memory>>
    BY <1>4 DEF LoadOthers, tables
  <2> QED
    BY <2>1 DEF StartsWithWhatItNeeds, LoadedparameterOK
<1>5. ASSUME NEW t \in Threads, Load(t)
      PROVE  StartsWithWhatItNeeds'
  <2>0. UNCHANGED table
    BY <1>5 DEF Load
  <2>1. ASSUME EndLoad(t, FALSE), UNCHANGED memory
        PROVE  StartsWithWhatItNeeds'
    <3>1. started' = started \/ started' = "failed"
      BY <2>1 DEF EndLoad, EndLoadParameter
    <3> QED
      BY <2>0, <2>1, <3>1 DEF StartsWithWhatItNeeds
  <2>2. ASSUME NEW got \in SUBSET Stored(local), got # {}, TakeRows(t, got)
        PROVE  StartsWithWhatItNeeds'
    <3>1. table.name # "Season"
      BY <1>5 DEF Load
    <3>2. In(memory') # {}
      BY <2>2, <3>1, TakenTypes
    <3>3. memory' # Empty
      BY <3>2, EmptyRows
    <3> QED
      BY <3>3 DEF StartsWithWhatItNeeds
  <2>3. ASSUME FindNothing(t)
        PROVE  StartsWithWhatItNeeds'
    <3>1. CASE EndLoad(t, FALSE) /\ UNCHANGED memory
      BY <2>1, <3>1
    <3>2. CASE UNCHANGED <<started, memory>>
      BY <2>0, <3>2 DEF StartsWithWhatItNeeds
    <3> QED
      BY <2>3, <3>1, <3>2 DEF FindNothing
  <2> QED
    BY <1>5, <2>1, <2>2, <2>3 DEF Load
<1>6. ASSUME NEW t \in Threads, (Download(t) \/ Reply(t) \/ Command(t))
      PROVE  UNCHANGED <<table, memory, started>>
  BY <1>6 DEF Download, Ask, Count, Clear, Select, Truncate, Lookup, Write, Mark, Unask,
              Reply, Command, Abandon, Proceed, Still, tables
<1>7. ASSUME CmdClearSeason \/ OtherStatement \/ (\E k \in Keys : Edit(k) \/ ClearExpired(k))
      PROVE  UNCHANGED <<table, memory, started>>
  BY <1>7 DEF CmdClearSeason, OtherStatement, Edit, ClearExpired, tables
<1>8. CASE UNCHANGED vars
  BY <1>1, <1>8 DEF vars, tables
<1> QED
  BY <1>1, <1>2, <1>3, <1>4, <1>5, <1>6, <1>7, <1>8 DEF Next, Run

(***************************************************************************)
(* A station that runs has in memory what its start asked for, and no      *)
(* later download, clearing or failure takes the last of it away           *)
(* (operation.cpp:179-309, main.cpp:97-118, db.cpp:6284-6382).             *)
(***************************************************************************)
THEOREM StartedWithWhatItNeeds == Spec => []StartsWithWhatItNeeds
<1>1. Init => StartsWithWhatItNeeds
  BY DEF Init, StartsWithWhatItNeeds
<1> QED
  BY <1>1, StartStep, TypeCorrect, RowsAreReal, PTL DEF Spec

-----------------------------------------------------------------------------
(* The other tables.  Their rows are copied by the PMS strand alone, into  *)
(* a table that is emptied before or after the SELECT, or never.           *)

\* The tables without marks; that of the monitor's command has them.
LEMMA UnmarkedTables ==
  ASSUME NEW x \in AllTables
  PROVE  /\ x.name = "Parameter" => /\ ~x.download.asks /\ x.download.counts
                                    /\ ~x.download.stops /\ x.download.clears = "never"
         /\ ~x.download.marks =>
              /\ ~x.download.only /\ x.download.clears \in {"never", "before", "after"}
              /\ x.name \notin {"Season", "Message", "Parameter"}
              /\ x.download.asks \/ x.download.counts \/ x.name = "StationSetup"
                 => x.download.clears # "before"
              /\ LooksUp(x.name) <=> x.download.clears = "never"
<1>0. /\ Copied.counts = TRUE /\ Copied.stops = FALSE /\ Copied.asks = FALSE
      /\ Copied.only = FALSE /\ Copied.clears = "never" /\ Copied.marks = FALSE
  BY DEF Copied
<1>1. /\ Fetched.counts = TRUE /\ Fetched.stops = FALSE /\ Fetched.asks = FALSE
      /\ Fetched.clears = "never" /\ Fetched.marks = TRUE
  BY DEF Fetched, Copied
<1>2. /\ Replaced.counts = FALSE /\ Replaced.asks = FALSE /\ Replaced.only = FALSE
      /\ Replaced.clears = "before"
  BY DEF Replaced, Copied
<1>3. downloadseason.marks = TRUE
  BY DEF downloadseason, Fetched, Copied
<1>4. downloadholidaymst.only = FALSE /\ downloadholidaymst.clears = "after"
  BY DEF downloadholidaymst, Copied
<1>5. CASE x = Table("Season", downloadseason)
  <2>1. x.name = "Season" /\ x.download = downloadseason
    BY <1>5 DEF Table
  <2> QED
    BY <1>3, <2>1 DEF LooksUp
<1>6. CASE \E n \in {"Message", "Parameter"} : x = Table(n, Fetched)
  <2>1. PICK n \in {"Message", "Parameter"} : x = Table(n, Fetched)
    BY <1>6
  <2>2. x.name = n /\ x.download = Fetched
    BY <2>1 DEF Table
  <2> QED
    BY <1>1, <2>2 DEF LooksUp
<1>7. CASE \E n \in {"VehicleType", "StationSetup", "TR"} : x = Table(n, Copied)
  <2>1. PICK n \in {"VehicleType", "StationSetup", "TR"} : x = Table(n, Copied)
    BY <1>7
  <2>2. x.name = n /\ x.download = Copied
    BY <2>1 DEF Table
  <2> QED
    BY <1>0, <2>2 DEF LooksUp
<1>8. CASE \E n \in {"TariffSetup", "TariffTypeInfo", "XTariff"} : x = Table(n, Replaced)
  <2>1. PICK n \in {"TariffSetup", "TariffTypeInfo", "XTariff"} : x = Table(n, Replaced)
    BY <1>8
  <2>2. x.name = n /\ x.download = Replaced
    BY <2>1 DEF Table
  <2> QED
    BY <1>2, <2>2 DEF LooksUp
<1>9. CASE x = Table("Holiday", downloadholidaymst)
  <2>1. x.name = "Holiday" /\ x.download = downloadholidaymst
    BY <1>9 DEF Table
  <2> QED
    BY <1>4, <2>1 DEF LooksUp
<1>10. \/ x = Table("Season", downloadseason)
       \/ \E n \in {"Message", "Parameter"} : x = Table(n, Fetched)
       \/ \E n \in {"VehicleType", "StationSetup", "TR"} : x = Table(n, Copied)
       \/ \E n \in {"TariffSetup", "TariffTypeInfo", "XTariff"} : x = Table(n, Replaced)
       \/ x = Table("Holiday", downloadholidaymst)
  BY DEF AllTables, downloadledmessage, downloadparameter, downloadvehicletype,
         downloadstationsetup, downloadTR, downloadtariffsetup,
         downloadtarifftypeinfo, downloadxtariff
<1> QED
  BY <1>5, <1>6, <1>7, <1>8, <1>9, <1>10

\* The local row is what the central one was at the SELECT.
Settled(k) == \/ central[k] # NoRow /\ local[k] = {central[k]}
              \/ central[k] = NoRow /\ (local[k] = {} \/ How.clears = "never")

\* It is, or it will be when the row in hand is written.
BeingCopied(k) ==
  \/ /\ hand[Pms][k] # NoRow /\ hand[Pms][k] = central[k]
     /\ How.clears # "never" => local[k] = {}
  \/ hand[Pms][k] = NoRow /\ Settled(k)

CopyPlaces ==
  /\ at[Monitor] = "idle" /\ at[Pms] # "mark"
  /\ at[Pms] \in {"ask", "count"} => How.clears # "before"
  /\ at[Pms] = "clear" => How.clears = "before"
  /\ at[Pms] = "truncate" => How.clears = "after"
  /\ at[Pms] = "select" /\ How.clears = "before" => hurt /\ local = NoRows

CopyRows ==
  ~hurt => \A k \in Keys \ excused :
              IF at[Pms] = "truncate" THEN hand[Pms][k] = central[k]
              ELSE IF at[Pms] \in {"lookup", "write"} THEN BeingCopied(k) ELSE Settled(k)

\* What a lookup said is still so when the row is written.
LookupHolds ==
  ~hurt => \A k \in row[Pms] : found[Pms] <=> local[k] # {}

CopyParts == CopyPlaces /\ CopyRows /\ LookupHolds
CopyInv == ~How.marks => CopyParts

LEMMA CopyInit == Init => CopyInv
<1> SUFFICES ASSUME Init PROVE CopyPlaces /\ CopyRows /\ LookupHolds
  BY DEF CopyInv, CopyParts
<1>1. at[Monitor] = "idle" /\ at[Pms] = "load"
  BY ThreadsAssumption DEF Init, Threads
<1>2. ASSUME ~hurt, NEW k \in Keys PROVE Settled(k)
  <2>1. local = [j \in Keys |-> {1}] /\ central = [j \in Keys |-> 1]
    BY <1>2 DEF Init
  <2> QED
    BY <2>1 DEF Settled, NoRow
<1>3. row[Pms] = {}
  BY DEF Init, Threads
<1> QED
  BY <1>1, <1>2, <1>3 DEF CopyPlaces, CopyRows, LookupHolds

\* What is known of a table without marks.
LEMMA Unmarked ==
  ASSUME TypeOK, ~How.marks
  PROVE  /\ table.name \in Names /\ ~How.only
         /\ How.clears \in {"never", "before", "after"}
         /\ table.name \notin {"Season", "Message", "Parameter"}
         /\ How.asks \/ How.counts \/ table.name = "StationSetup" => How.clears # "before"
         /\ LooksUp(table.name) <=> How.clears = "never"
         /\ at \in [Threads -> Places] /\ hand \in [Threads -> Rows]
         /\ row \in [Threads -> SUBSET Keys] /\ found \in [Threads -> BOOLEAN]
         /\ local \in LocalRows /\ central \in Rows /\ hurt \in BOOLEAN
         /\ Pms \in Threads /\ Monitor \in Threads /\ Pms # Monitor
  BY StudiedTable, UnmarkedTables, TypeParts, ThreadsAssumption
     DEF How, StoreOK, FlagsOK, RunOK, HandOK, Threads

\* The strand moves between statements that copy no row.
LEMMA CopyWhenMoving ==
  ASSUME TypeOK, ~How.marks, CopyParts,
         at[Pms] \notin {"truncate", "lookup", "write"},
         NEW to \in Places \ {"truncate", "lookup", "write", "mark"},
         to \in {"ask", "count", "select"} => How.clears # "before",
         to = "clear" => How.clears = "before",
         at' = [at EXCEPT ![Pms] = to], row'[Pms] = {},
         UNCHANGED <<table, central, local, hurt, excused>>
  PROVE  CopyParts'
<1>1. at'[Pms] = to /\ at'[Monitor] = "idle" /\ How' = How
  BY Unmarked DEF CopyParts, CopyPlaces, How
<1>2. CopyPlaces'
  BY <1>1 DEF CopyPlaces
<1>3. CopyRows'
  BY <1>1 DEF CopyParts, CopyRows, Settled
<1>4. LookupHolds'
  BY DEF LookupHolds
<1> QED
  BY <1>2, <1>3, <1>4 DEF CopyParts

\* Where a load ends; only the station setup is then downloaded at once.
LEMMA LoadEnds ==
  ASSUME TypeOK, ~How.marks, NEW ok, EndLoad(Pms, ok)
  PROVE  \E to \in {"idle", "count"} : /\ at' = [at EXCEPT ![Pms] = to]
                                       /\ to = "count" => How.clears # "before"
<1>1. table.name # "Season" /\ (table.name = "StationSetup" => How.clears # "before")
  BY Unmarked
<1>2. CASE phase = "boot"
  <2>1. EndLoadParameter(Pms, ok)
    BY <1>2 DEF EndLoad
  <2> QED
    BY <1>1, <2>1 DEF EndLoadParameter, Goto
<1>3. CASE phase # "boot"
  BY <1>3 DEF EndLoad, Leave, Goto
<1> QED
  BY <1>2, <1>3

LEMMA CopyWhenQuiet ==
  ASSUME TypeOK, RealRows, ~How.marks, CopyParts,
         \/ Ask(Pms) \/ Count(Pms) \/ LoadOthers(Pms) \/ Load(Pms)
         \/ Reply(Pms) \/ Command(Pms) \/ Unask(Pms)
  PROVE  CopyParts'
<1>1. UNCHANGED <<table, central, local, hurt, excused>>
  BY DEF Ask, Count, LoadOthers, Load, Reply, Command, Unask, Abandon, Proceed,
         Still, tables, history
<1>2. at[Pms] \notin {"truncate", "lookup", "write"}
  BY DEF Ask, Count, LoadOthers, Load, Reply, Command, Unask, Serving
<1> DEFINE Fits(to) == /\ to \in Places \ {"truncate", "lookup", "write", "mark"}
                       /\ to \in {"ask", "count", "select"} => How.clears # "before"
                       /\ to = "clear" => How.clears = "before"
<1>3. Fits("idle") /\ Fits("load") /\ Fits("reply")
  BY DEF Places
<1>4. /\ How.clears # "before" => Fits("ask") /\ Fits("count") /\ Fits("select")
      /\ How.clears = "before" => Fits("clear")
  BY DEF Places
<1>0. \A to : Fits(to) /\ at' = [at EXCEPT ![Pms] = to] => CopyParts'
  <2>1. row'[Pms] = {}
    BY QuietActions, Unmarked DEF atRow
  <2> QED
    BY <1>1, <1>2, <2>1, CopyWhenMoving
<1> HIDE DEF Fits
<1>5. CASE Ask(Pms) \/ Count(Pms)
  <2>1. How.clears # "before"
    BY <1>5 DEF Ask, Count, CopyParts, CopyPlaces
  <2>2. Abandon(Pms) \/ Proceed(Pms, "select")
    BY <1>5 DEF Ask, Count
  <2>3. CASE Abandon(Pms)
    BY <1>0, <1>3, <2>3, NextPlaces, Unmarked DEF Abandon, Leave, Goto
  <2>4. CASE Proceed(Pms, "select")
    BY <1>0, <1>4, <2>1, <2>4 DEF Proceed, Goto
  <2> QED
    BY <2>2, <2>3, <2>4
<1>6. ASSUME NEW ok, EndLoad(Pms, ok) PROVE CopyParts'
  <2>1. PICK to \in {"idle", "count"} : /\ at' = [at EXCEPT ![Pms] = to]
                                        /\ to = "count" => How.clears # "before"
    BY <1>6, LoadEnds
  <2>2. Fits(to)
    BY <1>3, <1>4, <2>1
  <2> QED
    BY <1>0, <2>1, <2>2
<1>7. CASE Load(Pms) \/ LoadOthers(Pms)
  <2>1. CASE \E ok \in BOOLEAN : EndLoad(Pms, ok)
    BY <1>6, <2>1
  <2>2. CASE ~\E ok \in BOOLEAN : EndLoad(Pms, ok)
    <3>1. Goto(Pms, IF How.clears = "before" THEN "clear" ELSE "select")
      BY <1>7, <2>2 DEF Load, LoadOthers, FindNothing, TakeRows
    <3> QED
      BY <1>0, <1>4, <3>1 DEF Goto
  <2> QED
    BY <2>1, <2>2
<1>8. CASE Reply(Pms)
  BY <1>0, <1>3, <1>8 DEF Reply, Goto
<1>9. CASE Command(Pms)
  <2>1. Fits(Statements(Pms))
    <3>1. How.asks \/ How.counts => How.clears # "before"
      BY Unmarked
    <3>2. CASE Checked(Pms)
      BY <1>4, <3>1, <3>2 DEF Statements, Checked
    <3>3. CASE ~Checked(Pms) /\ How.counts
      BY <1>4, <3>1, <3>3 DEF Statements
    <3>4. CASE ~Checked(Pms) /\ ~How.counts
      BY <1>4, <3>4 DEF Statements
    <3> QED
      BY <3>2, <3>3, <3>4
  <2> QED
    BY <1>0, <1>9, <2>1 DEF Command, Goto
<1>10. CASE Unask(Pms)
  BY <1>0, <1>3, <1>10, NextPlaces, Unmarked DEF Unask, Leave, Goto
<1> QED
  BY <1>5, <1>7, <1>8, <1>9, <1>10

LEMMA CopyWhenClearing ==
  ASSUME TypeOK, RealRows, ~How.marks, CopyParts, Clear(Pms)
  PROVE  CopyParts'
<1>0. row'[Pms] = {}
  BY QuietActions, Unmarked DEF atRow
<1>1. CASE Abandon(Pms)
  <2>1. AfterDownload(Pms, FALSE) \in {"idle", "load", "reply"}
    BY NextPlaces, Unmarked
  <2>2. /\ at' = [at EXCEPT ![Pms] = AfterDownload(Pms, FALSE)]
        /\ UNCHANGED <<table, central, local, hurt, excused>>
        /\ at[Pms] = "clear"
    BY <1>1 DEF Clear, Abandon, Leave, Goto, Still, tables, history
  <2>3. AfterDownload(Pms, FALSE) \in Places \ {"truncate", "lookup", "write", "mark"}
    BY <2>1 DEF Places
  <2> QED
    BY <1>0, <2>1, <2>2, <2>3, CopyWhenMoving
<1>2. CASE ~Abandon(Pms)
  <2>1. /\ at' = [at EXCEPT ![Pms] = "select"] /\ local' = NoRows /\ hurt' = TRUE
        /\ table' = table
    BY <1>2 DEF Clear, Goto
  <2>2. at'[Pms] = "select" /\ at'[Monitor] = "idle" /\ How' = How
    BY <2>1, Unmarked DEF CopyParts, CopyPlaces, How
  <2>3. CopyPlaces'
    BY <2>1, <2>2 DEF CopyPlaces
  <2> QED
    BY <2>1, <2>3 DEF CopyParts, CopyRows, LookupHolds
<1> QED
  BY <1>1, <1>2

LEMMA CopyWhenSelecting ==
  ASSUME TypeOK, RealRows, ~How.marks, CopyParts, Select(Pms)
  PROVE  CopyParts'
<1>0. at[Pms] = "select" /\ row'[Pms] = {}
  BY QuietActions, Unmarked DEF Select, atRow
<1>1. CASE Abandon(Pms)
  <2>1. AfterDownload(Pms, FALSE) \in {"idle", "load", "reply"}
    BY NextPlaces, Unmarked
  <2>2. /\ at' = [at EXCEPT ![Pms] = AfterDownload(Pms, FALSE)]
        /\ UNCHANGED <<table, central, local, hurt, excused>>
    BY <1>1 DEF Abandon, Leave, Goto, Still, tables, history
  <2>3. AfterDownload(Pms, FALSE) \in Places \ {"truncate", "lookup", "write", "mark"}
    BY <2>1 DEF Places
  <2> QED
    BY <1>0, <2>1, <2>2, <2>3, CopyWhenMoving
<1>2. CASE ~Abandon(Pms)
  <2>1. PICK got \in SUBSET Qualify :
          /\ hand' = [hand EXCEPT ![Pms] = Only(got)]
          /\ IF How.clears = "after" /\ got # {}
             THEN Goto(Pms, "truncate") /\ UNCHANGED <<some, phase>>
             ELSE NextRow(Pms, Only(got), FALSE)
          /\ hurt' = (got # Qualify \/ (How.clears = "after" /\ got = {}))
          /\ UNCHANGED <<table, central, local>>
    BY <1>2 DEF Select, tables
  <2>2. hand'[Pms] = Only(got) /\ How' = How
    BY <2>1, Unmarked DEF How
  <2>3. ASSUME ~hurt' PROVE \A k \in Keys : hand'[Pms][k] = central[k]
    <3>1. Only(Qualify) = [k \in Keys |-> IF central[k] # NoRow THEN central[k] ELSE NoRow]
      BY Unmarked DEF Only, Qualify
    <3> QED
      BY <2>1, <2>2, <2>3, <3>1
  <2>4. LookupHolds'
    BY <1>0 DEF LookupHolds
  <2>5. CASE How.clears = "after" /\ got # {}
    <3>1. at' = [at EXCEPT ![Pms] = "truncate"]
      BY <2>1, <2>5 DEF Goto
    <3>2. at'[Pms] = "truncate" /\ at'[Monitor] = "idle"
      BY <3>1, Unmarked DEF CopyParts, CopyPlaces
    <3>3. CopyPlaces'
      BY <2>2, <2>5, <3>2 DEF CopyPlaces
    <3>4. CopyRows'
      BY <2>1, <2>3, <3>2 DEF CopyRows
    <3> QED
      BY <2>4, <3>3, <3>4 DEF CopyParts
  <2>6. CASE ~(How.clears = "after" /\ got # {})
    <3>1. NextRow(Pms, Only(got), FALSE)
      BY <2>1, <2>6
    <3>2. PICK to \in {"lookup", "write", "unask", "load", "reply", "idle"} : at' = [at EXCEPT ![Pms] = to]
      BY <3>1, NextRowMoves, Unmarked
    <3>3. at'[Pms] = to /\ at'[Monitor] = "idle"
      BY <3>2, Unmarked DEF CopyParts, CopyPlaces
    <3>4. CopyPlaces'
      BY <3>3 DEF CopyPlaces
    <3>5. to \notin {"lookup", "write"} => In(Only(got)) = {}
      BY <3>1, <3>3, Unmarked DEF NextRow, Goto, FirstStatement
    <3>6. CopyRows'
      <4> SUFFICES ASSUME ~hurt', NEW k \in Keys
                   PROVE  IF to \in {"lookup", "write"} THEN BeingCopied(k)' ELSE Settled(k)'
        BY <3>3 DEF CopyRows
      <4>1. hand'[Pms][k] = central[k] /\ central' = central /\ local' = local
        BY <2>1, <2>3
      <4>2. to \notin {"lookup", "write"} => hand'[Pms][k] = NoRow
        BY <2>2, <3>5 DEF In
      <4>3. CASE How.clears = "before"
        <5>1. local[k] = {}
          BY <1>0, <4>3, NoLocalRows DEF CopyParts, CopyPlaces
        <5> QED
          BY <4>1, <4>2, <5>1 DEF BeingCopied, Settled
      <4>4. CASE How.clears = "never"
        BY <2>2, <4>1, <4>2, <4>4 DEF BeingCopied, Settled
      <4>5. CASE How.clears \notin {"before", "never"}
        <5>1. How.clears = "after"
          BY <4>5, Unmarked
        <5> QED
          BY <2>1, <2>6, <5>1
      <4> QED
        BY <4>3, <4>4, <4>5
    <3> QED
      BY <2>4, <3>4, <3>6 DEF CopyParts
  <2> QED
    BY <2>5, <2>6
<1> QED
  BY <1>1, <1>2

LEMMA CopyWhenTruncating ==
  ASSUME TypeOK, RealRows, ~How.marks, CopyParts, Truncate(Pms)
  PROVE  CopyParts'
<1>1. /\ at[Pms] = "truncate" /\ at' = [at EXCEPT ![Pms] = "write"]
      /\ (local' = NoRows /\ hurt' = hurt) \/ hurt' = TRUE
      /\ UNCHANGED <<table, central, hand, excused>>
  BY DEF Truncate, Goto
<1>2. at'[Pms] = "write" /\ at'[Monitor] = "idle" /\ How' = How
  BY <1>1, Unmarked DEF CopyParts, CopyPlaces, How
<1>3. CopyPlaces'
  BY <1>2 DEF CopyPlaces
<1>4. CopyRows'
  <2> SUFFICES ASSUME ~hurt', NEW k \in Keys \ excused' PROVE BeingCopied(k)'
    BY <1>2 DEF CopyRows
  <2>1. local' = NoRows /\ ~hurt /\ k \in Keys \ excused
    BY <1>1
  <2>2. local'[k] = {} /\ hand'[Pms][k] = central'[k]
    BY <1>1, <2>1, NoLocalRows DEF CopyParts, CopyRows
  <2> QED
    BY <2>2 DEF BeingCopied, Settled
<1>5. LookupHolds'
  BY QuietActions, Unmarked DEF LookupHolds, atRow
<1> QED
  BY <1>3, <1>4, <1>5 DEF CopyParts

\* A row is dropped; this counts as a disturbance unless it is settled.
LEMMA CopyWhenDropping ==
  ASSUME TypeOK, RealRows, ~How.marks, CopyParts, at[Pms] \in {"lookup", "write"},
         NEW k \in Keys, hand' = [hand EXCEPT ![Pms] = Drop(Pms, k)], row'[Pms] = {},
         NEW got, NextRow(Pms, Drop(Pms, k), got),
         UNCHANGED <<table, central>>,
         ~hurt' => /\ ~hurt /\ excused' = excused
                   /\ \A j \in Keys \ {k} : local'[j] = local[j]
                   /\ k \notin excused => Settled(k)'
  PROVE  CopyParts'
<1>1. PICK to \in {"lookup", "write", "unask", "load", "reply", "idle"} : at' = [at EXCEPT ![Pms] = to]
  BY NextRowMoves, Unmarked
<1>2. at'[Pms] = to /\ at'[Monitor] = "idle" /\ hand'[Pms] = Drop(Pms, k) /\ How' = How
  BY <1>1, Unmarked DEF CopyParts, CopyPlaces, How
<1>3. CopyPlaces' /\ LookupHolds'
  BY <1>2 DEF CopyPlaces, LookupHolds
<1>4. to \notin {"lookup", "write"} => In(Drop(Pms, k)) = {}
  BY <1>2, Unmarked DEF NextRow, Goto, FirstStatement
<1>5. CopyRows'
  <2> SUFFICES ASSUME ~hurt', NEW j \in Keys \ excused'
               PROVE  IF to \in {"lookup", "write"} THEN BeingCopied(j)' ELSE Settled(j)'
    BY <1>2 DEF CopyRows
  <2>1. hand[Pms] \in Rows
    BY Unmarked
  <2>2. hand'[Pms][k] = NoRow /\ \A i \in Keys \ {k} : hand'[Pms][i] = hand[Pms][i]
    BY <1>2, <2>1 DEF Drop, Rows
  <2>3. BeingCopied(j)'
    <3>1. CASE j = k
      BY <2>2, <3>1 DEF BeingCopied
    <3>2. CASE j # k
      <4>1. BeingCopied(j)
        BY DEF CopyParts, CopyRows
      <4>2. local'[j] = local[j] /\ hand'[Pms][j] = hand[Pms][j]
        BY <2>2, <3>2
      <4> QED
        BY <1>2, <4>1, <4>2 DEF BeingCopied, Settled
    <3> QED
      BY <3>1, <3>2
  <2>4. to \notin {"lookup", "write"} => hand'[Pms][j] = NoRow
    BY <1>2, <1>4 DEF In
  <2> QED
    BY <2>3, <2>4 DEF BeingCopied
<1> QED
  BY <1>3, <1>5 DEF CopyParts

LEMMA CopyWhenSkipping ==
  ASSUME TypeOK, RealRows, ~How.marks, CopyParts, Lookup(Pms) \/ Write(Pms),
         NEW k \in Keys, SkipRow(Pms, k)
  PROVE  CopyParts'
<1>1. /\ UNCHANGED <<table, central>> /\ at[Pms] \in {"lookup", "write"}
  BY DEF Lookup, Write
<1>2. /\ hand' = [hand EXCEPT ![Pms] = Drop(Pms, k)] /\ hurt' = TRUE
      /\ NextRow(Pms, Drop(Pms, k), some[Pms])
  BY DEF SkipRow
<1>3. row'[Pms] = {}
  BY Unmarked DEF SkipRow, At
<1> QED
  BY <1>1, <1>2, <1>3, CopyWhenDropping

LEMMA CopyWhenLookingUp ==
  ASSUME TypeOK, RealRows, ~How.marks, CopyParts, Lookup(Pms)
  PROVE  CopyParts'
<1>1. PICK k \in InHand(Pms) :
        \/ SkipRow(Pms, k)
        \/ \E got \in SUBSET ({k} \cap Stored(local)) :
             /\ At(Pms, {k}, got # {}) /\ Goto(Pms, "write")
             /\ IF k \in Stored(local) \ got
                THEN hurt' = TRUE /\ excused' = excused \cup {k}
                ELSE UNCHANGED <<hurt, excused>>
             /\ UNCHANGED <<local, hand, some, phase>>
  BY DEF Lookup
<1>2. k \in Keys /\ at[Pms] = "lookup" /\ UNCHANGED <<table, central>>
  BY DEF InHand, In, Lookup
<1>3. CASE SkipRow(Pms, k)
  BY <1>2, <1>3, CopyWhenSkipping
<1>4. ASSUME NEW got \in SUBSET ({k} \cap Stored(local)),
             At(Pms, {k}, got # {}), Goto(Pms, "write"),
             IF k \in Stored(local) \ got
             THEN hurt' = TRUE /\ excused' = excused \cup {k}
             ELSE UNCHANGED <<hurt, excused>>,
             UNCHANGED <<local, hand, some, phase>>
      PROVE  CopyParts'
  <2>1. /\ at'[Pms] = "write" /\ at'[Monitor] = "idle" /\ How' = How
        /\ row'[Pms] = {k} /\ found'[Pms] = (got # {})
    BY <1>2, <1>4, Unmarked DEF At, Goto, CopyParts, CopyPlaces, How
  <2>2. ~hurt' => ~hurt /\ excused' = excused /\ (got # {} <=> local[k] # {})
    BY <1>2, <1>4, Unmarked DEF Stored
  <2>3. CopyPlaces'
    BY <2>1 DEF CopyPlaces
  <2>4. CopyRows'
    <3> SUFFICES ASSUME ~hurt', NEW j \in Keys \ excused' PROVE BeingCopied(j)'
      BY <2>1 DEF CopyRows
    <3>1. BeingCopied(j)
      BY <1>2, <2>2 DEF CopyParts, CopyRows
    <3> QED
      BY <1>2, <1>4, <2>1, <3>1 DEF BeingCopied, Settled
  <2>5. LookupHolds'
    BY <1>4, <2>1, <2>2 DEF LookupHolds
  <2> QED
    BY <2>3, <2>4, <2>5 DEF CopyParts
<1> QED
  BY <1>1, <1>3, <1>4

LEMMA CopyWhenWriting ==
  ASSUME TypeOK, RealRows, ~How.marks, CopyParts, Write(Pms)
  PROVE  CopyParts'
<1>0. at[Pms] = "write" /\ UNCHANGED <<table, central>> /\ How' = How
  BY DEF Write, How
<1>1. PICK k \in IF LooksUp(table.name) THEN row[Pms] ELSE InHand(Pms) :
             CopyRow(Pms, k) \/ SkipRow(Pms, k)
  BY DEF Write
<1>2. k \in InHand(Pms) /\ k \in Keys /\ hand[Pms][k] \in Versions \ {NoRow}
  BY <1>1, RowInHand, Unmarked
<1>3. CASE SkipRow(Pms, k)
  BY <1>2, <1>3, CopyWhenSkipping
<1>4. CASE CopyRow(Pms, k)
  <2>1. /\ hand' = [hand EXCEPT ![Pms] = Drop(Pms, k)] /\ NextRow(Pms, Drop(Pms, k), TRUE)
        /\ UNCHANGED <<hurt, excused>>
        /\ local' = WriteRow(table.name, local, k, hand[Pms][k], found[Pms])
    BY <1>4 DEF CopyRow
  <2>2. row'[Pms] = {}
    BY <1>4, Unmarked DEF CopyRow, At
  <2>3. /\ \A j \in Keys \ {k} : local'[j] = local[j]
        /\ LooksUp(table.name) => local' = Upsert(local, k, hand[Pms][k], found[Pms])
        /\ ~LooksUp(table.name) => local' = Insert(local, k, hand[Pms][k])
    BY <1>2, <2>1, RowIsWritten, Unmarked
  <2>4. ASSUME ~hurt, k \notin excused PROVE Settled(k)'
    <3>1. hand[Pms][k] = central[k] /\ (How.clears # "never" => local[k] = {})
      BY <1>0, <1>2, <2>4 DEF CopyParts, CopyRows, BeingCopied
    <3>2. local'[k] = {hand[Pms][k]}
      <4>1. CASE LooksUp(table.name)
        <5>1. found[Pms] <=> local[k] # {}
          BY <1>1, <2>4, <4>1 DEF CopyParts, LookupHolds
        <5> QED
          BY <1>2, <2>3, <4>1, <5>1, Unmarked DEF Upsert, Update, Insert, LocalRows
      <4>2. CASE ~LooksUp(table.name)
        <5>1. local[k] = {}
          BY <3>1, <4>2, Unmarked
        <5> QED
          BY <1>2, <2>3, <4>2, <5>1, Unmarked DEF Insert, LocalRows
      <4> QED
        BY <4>1, <4>2
    <3> QED
      BY <1>0, <1>2, <3>1, <3>2 DEF Settled
  <2> QED
    BY <1>0, <1>2, <2>1, <2>2, <2>3, <2>4, CopyWhenDropping
<1> QED
  BY <1>1, <1>3, <1>4

\* The office, the timer, the other threads, a restart.
LEMMA CopyWhenOthersStep ==
  ASSUME TypeOK, ~How.marks, CopyParts,
         \/ CmdClearSeason \/ LateStart \/ OtherStatement \/ Crash
         \/ \E k \in Keys : Edit(k) \/ ClearExpired(k)
  PROVE  CopyParts'
<1>1. table.name # "Season"
  BY Unmarked
<1>2. ~CmdClearSeason /\ ~\E k \in Keys : ClearExpired(k)
  BY <1>1 DEF CmdClearSeason, ClearExpired
<1>3. CASE LateStart \/ OtherStatement
  <2>1. UNCHANGED <<table, central, local, at, hand, row, found, hurt, excused>>
    BY <1>3 DEF LateStart, OtherStatement, tables, history, atRow
  <2> QED
    BY <2>1 DEF CopyParts, CopyPlaces, CopyRows, LookupHolds, BeingCopied, Settled, How
<1>4. CASE Crash
  <2>1. /\ at' = [t \in Threads |-> IF t = Pms THEN "load" ELSE "idle"]
        /\ row' = [t \in Threads |-> {}]
        /\ hurt' = (hurt \/ \E t \in Threads : Copying(t))
        /\ UNCHANGED <<table, central, local, excused>>
    BY <1>4 DEF Crash
  <2>2. /\ at'[Pms] = "load" /\ at'[Monitor] = "idle" /\ How' = How
        /\ row'[Pms] = {}
    BY <2>1, Unmarked DEF How
  <2>3. ~hurt' => ~hurt /\ at[Pms] \notin {"truncate", "lookup", "write"}
    BY <2>1, Unmarked DEF Copying
  <2>4. CopyPlaces' /\ LookupHolds'
    BY <2>2 DEF CopyPlaces, LookupHolds
  <2>5. CopyRows'
    BY <2>1, <2>2, <2>3 DEF CopyParts, CopyRows, Settled
  <2> QED
    BY <2>4, <2>5 DEF CopyParts
<1>5. ASSUME NEW k \in Keys, Edit(k) PROVE CopyParts'
  <2>1. /\ excused' = excused \cup {k}
        /\ UNCHANGED <<table, local, at, hand, row, found, hurt>>
    BY <1>5 DEF Edit, atRow
  <2>2. \A j \in Keys \ {k} : central'[j] = central[j]
    BY <1>5, Unmarked DEF Edit, Rows
  <2>3. How' = How
    BY <2>1 DEF How
  <2>4. CopyPlaces' /\ LookupHolds'
    BY <2>1, <2>3 DEF CopyParts, CopyPlaces, LookupHolds
  <2>5. CopyRows'
    <3> SUFFICES ASSUME ~hurt', NEW j \in Keys \ excused'
                 PROVE  IF at'[Pms] = "truncate" THEN hand'[Pms][j] = central'[j]
                        ELSE IF at'[Pms] \in {"lookup", "write"} THEN BeingCopied(j)'
                        ELSE Settled(j)'
      BY DEF CopyRows
    <3>1. j \in Keys \ excused /\ ~hurt /\ central'[j] = central[j]
      BY <2>1, <2>2
    <3> QED
      BY <2>1, <2>3, <3>1 DEF CopyParts, CopyRows, BeingCopied, Settled
  <2> QED
    BY <2>4, <2>5 DEF CopyParts
<1> QED
  BY <1>2, <1>3, <1>4, <1>5

LEMMA CopyStep == TypeOK /\ RealRows /\ CopyInv /\ [Next]_vars => CopyInv'
<1> SUFFICES ASSUME TypeOK, RealRows, CopyInv, [Next]_vars, ~How.marks PROVE CopyParts'
  BY TableIsKept DEF CopyInv, How
<1>1. CopyParts
  BY DEF CopyInv
<1>2. at[Monitor] = "idle" /\ at[Pms] # "mark"
  BY <1>1 DEF CopyParts, CopyPlaces
<1>3. ~Run(Monitor) /\ ~Mark(Pms)
  BY <1>2 DEF Run, Download, Ask, Count, Clear, Select, Truncate, Lookup, Write, Mark,
              Unask, Load, LoadOthers, Reply
<1>4. ~Command(Monitor)
  BY Unmarked DEF Command
<1>5. CASE Run(Pms) \/ Command(Pms)
  BY <1>1, <1>3, <1>5, CopyWhenQuiet, CopyWhenClearing, CopyWhenSelecting,
     CopyWhenTruncating, CopyWhenLookingUp, CopyWhenWriting DEF Run, Download
<1>6. CASE UNCHANGED vars
  <2>1. UNCHANGED <<table, central, local, at, hand, row, found, hurt, excused>>
    BY <1>6 DEF vars, tables, history, atRow
  <2> QED
    BY <1>1, <2>1 DEF CopyParts, CopyPlaces, CopyRows, LookupHolds, BeingCopied, Settled, How
<1>7. CASE \/ CmdClearSeason \/ LateStart \/ OtherStatement \/ Crash
           \/ \E k \in Keys : Edit(k) \/ ClearExpired(k)
  BY <1>1, <1>7, CopyWhenOthersStep
<1>8. CASE \E t \in Threads : Run(t) \/ Command(t)
  BY <1>3, <1>4, <1>5, <1>8 DEF Threads
<1> QED
  BY <1>6, <1>7, <1>8 DEF Next

(***************************************************************************)
(* A download of a table without marks that met no failure leaves exactly  *)
(* the rows its SELECT saw, and what the table kept if it is never cleared *)
(* (downloadvehicletype to downloadholidaymst, db.cpp).                    *)
(***************************************************************************)
THEOREM CopiesAreWhole == Spec => []CopyIsWhole
<1>1. TypeOK /\ CopyInv => CopyIsWhole
  <2> SUFFICES ASSUME TypeOK, CopyInv, ~How.marks, ~hurt, \A t \in Threads : ~Copying(t),
                      NEW k \in Keys \ excused
               PROVE  Settled(k)
    BY DEF CopyIsWhole, Settled
  <2>1. at[Pms] \notin {"truncate", "lookup", "write"}
    BY Unmarked DEF Copying
  <2> QED
    BY <2>1 DEF CopyInv, CopyParts, CopyRows
<1> QED
  BY <1>1, CopyInit, CopyStep, TypeCorrect, RowsAreReal, PTL DEF Spec

-----------------------------------------------------------------------------
(* What the monitor is told.  Its strand downloads the parameters only;    *)
(* when it gets to the reply and wrote the flag last, it has either        *)
(* selected the rows or left a failure in the flag.                        *)

AckInv ==
  /\ at[Pms] # "reply"
  /\ at[Monitor] # "idle" => table.name = "Parameter"
  /\ at[Monitor] \notin {"ask", "clear"}
  /\ at[Monitor] \in {"truncate", "lookup", "write", "mark", "unask"} => picked
  /\ at[Monitor] = "reply" /\ flagBy = Monitor => picked \/ errFlag

LEMMA AckInit == Init => AckInv
  BY ThreadsAssumption DEF Init, AckInv, Threads

\* What is known of the strands, and of the parameters.
LEMMA Strands ==
  ASSUME TypeOK
  PROVE  /\ Pms \in Threads /\ Monitor \in Threads /\ Pms # Monitor
         /\ Monitor # "other" /\ at \in [Threads -> Places]
         /\ picked \in BOOLEAN /\ errFlag \in BOOLEAN
         /\ table.name = "Parameter" => ~How.asks /\ How.counts /\ ~How.stops /\ How.clears = "never"
  BY StudiedTable, UnmarkedTables, TypeParts, ThreadsAssumption DEF How, RunOK, FlagsOK, Threads

\* The PMS strand never writes the flag in the monitor's name, and a
\* download of its own ends elsewhere.
LEMMA AckWhenPmsSteps ==
  ASSUME TypeOK, AckInv, table' = table, Run(Pms) \/ Command(Pms)
  PROVE  AckInv' /\ at'[Monitor] = at[Monitor]
<1>1. ~Reply(Pms)
  BY DEF AckInv, Reply
<1>2. \A got : AfterDownload(Pms, got) \in {"load", "idle"}
  BY Strands DEF AfterDownload
<1>3. Statements(Pms) \in {"ask", "count", "clear", "select"}
  BY Strands, NextPlaces
<1>4. ASSUME NEW left, NEW got, NextRow(Pms, left, got)
      PROVE  \E to \in Places \ {"reply"} : at' = [at EXCEPT ![Pms] = to]
  BY <1>2, <1>4 DEF NextRow, FirstStatement, Goto, Leave, Places
<1>5. \E to \in Places \ {"reply"} : at' = [at EXCEPT ![Pms] = to]
  <2>1. ASSUME Abandon(Pms) PROVE \E to \in Places \ {"reply"} : at' = [at EXCEPT ![Pms] = to]
    BY <1>2, <2>1 DEF Abandon, Leave, Goto, Places
  <2>2. CASE Ask(Pms) \/ Count(Pms) \/ Clear(Pms)
    BY <2>1, <2>2 DEF Ask, Count, Clear, Proceed, Goto, Places
  <2>3. CASE Select(Pms)
    <3>1. CASE ~Abandon(Pms)
      <4>1. \/ Goto(Pms, "truncate")
            \/ \E got \in SUBSET Qualify : NextRow(Pms, Only(got), FALSE)
        BY <2>3, <3>1 DEF Select
      <4>2. CASE Goto(Pms, "truncate")
        BY <4>2 DEF Goto, Places
      <4> QED
        BY <1>4, <4>1, <4>2
    <3> QED
      BY <2>1, <3>1
  <2>4. CASE Truncate(Pms)
    BY <2>4 DEF Truncate, Goto, Places
  <2>5. CASE Lookup(Pms) \/ Write(Pms)
    <3>1. \/ Goto(Pms, "mark") \/ Goto(Pms, "write")
          \/ \E left, got : NextRow(Pms, left, got)
      BY <2>5 DEF Lookup, Write, CopyRow, SkipRow
    <3>2. PICK left, got : \/ Goto(Pms, "mark") \/ Goto(Pms, "write")
                           \/ NextRow(Pms, left, got)
      BY <3>1
    <3>3. CASE Goto(Pms, "mark") \/ Goto(Pms, "write")
      BY <3>3 DEF Goto, Places
    <3> QED
      BY <1>4, <3>2, <3>3
  <2>6. CASE Mark(Pms)
    BY <1>4, <2>6 DEF Mark
  <2>7. CASE Unask(Pms)
    BY <1>2, <2>7 DEF Unask, Leave, Goto, Places
  <2>8. ASSUME NEW ok, EndLoad(Pms, ok)
        PROVE  \E to \in Places \ {"reply"} : at' = [at EXCEPT ![Pms] = to]
    BY <2>8, EndLoadMoves, Strands DEF Places
  <2>9. CASE Load(Pms) \/ LoadOthers(Pms)
    <3>1. \/ \E ok \in BOOLEAN : EndLoad(Pms, ok)
          \/ Goto(Pms, IF How.clears = "before" THEN "clear" ELSE "select")
      BY <2>9 DEF Load, LoadOthers, FindNothing, TakeRows
    <3>2. CASE Goto(Pms, IF How.clears = "before" THEN "clear" ELSE "select")
      <4>1. \E to \in {"clear", "select"} : at' = [at EXCEPT ![Pms] = to]
        BY <3>2 DEF Goto
      <4> QED
        BY <4>1 DEF Places
    <3> QED
      BY <2>8, <3>1, <3>2
  <2>10. CASE Command(Pms)
    BY <1>3, <2>10 DEF Command, Goto, Places
  <2> QED
    BY <1>1, <2>2, <2>3, <2>4, <2>5, <2>6, <2>7, <2>9, <2>10 DEF Run, Download
<1>6. at'[Monitor] = at[Monitor] /\ at'[Pms] # "reply"
  BY <1>5, Strands
<1>7. picked' = picked
  <2>1. Select(Pms) => picked' = picked
    BY Strands DEF Select, Abandon, history
  <2> QED
    BY <1>1, <2>1 DEF Run, Download, Command, Ask, Count, Clear, Truncate, Lookup, Write, CopyRow,
       SkipRow, Mark, Unask, Load, LoadOthers, Abandon, Proceed, history
<1>8. flagBy' = Pms \/ UNCHANGED <<errFlag, flagBy>>
  BY <1>1 DEF Run, Download, Command, Ask, Count, Clear, Select, Truncate, Lookup, Write,
     Mark, Unask, Load, LoadOthers, Report, NoReport
<1> QED
  BY <1>6, <1>7, <1>8, Strands DEF AckInv

\* The monitor strand: the flag says that a statement failed, or the rows
\* were selected.
LEMMA AckWhenMonitorSteps ==
  ASSUME TypeOK, AckInv, table' = table, Run(Monitor) \/ Command(Monitor)
  PROVE  AckInv'
<1>1. table.name = "Parameter"
  <2>1. CASE Command(Monitor)
    BY <2>1 DEF Command
  <2>2. CASE Run(Monitor)
    <3>1. at[Monitor] # "idle"
      BY <2>2 DEF Run, Download, Ask, Count, Clear, Select, Truncate, Lookup, Write,
                  Mark, Unask, Load, LoadOthers, Reply
    <3> QED
      BY <3>1 DEF AckInv
  <2> QED
    BY <2>1, <2>2
<1>2. /\ ~How.asks /\ How.counts /\ ~How.stops /\ How.clears = "never"
      /\ ~Refetches(table.name)
  BY <1>1, Strands DEF Refetches
<1>3. Statements(Monitor) = "count"
  BY <1>2 DEF Statements, Checked
<1>4. \A got : AfterDownload(Monitor, got) \in {"load", "reply"}
  BY DEF AfterDownload
<1>5. ASSUME NEW to \in {"idle", "count", "select", "load", "reply", "lookup", "write", "mark",
                        "unask"},
             at' = [at EXCEPT ![Monitor] = to],
             to \in {"lookup", "write", "mark", "unask"} => picked',
             to = "reply" => picked' \/ errFlag'
      PROVE  AckInv'
  <2>1. at'[Monitor] = to /\ at'[Pms] = at[Pms]
    BY <1>5, Strands
  <2> QED
    BY <1>1, <1>5, <2>1 DEF AckInv
<1>6. ASSUME NEW to \in {"idle", "count", "select", "load"}, at' = [at EXCEPT ![Monitor] = to]
      PROVE  AckInv'
  BY <1>5, <1>6
<1>7. ASSUME NEW left, NEW got, NextRow(Monitor, left, got), picked' PROVE AckInv'
  <2>1. PICK to \in {"lookup", "write", "unask", "load", "reply", "idle"} : at' = [at EXCEPT ![Monitor] = to]
    BY <1>7, NextRowMoves, Strands
  <2> QED
    BY <1>5, <1>7, <2>1
<1>8. ASSUME Abandon(Monitor), at[Monitor] # "idle", Report(Monitor, TRUE) PROVE AckInv'
  <2>1. errFlag' = TRUE
    BY <1>8 DEF Report
  <2>2. at' = [at EXCEPT ![Monitor] = AfterDownload(Monitor, FALSE)]
    BY <1>8 DEF Abandon, Leave, Goto
  <2> QED
    BY <1>4, <1>5, <2>1, <2>2
<1>9. CASE Count(Monitor)
  <2>1. at[Monitor] = "count"
    BY <1>9 DEF Count
  <2>2. (Report(Monitor, TRUE) /\ Abandon(Monitor)) \/ Proceed(Monitor, "select")
    BY <1>2, <1>9 DEF Count
  <2> QED
    BY <1>6, <1>8, <2>1, <2>2 DEF Proceed, Goto
<1>10. CASE Select(Monitor)
  <2>1. at[Monitor] = "select"
    BY <1>10 DEF Select
  <2>2. \/ Report(Monitor, TRUE) /\ Abandon(Monitor)
        \/ picked' = TRUE /\ \E got \in SUBSET Qualify : NextRow(Monitor, Only(got), FALSE)
    BY <1>2, <1>10, Strands DEF Select
  <2> QED
    BY <1>7, <1>8, <2>1, <2>2
<1>11. CASE Lookup(Monitor) \/ Write(Monitor)
  <2>1. picked' = picked /\ picked
    BY <1>11 DEF Lookup, Write, AckInv
  <2>2. \/ Goto(Monitor, "mark") \/ Goto(Monitor, "write")
        \/ \E left, got : NextRow(Monitor, left, got)
    BY <1>11 DEF Lookup, Write, CopyRow, SkipRow
  <2>3. CASE Goto(Monitor, "mark") \/ Goto(Monitor, "write")
    BY <1>5, <2>1, <2>3 DEF Goto
  <2> QED
    BY <1>7, <2>1, <2>2, <2>3
<1>12. CASE Mark(Monitor)
  <2>1. picked' = picked /\ picked
    BY <1>12 DEF Mark, AckInv, history
  <2>2. \E left, got : NextRow(Monitor, left, got)
    BY <1>12 DEF Mark
  <2> QED
    BY <1>7, <2>1, <2>2
<1>13. CASE Unask(Monitor)
  <2>1. picked' = picked /\ picked
    BY <1>13 DEF Unask, AckInv, history
  <2>2. at' = [at EXCEPT ![Monitor] = AfterDownload(Monitor, some[Monitor])]
    BY <1>13 DEF Unask, Leave, Goto
  <2> QED
    BY <1>4, <1>5, <2>1, <2>2
<1>14. CASE Truncate(Monitor)
  <2>1. picked' = picked /\ picked
    BY <1>14 DEF Truncate, AckInv
  <2> QED
    BY <1>5, <1>14, <2>1 DEF Truncate, Goto
<1>15. CASE Load(Monitor) \/ LoadOthers(Monitor)
  <2>1. PICK ok : EndLoad(Monitor, ok)
    BY <1>2, <1>15 DEF Load, LoadOthers, FindNothing, TakeRows
  <2>2. \E to \in {"idle", "count"} : at' = [at EXCEPT ![Monitor] = to]
    BY <2>1, EndLoadMoves, Strands
  <2> QED
    BY <1>6, <2>2
<1>16. CASE Reply(Monitor)
  <2>1. at' = [at EXCEPT ![Monitor] = IF errFlag THEN "idle" ELSE "load"]
    BY <1>16 DEF Reply, Goto
  <2> QED
    BY <1>6, <2>1
<1>17. CASE Command(Monitor)
  BY <1>3, <1>6, <1>17 DEF Command, Goto
<1>18. ~Ask(Monitor) /\ ~Clear(Monitor)
  BY DEF AckInv, Ask, Clear
<1> QED
  BY <1>9, <1>10, <1>11, <1>12, <1>13, <1>14, <1>15, <1>16, <1>17, <1>18 DEF Run, Download

\* The office, the timer, the other threads, a restart.
LEMMA AckWhenOthersStep ==
  ASSUME TypeOK, AckInv, table' = table,
         \/ CmdClearSeason \/ LateStart \/ OtherStatement \/ Crash \/ UNCHANGED vars
         \/ \E k \in Keys : Edit(k) \/ ClearExpired(k)
  PROVE  AckInv' /\ (at'[Monitor] = at[Monitor] \/ at'[Monitor] = "idle")
<1>1. CASE Crash
  <2>1. at'[Pms] = "load" /\ at'[Monitor] = "idle"
    BY <1>1, Strands DEF Crash
  <2> QED
    BY <2>1 DEF AckInv
<1>2. CASE ~Crash
  <2>1. at' = at /\ picked' = picked
    BY <1>2 DEF CmdClearSeason, LateStart, OtherStatement, Edit, ClearExpired, vars, history
  <2>2. flagBy' = "other" \/ UNCHANGED <<errFlag, flagBy>>
    BY <1>2 DEF CmdClearSeason, LateStart, OtherStatement, Edit, ClearExpired, vars, NoReport
  <2> QED
    BY <2>1, <2>2, Strands DEF AckInv
<1> QED
  BY <1>1, <1>2

LEMMA AckStep == TypeOK /\ AckInv /\ [Next]_vars => AckInv'
<1> SUFFICES ASSUME TypeOK, AckInv, [Next]_vars PROVE AckInv'
  OBVIOUS
<1>1. CASE \E t \in Threads : Run(t) \/ Command(t)
  BY <1>1, TableIsKept, AckWhenPmsSteps, AckWhenMonitorSteps DEF Threads
<1> QED
  BY <1>1, TableIsKept, AckWhenOthersStep DEF Next

(***************************************************************************)
(* The monitor is told that the parameters were downloaded, on the word of *)
(* its own strand, only if they were selected (CmdDownloadParam,           *)
(* downloadparameter).                                                     *)
(***************************************************************************)
THEOREM RepliesAreOfRows == Spec => AckNeedsRows
<1>1. TypeOK /\ AckInv /\ [Next]_vars
      => [at[Monitor] = "reply" /\ at'[Monitor] = "load" /\ flagBy = Monitor => picked]_vars
  <2> SUFFICES ASSUME TypeOK, AckInv, [Next]_vars,
                      at[Monitor] = "reply", at'[Monitor] = "load", flagBy = Monitor
               PROVE  picked
    OBVIOUS
  <2>1. picked \/ errFlag
    BY DEF AckInv
  <2>2. Run(Monitor) \/ Command(Monitor)
    <3>1. \/ \E t \in Threads : Run(t) \/ Command(t)
          \/ CmdClearSeason \/ LateStart \/ OtherStatement \/ Crash \/ UNCHANGED vars
          \/ \E k \in Keys : Edit(k) \/ ClearExpired(k)
      BY DEF Next
    <3> QED
      BY <3>1, TableIsKept, AckWhenPmsSteps, AckWhenOthersStep DEF Threads
  <2>3. Reply(Monitor)
    BY <2>2 DEF Run, Download, Command, Serving, Ask, Count, Clear, Select, Truncate, Lookup, Write,
                Mark, Unask, Load, LoadOthers
  <2>4. ~errFlag
    <3>1. at'[Monitor] = IF errFlag THEN "idle" ELSE "load"
      BY <2>3, Strands DEF Reply, Goto
    <3> QED
      BY <3>1
  <2> QED
    BY <2>1, <2>4
<1> QED
  BY <1>1, AckInit, AckStep, TypeCorrect, PTL DEF Spec, AckNeedsRows
=============================================================================
