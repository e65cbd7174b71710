------------------------------- MODULE Tables -------------------------------
(***************************************************************************)
(* Life of one table of the station, any of the Catalogue: the office      *)
(* edits it in the central database, the PMS strand (and, for parameters,  *)
(* the monitor strand) downloads it statement by statement on command, the *)
(* start of the program loads it, and the daily timer finishes a start     *)
(* that failed.  No transaction spans two statements and no lock spans two *)
(* strands; each statement may fail, and a SELECT whose fetch breaks off   *)
(* returns the rows it has as if they were all (odbc::SQLSelect).          *)
(*                                                                         *)
(* A row is looked up and written in two statements, so a lookup whose     *)
(* fetch breaks off, or another strand's INSERT, leaves two rows of a key. *)
(*                                                                         *)
(* The other tables appear only as "the other loads of LoadParameter       *)
(* succeed".  Which columns a row has is left out, and so is that one      *)
(* connection object serves all threads.                                   *)
(***************************************************************************)
EXTENDS Catalogue, FiniteSets

CONSTANTS
  Studied,     \* the tables studied, a subset of AllTables
  Pms,         \* the PMS strand, and main while it runs OperationInit
  Monitor,     \* the monitor strand
  MaxEvents    \* bound: changes of the office, statements that fail or are
               \* cut short, and restarts of the program, together

ASSUME StudiedAssumption == Studied \subseteq AllTables
ASSUME ThreadsAssumption == Pms # Monitor /\ "other" \notin {Pms, Monitor}
ASSUME BoundAssumption == MaxEvents \in Nat

Threads == {Pms, Monitor}

VARIABLES
  table,     \* the table studied
  central,   \* its rows in the central database
  fetched,   \* the keys marked as fetched by this station
  asked,     \* its flag in parameter_mst asks for a download
  local,     \* its rows in the local database, a set for each key
  memory,    \* its entries in memory
  at,        \* where each thread is
  hand,      \* the rows each thread has selected and not yet finished
  row,       \* the key each thread has looked up, or written and not
             \* yet marked
  found,     \* its lookup returned a row
  some,      \* downloadCount > 0, per thread, while rows are written
  retried,   \* bTried of the load that runs, per thread
  errFlag,   \* m_remote_db_err_flag # 0
  phase,     \* "boot", "startup": main, in LoadParameter and after it;
             \* "serving": the io threads run
  started,   \* "no", "full", "late" or "failed"
  events,    \* what has used up MaxEvents so far
  flagBy,    \* history: who wrote errFlag last
  picked,    \* history: the monitor's SELECT gave it the rows to copy
  excused,   \* history: keys the office changed while a thread had their
             \* row in hand, or since the last SELECT of a table without
             \* marks, or whose local row was deleted on purpose or
             \* overlooked by a lookup that broke off
  hurt       \* history: since the last SELECT that returned all rows (or
             \* without one) a statement failed, the program restarted in a
             \* download, or rows were cleared

tables == <<central, fetched, asked, local, memory>>
atRow == <<row, found>>
history == <<picked, excused, hurt>>
vars == <<table, tables, at, hand, atRow, some, retried, errFlag, flagBy, phase,
          started, events, history>>

How == table.download
InHand(t) == In(hand[t])
Copying(t) == at[t] \in {"ask", "count", "clear", "select", "truncate",
                         "lookup", "write", "mark", "unask"}

\* A station that was never used, or one whose tables are up to date.
Init ==
  /\ table \in Studied
  /\ central = [k \in Keys |-> 1] /\ asked = FALSE
  /\ \/ local = NoRows /\ fetched = {}
     \/ local = [k \in Keys |-> {1}] /\ fetched = Keys
  /\ memory = Empty
  /\ at = [t \in Threads |-> IF t = Pms THEN "load" ELSE "idle"]
  /\ hand = [t \in Threads |-> Empty]
  /\ row = [t \in Threads |-> {}] /\ found = [t \in Threads |-> FALSE]
  /\ some = [t \in Threads |-> FALSE] /\ retried = [t \in Threads |-> FALSE]
  /\ errFlag = FALSE /\ flagBy = Pms
  /\ phase = "boot" /\ started = "no"
  /\ events = 0
  /\ picked = FALSE /\ excused = {}
  /\ hurt = (local = NoRows)

-----------------------------------------------------------------------------
(* Statements.                                                             *)

Works == UNCHANGED events
Happens == events < MaxEvents /\ events' = events + 1
Fails == Happens


\* What SELECT returns of the rows that qualify, all of them or a TOP; when
\* the fetch breaks off it returns fewer, and still no error.
Whole(keys, top) ==
  IF top /\ Cardinality(keys) > Batch
  THEN {s \in SUBSET keys : Cardinality(s) = Batch} ELSE {keys}
SQLSelect(keys, top, got) ==
  \/ got \in Whole(keys, top) /\ Works
  \/ got \in (SUBSET keys) \ Whole(keys, top) /\ Fails

Only(keys) == [k \in Keys |-> IF k \in keys THEN central[k] ELSE NoRow]

Goto(t, to) == at' = [at EXCEPT ![t] = to]

\* The io threads start when OperationInit returns.
Leave(t, to) ==
  /\ Goto(t, to)
  /\ phase' = IF phase = "startup" /\ to = "idle" THEN "serving" ELSE phase

NoReport == UNCHANGED <<errFlag, flagBy>>

\* Mutation: the flag is cleared whatever the statement returned.
ClearFlag(t, bad) ==
  IF at[Monitor] = "idle" THEN NoReport ELSE errFlag' = FALSE /\ flagBy' = t

\* A central statement reports in m_remote_db_err_flag.  Only the reply to
\* the monitor reads it here, after a download that has written it: what is
\* written while the monitor strand is idle is left out.
Report(t, bad) ==
  IF at[Monitor] = "idle" THEN NoReport ELSE errFlag' = bad /\ flagBy' = t

-----------------------------------------------------------------------------
(* A download.                                                             *)

\* Where the caller goes on: in the load that started the download, at the
\* reply to the monitor, or, on the PMS strand, in the load that follows the
\* download: always, or only when ret > 0 for the tables of a tariff.
AfterDownload(t, got) ==
  IF retried[t] THEN "load"
  ELSE IF t = Monitor THEN "reply"
  ELSE IF table.name = "Season" THEN "idle"
  ELSE IF table.name \in {"XTariff", "TariffSetup", "TariffTypeInfo"} /\ ~got
  THEN "idle" ELSE "load"

Checked(t) == How.asks /\ phase = "serving" /\ ~retried[t]

Statements(t) ==
  IF Checked(t) THEN "ask"
  ELSE IF How.counts THEN "count"
  ELSE IF How.clears = "before" THEN "clear" ELSE "select"

Still(t) == UNCHANGED <<table, tables, hand, atRow, some, retried, started>>

\* ret is -1 or -3: nothing is downloaded.
Abandon(t) ==
  Leave(t, AfterDownload(t, FALSE)) /\ Still(t) /\ UNCHANGED history
Proceed(t, to) == Goto(t, to) /\ Still(t) /\ UNCHANGED <<phase, history>>

\* The first statement for a row.
FirstStatement == IF LooksUp(table.name) THEN "lookup" ELSE "write"

\* downloadCount is forgotten with the call.
Counted(t, left, got) ==
  some' = [some EXCEPT ![t] = got /\ (In(left) # {} \/ Checked(t))]

\* Mutation: the loop over the rows ends one row early.
NextRowButLast(t, left, got) ==
  /\ Counted(t, left, got)
  /\ IF Cardinality(In(left)) > 1 THEN Goto(t, FirstStatement) /\ UNCHANGED phase
     ELSE IF Checked(t) THEN Goto(t, "unask") /\ UNCHANGED phase
     ELSE Leave(t, AfterDownload(t, got))

\* After a row: the next one, the table's own flag, or downloadCount.
NextRow(t, left, got) ==
  /\ Counted(t, left, got)
  /\ IF In(left) # {} THEN Goto(t, FirstStatement) /\ UNCHANGED phase
     ELSE IF Checked(t) THEN Goto(t, "unask") /\ UNCHANGED phase
     ELSE Leave(t, AfterDownload(t, got))

Ask(t) ==
  /\ at[t] = "ask"
  /\ \/ Fails /\ Report(t, TRUE) /\ Abandon(t)
     \/ ~asked /\ Works /\ Report(t, FALSE) /\ Abandon(t)
     \/ asked /\ Works /\ NoReport /\ Proceed(t, "select")

Qualify == {k \in Keys : central[k] # NoRow /\ (How.only => k \notin fetched)}

Count(t) ==
  /\ at[t] = "count"
  /\ \/ Fails /\ Report(t, TRUE) /\ Abandon(t)
     \/ How.stops /\ Qualify = {} /\ Works /\ NoReport /\ Abandon(t)
     \/ (How.stops => Qualify # {}) /\ Works /\ Report(t, FALSE)
        /\ Proceed(t, "select")

\* The local rows are deleted before anything is known of the new ones.
Clear(t) ==
  /\ at[t] = "clear" /\ NoReport
  /\ \/ Fails /\ Abandon(t)
     \/ /\ Works /\ Goto(t, "select")
        /\ local' = NoRows /\ hurt' = TRUE
        /\ UNCHANGED <<table, central, fetched, asked, memory, hand, atRow,
                       some, retried, phase, started, picked, excused>>

Select(t) ==
  /\ at[t] = "select"
  /\ \/ Fails /\ Report(t, TRUE) /\ Abandon(t)
     \/ \E got \in SUBSET Qualify :
          /\ SQLSelect(Qualify, How.top, got) /\ Report(t, FALSE)
          /\ hand' = [hand EXCEPT ![t] = Only(got)]
          /\ IF How.clears = "after" /\ got # {}
             THEN Goto(t, "truncate") /\ UNCHANGED <<some, phase>>
             ELSE NextRow(t, Only(got), FALSE)
          /\ hurt' = (got # Qualify \/ (How.clears = "after" /\ got = {}))
          /\ excused' = IF How.marks THEN excused ELSE {}
          /\ picked' = (picked \/ t = Monitor)
          /\ UNCHANGED <<table, tables, atRow, retried, started>>

\* ClearHoliday: nobody looks at its result.
Truncate(t) ==
  /\ at[t] = "truncate" /\ NoReport
  /\ \/ Works /\ local' = NoRows /\ UNCHANGED hurt
     \/ Fails /\ hurt' = TRUE /\ UNCHANGED local
  /\ Goto(t, "write")
  /\ UNCHANGED <<table, central, fetched, asked, memory, hand, atRow, some,
                 retried, phase, started, picked, excused>>

Drop(t, k) == [hand[t] EXCEPT ![k] = NoRow]

At(t, keys, seen) ==
  /\ row' = [row EXCEPT ![t] = keys]
  /\ found' = [found EXCEPT ![t] = seen]

\* Mutation: the result of the local statements is not looked at.
MarkUnwritten(t, k) ==
  /\ IF How.marks
     THEN /\ Goto(t, "mark") /\ At(t, {k}, FALSE)
          /\ UNCHANGED <<hand, some, phase>>
     ELSE /\ hand' = [hand EXCEPT ![t] = Drop(t, k)]
          /\ NextRow(t, Drop(t, k), TRUE) /\ At(t, {}, FALSE)
  /\ hurt' = TRUE /\ UNCHANGED <<local, excused>>

\* A row that could not be looked up or written is passed over: it is not
\* counted and not marked.
SkipRow(t, k) ==
  /\ hand' = [hand EXCEPT ![t] = Drop(t, k)]
  /\ NextRow(t, Drop(t, k), some[t]) /\ At(t, {}, FALSE)
  /\ hurt' = TRUE /\ UNCHANGED <<local, excused>>

\* An INSERT may add the row to one that the lookup did not return, or that
\* the other strand has inserted since.
CopyRow(t, k) ==
  /\ local' = WriteRow(table.name, local, k, hand[t][k], found[t])
  /\ IF How.marks
     THEN /\ Goto(t, "mark") /\ At(t, {k}, FALSE)
          /\ UNCHANGED <<hand, some, phase>>
     ELSE /\ hand' = [hand EXCEPT ![t] = Drop(t, k)]
          /\ NextRow(t, Drop(t, k), TRUE) /\ At(t, {}, FALSE)
  /\ UNCHANGED <<hurt, excused>>

\* The lookup is a SELECT like the others: when its fetch breaks off it
\* returns nothing, and no error.
Lookup(t) ==
  /\ at[t] = "lookup" /\ NoReport
  /\ \E k \in InHand(t) :
       \/ Fails /\ SkipRow(t, k)
       \/ \E got \in SUBSET ({k} \cap Stored(local)) :
            /\ SQLSelect({k} \cap Stored(local), FALSE, got)
            /\ At(t, {k}, got # {}) /\ Goto(t, "write")
            /\ IF k \in Stored(local) \ got
               THEN hurt' = TRUE /\ excused' = excused \cup {k}
               ELSE UNCHANGED <<hurt, excused>>
            /\ UNCHANGED <<local, hand, some, phase>>
  /\ UNCHANGED <<table, central, fetched, asked, memory, retried, started,
                 picked>>

\* The row that was looked up, or the next one.
Write(t) ==
  /\ at[t] = "write"
  /\ \E k \in IF LooksUp(table.name) THEN row[t] ELSE InHand(t) :
       \/ Fails /\ SkipRow(t, k) /\ NoReport
       \/ /\ Refuses(table.name, local, k, found[t])
          /\ Works /\ SkipRow(t, k) /\ NoReport
       \/ /\ ~Refuses(table.name, local, k, found[t])
          /\ Works /\ CopyRow(t, k)
          /\ IF table.name = "TR" THEN Report(t, FALSE) ELSE NoReport
  /\ UNCHANGED <<table, central, fetched, asked, memory, retried, started,
                 picked>>

\* The row is marked by its key, whatever it holds by now.  An UPDATE that
\* is reported as failed may have been done.
Mark(t) ==
  /\ at[t] = "mark"
  /\ \E k \in row[t] :
       /\ \/ /\ Works /\ Report(t, FALSE)
             /\ fetched' = fetched \cup ({k} \cap In(central))
             /\ NextRow(t, Drop(t, k), TRUE)
          \/ /\ Fails /\ Report(t, TRUE)
             /\ fetched' \in {fetched, fetched \cup ({k} \cap In(central))}
             /\ NextRow(t, Drop(t, k), some[t])
       /\ hand' = [hand EXCEPT ![t] = Drop(t, k)]
  /\ At(t, {}, FALSE)
  /\ UNCHANGED <<table, central, asked, local, memory, retried, started,
                 history>>

Unask(t) ==
  /\ at[t] = "unask"
  /\ \/ Works /\ asked' = FALSE /\ NoReport
     \/ Fails /\ asked' \in {asked, FALSE} /\ Report(t, TRUE)
  /\ Leave(t, AfterDownload(t, some[t]))
  /\ some' = [some EXCEPT ![t] = FALSE]
  /\ UNCHANGED <<table, central, fetched, local, memory, hand, atRow, retried,
                 started, history>>

-----------------------------------------------------------------------------
(* Loading the local table into memory.                                    *)

\* main goes on when all loads of LoadParameter succeeded; a full start then
\* downloads the seasons, a failed one the station setup if the central
\* database was reached.
EndLoadParameter(t, ok) ==
  \/ /\ ok /\ started' = "full"
     /\ IF table.name = "Season" THEN Goto(t, "count") /\ phase' = "startup"
        ELSE Goto(t, "idle") /\ phase' = "serving"
  \/ /\ started' = "failed"
     /\ \/ Goto(t, "idle") /\ phase' = "serving"
        \/ table.name = "StationSetup"
           /\ Goto(t, "count") /\ phase' = "startup"

EndLoad(t, ok) ==
  /\ retried' = [retried EXCEPT ![t] = FALSE]
  /\ IF phase = "boot" THEN EndLoadParameter(t, ok)
     ELSE Leave(t, "idle") /\ UNCHANGED started

\* Mutation: the list in memory is cleared before the rows are counted.
ForgetFirst(t) == memory' = Empty /\ EndLoad(t, FALSE)

\* The table is empty: the loads of tariffs and holidays download it once.
FindNothing(t) ==
  /\ IF Refetches(table.name) /\ ~retried[t]
     THEN /\ retried' = [retried EXCEPT ![t] = TRUE]
          /\ Goto(t, IF How.clears = "before" THEN "clear" ELSE "select")
          /\ UNCHANGED <<phase, started>>
     ELSE EndLoad(t, FALSE)
  /\ UNCHANGED memory

\* Of a key with two rows either may be read last: the SELECTs ask for no
\* order.  A message table without LCD rows is loaded and still reported as
\* empty.
TakeRows(t, got) ==
  /\ \E read \in [got -> UNION {local[k] : k \in got}] :
       /\ \A k \in got : read[k] \in local[k]
       /\ memory' = LoadRows(table.name, memory,
                        [k \in Keys |-> IF k \in got THEN read[k] ELSE NoRow])
  /\ \/ EndLoad(t, TRUE)
     \/ table.name = "Message" /\ EndLoad(t, FALSE)

Load(t) ==
  /\ at[t] = "load" /\ table.name # "Season"
  /\ \/ Fails /\ EndLoad(t, FALSE) /\ UNCHANGED memory
     \/ \E got \in SUBSET Stored(local) :
          /\ SQLSelect(Stored(local), FALSE, got)
          /\ IF got = {} THEN FindNothing(t) ELSE TakeRows(t, got)
  /\ NoReport
  /\ UNCHANGED <<table, central, fetched, asked, local, hand, atRow, some,
                 history>>

\* LoadParameter loads no seasons.
LoadOthers(t) ==
  /\ at[t] = "load" /\ table.name = "Season"
  /\ EndLoad(t, TRUE) /\ Works /\ NoReport
  /\ UNCHANGED <<table, tables, hand, atRow, some, history>>

\* CmdDownloadParam: the flag all threads share decides whether the
\* parameters are loaded and what the monitor is told.
Reply(t) ==
  /\ at[t] = "reply"
  /\ Goto(t, IF errFlag THEN "idle" ELSE "load")
  /\ picked' = FALSE
  /\ Works /\ NoReport /\ Still(t) /\ UNCHANGED <<phase, excused, hurt>>

-----------------------------------------------------------------------------
(* Commands, and everybody else.                                           *)

Serving(t) == phase = "serving" /\ at[t] = "idle"

Command(t) ==
  /\ Serving(t)
  /\ t = Monitor => table.name = "Parameter"
  /\ Goto(t, Statements(t))
  /\ Works /\ NoReport /\ Still(t) /\ UNCHANGED <<phase, history>>

\* CmdClearSeason: the central marks stay.
CmdClearSeason ==
  /\ Serving(Pms) /\ table.name = "Season"
  /\ Works /\ local' = NoRows
  /\ hurt' = TRUE /\ excused' = Keys
  /\ NoReport
  /\ UNCHANGED <<table, central, fetched, asked, memory, at, hand, atRow,
                 some, retried, phase, started, picked>>

\* clearexpiredseason, from the daily timer.
ClearExpired(k) ==
  /\ table.name = "Season" /\ phase = "serving"
  /\ started \in {"full", "late"} /\ local[k] # {}
  /\ Works
  /\ \E left \in SUBSET local[k] :
       left # local[k] /\ local' = [local EXCEPT ![k] = left]
  /\ hurt' = TRUE /\ excused' = excused \cup {k}
  /\ NoReport
  /\ UNCHANGED <<table, central, fetched, asked, memory, at, hand, atRow,
                 some, retried, phase, started, picked>>

\* The daily timer finishes a failed start once the messages, parameters,
\* vehicle types and station setup have been loaded; nothing else counts.
LateStart ==
  /\ phase = "serving" /\ started = "failed"
  /\ table.name \in LoadedparameterOK => memory # Empty
  /\ started' = "late"
  /\ UNCHANGED <<table, tables, at, hand, atRow, some, retried, errFlag,
                 flagBy, phase, events, history>>

\* The office changes, adds or deletes a row; the station has to fetch it.
Edit(k) ==
  /\ Happens
  /\ \E v \in {events + 2, NoRow} : central' = [central EXCEPT ![k] = v]
  /\ fetched' = fetched \ {k}
  /\ asked' \in {asked, How.asks}
  /\ excused' = IF ~How.marks \/ \E t \in Threads : k \in InHand(t)
                THEN excused \cup {k} ELSE excused \ {k}
  /\ NoReport
  /\ UNCHANGED <<table, local, memory, at, hand, atRow, some, retried, phase,
                 started, picked, hurt>>

\* A central statement of any other thread; it matters to a reply only.
OtherStatement ==
  /\ at[Monitor] \notin {"idle", "load"}
  /\ errFlag' \in BOOLEAN /\ flagBy' = "other"
  /\ UNCHANGED <<table, tables, at, hand, atRow, some, retried, phase,
                 started, events, history>>

Crash ==
  /\ Happens
  /\ memory' = Empty
  /\ at' = [t \in Threads |-> IF t = Pms THEN "load" ELSE "idle"]
  /\ hand' = [t \in Threads |-> Empty] /\ row' = [t \in Threads |-> {}]
  /\ found' = [t \in Threads |-> FALSE]
  /\ some' = [t \in Threads |-> FALSE] /\ retried' = [t \in Threads |-> FALSE]
  /\ errFlag' = FALSE /\ flagBy' = Pms
  /\ phase' = "boot" /\ started' = "no"
  /\ picked' = FALSE
  /\ hurt' = (hurt \/ \E t \in Threads : Copying(t))
  /\ UNCHANGED <<table, central, fetched, asked, local, excused>>

-----------------------------------------------------------------------------
Download(t) ==
  Ask(t) \/ Count(t) \/ Clear(t) \/ Select(t) \/ Truncate(t) \/ Lookup(t)
  \/ Write(t) \/ Mark(t) \/ Unask(t)
Run(t) == Download(t) \/ Load(t) \/ LoadOthers(t) \/ Reply(t)

Next ==
  \/ \E t \in Threads : Run(t) \/ Command(t)
  \/ CmdClearSeason \/ LateStart \/ OtherStatement \/ Crash
  \/ \E k \in Keys : Edit(k) \/ ClearExpired(k)

\* A strand that has begun a command finishes it, and the timer fires every
\* second.  Nothing obliges the PMS to send commands.
Spec ==
  /\ Init /\ [][Next]_vars
  /\ \A t \in Threads : WF_vars(Run(t))
  /\ WF_vars(LateStart)

-----------------------------------------------------------------------------
(* Properties.                                                             *)

Versions == 0..MaxEvents + 1

TypeOK ==
  /\ table \in Studied
  /\ central \in [Keys -> Versions] /\ local \in [Keys -> SUBSET Versions]
  /\ memory \in [Keys -> Versions]
  /\ fetched \subseteq Keys /\ asked \in BOOLEAN
  /\ at \in [Threads -> {"idle", "ask", "count", "clear", "select", "truncate",
                         "lookup", "write", "mark", "unask", "load", "reply"}]
  /\ hand \in [Threads -> [Keys -> Versions]]
  /\ row \in [Threads -> SUBSET Keys] /\ found \in [Threads -> BOOLEAN]
  /\ some \in [Threads -> BOOLEAN] /\ retried \in [Threads -> BOOLEAN]
  /\ errFlag \in BOOLEAN /\ flagBy \in Threads \cup {"other"}
  /\ phase \in {"boot", "startup", "serving"}
  /\ started \in {"no", "full", "late", "failed"}
  /\ events \in 0..MaxEvents
  /\ picked \in BOOLEAN /\ excused \subseteq Keys /\ hurt \in BOOLEAN

\* A row the central database counts as fetched is in the local database as
\* it is there, and in no other version, through failed statements, broken
\* fetches and restarts.  The exceptions: a row changed between its SELECT
\* and its mark, a local row that was cleared, and one that was inserted
\* beside its old version because the lookup broke off (downloadseason,
\* downloadledmessage, downloadparameter and what writes their rows).
FetchedRowIsCurrent ==
  How.marks => \A k \in (In(central) \cap fetched) \ excused :
                  local[k] = {central[k]}

\* A download of the other tables that met no failure leaves exactly the
\* rows its SELECT saw; a table that is never cleared may keep more.
CopyIsWhole ==
  (~How.marks /\ ~hurt /\ \A t \in Threads : ~Copying(t))
  => \A k \in Keys \ excused :
        \/ central[k] # NoRow /\ local[k] = {central[k]}
        \/ central[k] = NoRow /\ (local[k] = {} \/ How.clears = "never")

\* A station that runs has every table in memory that its start asked for:
\* all but the seasons after LoadParameter, and those LoadedparameterOK
\* names after a late start.  No later download takes them away again.
StartsWithWhatItNeeds ==
  /\ started = "full" /\ table.name # "Season" => memory # Empty
  /\ started = "late" /\ table.name \in LoadedparameterOK => memory # Empty

\* The monitor is told that the parameters were downloaded, on the word of
\* its own strand, only if they were selected.
AckNeedsRows ==
  [][at[Monitor] = "reply" /\ at'[Monitor] = "load" /\ flagBy = Monitor
     => picked]_vars

\* If the PMS keeps sending the command, every row is fetched in the end,
\* however few the TOP lets through and whatever failed before.
RowsArrive ==
  How.marks /\ []<>(at[Pms] = "count") => <>[](In(central) \subseteq fetched)
=============================================================================
