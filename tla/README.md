# LinuxPBS: a verification project

LinuxPBS is the program of a parking barrier station. One process runs one
station, either the entry or the exit of a car park. It watches the loops
under the vehicle, asks a licence plate camera (LPR) for the plate, decides
whether the vehicle may pass, writes the transaction to the central database or
to a local one, drives the barrier, and takes orders from the car park
management system (PMS) over UDP. The source carries no specification, no
documents and no tests; what it promises is read from the code and its
comments. This directory states those promises as TLA+ modules, checks them
with TLC and proves part of them with TLAPS.

    1  Inventory               4  Runs, bounds and fairness
    2  Plan                    5  What is proved
    3  Modules and the code    6  Disagreements found, and behaviour to know of
                               7  What is not modelled

## 1 Inventory

### Threads

| thread | runs | source |
|---|---|---|
| event thread | every handler of `EventHandler`: loops, arm, LPR results, barcode, payment | event_manager.cpp, event_handler.cpp |
| six io_context threads | the strands below; two strands run in parallel | main.cpp:608-620 |
| - operation strand | loop A timer, LCD idle timer, display timer | operation.cpp:326, 769, 812 |
| - daily strand | the timer that fires every five seconds: ping, upload, clock, housekeeping, late start | main.cpp:26-119 |
| - log strand | hourly mount and copy of log files | main.cpp:121- |
| - PMS strand, monitor strand | datagrams of the PMS and of the monitor | udp.cpp |
| DIO thread | samples the inputs every 50 ms | dio.cpp:121-369 |
| LPR thread, Touch'n Go thread | their own io_context | lpr.cpp, touchngo_reader.cpp |

Almost all of them read and write the one record `tEntry` or `tExit` and the
flags in `tProcess`, and nearly none of that is locked. Database calls, pings
and sleeps of half a second stand between a test and the write that relies on
it. This is where most of the hazards are.

### Components

| component | state | operations | talks to | hard behaviour | correct when |
|---|---|---|---|---|---|
| Event queue | deque, running flag, condition variable | enqueue, drain, stop | every device thread puts, the event thread takes | wake-ups, stop without the mutex | no event lost, repeated, reordered or slept over; stop returns |
| Digital inputs | last level of each pin, clock of the arm, alarm flag | sample every 50 ms | event queue | two loops as one detector, failed reads | each change of occupation is one event; an alarm belongs to the present opening |
| Barrier | two relays, `giBarrierContinueOpened`, `LockBarrier` in memory and in `Param_mst` | pulse, close, hold, boot, raw output commands | event thread, timer, PMS, database | pulses of several threads, restart inside a pulse | relay on only while someone answers for it; a hold is kept and survives a restart |
| Entry lane | `tEntry`, `gsTransID`, `gbLoopApresent`, `gbsavedtrans`, `gbEntryOK`, `gbBarrierOpened`, loop A timer | LoopACome, LoopAGone, LoopCGone, Clearme, ReceivedLPR, PBSEntry, SaveEntry, manual open, car park full | event thread, timer, PMS, LPR, barrier, database | the record is cleared under a running call; late LPR answers; a cancelled timer that fires | opens for whom it recorded; one record per round; nobody on the loop is forgotten |
| Offline records | central and local tables, `glNoofOfflineData`, `giSystemOnline`, `offline_status` | insert, upload, broadcast insert, ping | event thread, PMS, daily timer, boot | statements fail or lose their answer, concurrent uploads, restart | a saved record is somewhere; it is uploaded, once unless disturbed |
| Plate matching (exit) | two best scores | compare with each open entry | exit lane, database | alignment, ties, thresholds | the best row is the best; a match is justified |
| Exit lane and payment | `tExit`, `gsLastPaidTrans`, `giCardIsIn`, fee flags | CheckIUorCardStatus, PBSExit, DebitOK, CloseExitOperation | LPR, payment, PMS, database | a payment result or a PMS answer that is late and not matched with its vehicle; the 'no plate' timeout | a vehicle leaves after its own payment, once |
| Touch'n Go | order id, strand, local HTTP server | PayRequest, pay result | HTTP, event queue | late or repeated result | one result per order |
| Season and fee | tables of seasons, tariffs, tariff types, holidays, exit charges | isvalidseason, GetSeasonTransType, CalFeeRAM2G, CalFeeRAM2GR | database | a loop over zones, days and 24-hour blocks with limits at three levels; two tariff types; error codes among amounts | the fee of an interval is what the tariff says; waiting or a season never makes it wrong; an error is no fee |
| LPR cameras | two TCP clients, reconnect timers, error slot `iLPR` | connect, reconnect, parse, send id | event queue, PMS | connect while connecting; one error slot for two cameras | the link comes back; the error state tells the truth |
| PMS and monitor link | two sockets, send buffers | about 40 commands | all of the above | datagrams lost or repeated | a command has its effect once |
| Parameters and tables | ten tables, each in the central database, in the local one and in memory; marks of fetched rows; `gbLoaded*` | download, write a row, mark it, load, LoadParameter, late start | database, PMS, monitor | statements fail between the rows, fetches break off, two strands download, restart in a download | a row marked as fetched is there; a copy is whole; the station starts only with what it needs; every row arrives |
| Errors | `tPBSError` slots | HandlePBSError | event thread, PMS | two errors in one slot | an error is reported and withdrawn once |
| Display | LED and LCD queues, last text | ShowLEDMsg, MsgDisplayHandler | operation, drivers | backlog | texts appear in order |
| Barcode reader | scanner thread | scan | event queue | device I/O | |
| HTTP server, client | sessions, timers | accept, read, write, time out | Touch'n Go | timer against completion | a session ends |
| Daily timer | counters of seconds | ping, upload, clock, housekeeping, late start | database, PMS | overlaps with PMS commands | upload happens; nothing needed is deleted |
| Start and stop | `initialized`, `gbInitParamFail` | OperationInit, gracefulShutdown | everything | late start, order of joins | a station that started works; the process ends |
| Configuration, logging, utilities | files | read, format, append | | pure I/O | |

`PROJECT.json` lists the same components with their status, and every hazard at
its line with the properties that cover it.

## 2 Plan

Modules are written in the order of what a fault would cost: a vehicle locked in
or let through, a record lost, a payment charged to somebody else.

Done:

1. `EventChannel`, `EventManager`: everything else runs on the event thread.
2. `Barrier`: the one output that can hurt, driven by everybody.
3. `EntryLane`: the life of a vehicle at the entry.
4. `OfflineSync`: the life of its record.
5. `LoopDetector`, `DioMonitor`: what the loops tell.
6. `LpnMatch`: finding the entry record at the exit.
7. `ExitLane`: plate or card, entry record, fee, payment, answer of the PMS, close.
8. `LprLink`: the links to the cameras and the error state they share.
9. `Catalogue`, `Tables`: what the station knows, and how it gets to know it.
10. `Fee`, `ExitFee`: what a vehicle pays.

Not done, in the order of what they would add:

11. The upload of exit rows and UpdateLocalEntry in `OfflineSync`.
12. `PbsError` (the slots of HandlePBSError) and `Shutdown` (the order in which
   ShutdownManager stops the devices, with FnLprClose).
13. A composition of `DioMonitor`, `EventManager` and `EntryLane` through their
    abstract specifications, and of `ExitFee` with `ExitLane`.

Every safety property that the prover can reach is proved (section 5). An abstract
`Passage` (a vehicle is charged for its own stay and leaves once) is worth stating
for `ExitLane`, but what the code implements of it is only the part without
disturbed calls and late results, which PaymentIsOfItsVehicle and OneExitPerRound
say directly.

Conventions: one module per component; an action per critical section of the
code, which ends where the code calls the database, sleeps, or gives up the
thread; parameters are CONSTANTS with a named assumption; no module but `Fee`
(and `ExitFee`, which extends it) declares a RECURSIVE operator, so that the
others can be proved about, and the theorems of a module `M` are in `MProofs`
(of `EventManager`, `Barrier`, `EntryLane`, `ExitLane`, `OfflineSync`,
`DioMonitor`, `Tables` and `LprLink`); a definition under "Mutation:" is a
plausible mistake in the definition it stands before and is used by no
specification.

## 3 Modules and the code

**EventChannel** is the promise: accepted events are delivered once, in order.
**EventManager** is event_manager.cpp. `Push` is the critical section of
FnEnqueueEvent, `Notify` the notify_one after it. The event thread walks through
TestRunning, LockQueue, EvaluatePredicate, Sleep, WakeUp, TakeFront,
ProcessEvent, Relock, QueueDrained, each of which is one access to shared state;
condition_variable::wait is modelled as releasing the mutex and joining the wait
set in one step, with spurious wake-ups. `StopRunning`, `StopNotify`, `StopJoin`
are FnStopEventThread; the flag is written without the mutex, as in the code.

**Barrier** has `openRelay` and `closeRelay` (the two output pins),
`continueOpened` (`giBarrierContinueOpened`), `lockBarrier` and `stored` (the
flag in memory and the row of `Param_mst`). CheckOpen, StartPulse, EndPulse are
Openbarrier on the event thread and on the operation strand, and inside
ManualOpenBarrier on the PMS strand. HoldRelay, HoldFlag, StoreLock are
CmdContinueOpenBarrier; ReleaseOpen, PulseClose, ClearFlag, StoreLock are
CmdCloseBarrier. LoadParameter, StartDevices, LockAtBoot and NoLockAtBoot are
OperationInit. A LoadParameter that fails ends the start there: `initFailed` is
`gbInitParamFail`, `loaded` is LoadedparameterOK. StartDevicesLate is the second
chance in the daily timer, which takes both (main.cpp:99-101); the tables that are
missing come by CmdDownloadParam or DownloadMissingTable, if the PMS sends them.
Crash is the end of the process, which leaves the pins as they are. A raw output
command of PMS or monitor is SetDioOutput.

**EntryLane** has the lane (`road`, `onA`, `onC`, `arm`), the queue of events,
the camera's answers (`asked`, `seen`), and the station's variables under the
code's names. A *round* is one LoopACome, in the steps start timer, Clearme,
look at loop B and send the id. ReceivedLPR with the tests of VehicleCome starts
PBSEntry, whose steps are SetIU, CheckEntry (blacklist, season, car park full: a
choice), SaveEntry, SetSaved, Openbarrier. The timer strand is TimerExpires and
HandleTimerTimeout. The PMS strand opens, holds, closes, and makes the car park
not full. `arg`, `wrote`, `wiped`, `records`, `stray`, `unarmed` are the local
variables and history that the properties speak of. `wrote` is the number handed to
insertentrytrans; what the insert returns is not distinguished, because the entry
sets `gbsavedtrans` and opens either way (operation.cpp:1776-1812) and compares
nothing with what was stored.

**OfflineSync** has one row per record in `central` (how often) and `local`.
ConnectCentral, CentralFails, InsertCentral, InsertLocal are insertentrytrans;
BeginUpload, CountRows, SelectRows, UploadRow, DeleteLocalTrans, EndUpload are
moveOfflineTransToCentral on three threads; BroadcastDelete and BroadcastInsert
are insertbroadcasttrans; HouseKeeping deletes rows that are too old, any of
them, since time is not counted. A statement works, fails, or works while its
answer is lost.

**LoopDetector** is the promise of the loops; **DioMonitor** is the sampling
thread with the event handlers behind it. SampleLoops and SampleArm are the
if-chains of one pass of the loop, taken together in one step because a pass
reads all pins before it tests them. HandleArmEvent keeps in `alarm` what the event
thread was told of an opening; the events of a broken arm, which report in the same
slot of `tPBSError`, are left out, so `alarm` is not the slot.

**LpnMatch** is the search of PBSExit. getMaxSimilarity and getDigitFromString
are operators over sequences; LookAtRow is one pass of the loop over
the open entries, TakeRow the choice after it.

**ExitLane** has the same lane, queue, rounds and timer as EntryLane, and the
station's variables of an exit: `lpn`, `iu`, `noEntry`, `entryOf` (whose entry time
`tExit` holds), `due`, `status`, `lastPaid`, `paidStatus`. A thread that handles
something is a record `call[t]`: where it is, the local variables of the code, and
two fields of history. A plate (ReceivedLPR) or a card (CardReceived) starts
CheckIUorCardStatus, whose branches are WaitForCard, SameCardAgain, CheckCardOK,
SameAsLast and StartPBSExit; PBSExit goes on with TurnedAway, FetchEntryinfo,
SeasonParking, CalculateFee, AskPms, ShowFee. PayResult is processTnGResponse with
DebitOK. SaveExit, SetSaved, Openbarrier are CloseExitOperation on any thread.
SaveExit hands the row to insertexittrans, and its `result` is one of three: the row
is stored, in the central or the local database; it is stored and the central update
of the movement after it fails; it is lost. SetSaved remembers the number
(setLastPaidTrans) after the first alone, and does the rest, as Openbarrier does,
after all of them.
OperationTimeout, LpnTimeout and WaitAnotherSecond are the branches of the timer's
handler. CmdTimeForNoEntry, ReceivedEntryRecord, ShowFeeForPms are the answer of the
PMS with an entry time. An amount is named after the vehicle whose stay it pays, so
that a charge for somebody else's stay can be told.

**LprLink** has one record `link[c]` per camera: the socket below AppTcpClient,
`isConnected_`, the reads outstanding and the completions that wait for the LPR
thread. `connect`, `close`, `startAsyncReceive` are operators on such a record, as
the code calls them from several handlers; Connected, Refused, Aborted are the
three branches of the connect handler, Received that of the read handler,
ReconnectTimer the handler of the two-second timer. What asio and the network do is
ConnectSucceeds, ConnectFails, DataArrives, ReadFails. A camera may stop, which
resets its connection, or vanish, which nobody notices before a write
(FnSendTransIDToLPR). `last` is `lastFrontCameraConnected_` and
`lastRearCameraConnected_`; `errNo` is the one slot `tPBSError[iLPR]`.

**Catalogue** describes the ten tables a station copies, one definition per
function of db.cpp: `downloadseason` and its nine siblings are records of how a
table is downloaded (does a flag in `parameter_mst` ask for it, is it counted
first, are only rows selected that this station has not fetched, are the local
rows cleared and when, is a written row marked); `writeseason2local` and its
siblings are how one row gets into the local table; `loadParam`,
`loadvehicletype`, `LoadXTariff` and so on are how local rows get into memory.
**Tables** is the machine that executes them, for one of the ten tables: `central`,
`fetched` and `asked` are its rows, marks and flag in the central database,
`local` and `memory` what the station has. Ask, Count, Clear, Select, Truncate,
Lookup, Write, Mark, Unask are the statements of a download, in that order, on the PMS
strand and on the monitor strand; Load is what follows it, or, while
`phase = "boot"`, the table's turn in LoadParameter, whose failure is the
`started = "failed"` that LateStart (the daily timer) repairs. A row is a version
number; the office changes it in Edit. A SELECT whose fetch breaks off returns
the rows it has and no error, as odbc::SQLSelect does. That includes the SELECT by
which six of the tables look a row up before they write it (`LooksUp`): it then
misses a row that is there, and the INSERT that follows adds a second one. So
`local` has a set of versions for each key. Only a primary key on the row's own key
(`HasKey`) refuses the second row: by createLocalDB_linuxpbs.sql that is so for the
receipt lines, among the six, and for the four tables that are inserted without a
look. Seasons, messages, parameters and vehicle types are numbered by the database, and
the station setup has no key.

**Fee** is CalFeeRAM2G and CalFeeRAM2GR as operators on a *case*: the entry time,
the tariffs as they lie in memory, the calendar and the parameters. Loop is one
round of the code's loop over the record `s` (how far the stay is charged, on
which day, and the fee of zone, day and whole stay), FirstHours, Blocks,
PerEntry, WholeDay its branches, Settle the end of a round. **ExitFee** puts the
season check in front (isvalidseason with the local fallback, FormatSeasonMsg,
GetSeasonTransType) and the decision of PBSExit behind it. Its state is a vehicle
and a clock: each state is a moment at which the vehicle at the exit may be
asked to pay, and a step is a minute of waiting. `Due` is the reference: what the
tariff promises, as a sum over days and zones, without a loop.

The modules are separate because the code couples them loosely: the event queue
is a first-in first-out queue in EntryLane because EventManager implements
EventChannel; loop A is one detector in EntryLane because DioMonitor implements
LoopDetector; the pulse is one step in EntryLane because the relays are the
business of Barrier; SaveEntry is one step there because OfflineSync takes it
apart; the row of an exit is one step of ExitLane with three results, as no module
follows it further; the fee and the season are choices in ExitLane because ExitFee decides them.

## 4 Runs, bounds and fairness

| run | instance | distinct states | shows |
|---|---|---|---|
| `event_manager` | 2 producers, 2 events each, one stop | 6 thousand | NoLostWakeup; ChannelSpec (refinement of EventChannel); EventsAreHandled; StopReturnsOutsideWindow |
| `barrier` | event thread, timer strand, PMS strand, 2 restarts | 18 thousand | RelayHasAnOwner, HoldIsKept, LockMatchesHold, RelayIsReleased |
| `entry_lane` | 2 vehicles, 2 rounds, and 2 answers each or 1 command | 6.1 million | OpensForRecordedVehicle, RecordIsOfItsRound, WaitingVehicleIsWatched, TimerStopsWithLane, OneRecordPerRound |
| `exit_lane` | 2 vehicles, 2 rounds, and one of: a second vehicle, a second answer, a second result, a command, a failed insert | 4.5 million | TypeOK, OpensOnRecord, PaymentIsOfItsVehicle, LastPaidIsRecorded, NoPlateOpensForVehicle, OneExitPerRound |
| `offline_sync` | 2 own records, 1 broadcast, 2 faults, 1 restart | 1.0 million | ReportedRecordsAreKept, UploadedOnceUnlessDisturbed, OfflineRowsAreUploaded |
| `dio_monitor` | all levels, a read may fail, queues of 3 | 34 thousand | LastEventIsTrue, AlarmIsOfThisOpening, DetectsWhatItReads |
| `tables` | each of the ten tables, 2 rows, a TOP of 1, 2 events | 1.3 million | FetchedRowIsCurrent, CopyIsWhole, StartsWithWhatItNeeds, AckNeedsRows, RowsArrive |
| `exit_fee` | some 3 thousand vehicles, each minute of a stay of up to 18 | 62 thousand | FeeIsWhatTheTariffSays, SeasonCostsNoMore, LongerStayNotCheaper |
| `tariff_errors` | the same | | violates ErrorIsNoFee, see section 6 |
| `lpr_link` | 2 cameras, 2 faults | 96 thousand | LinkIsSound, ErrorIsShown, LinkComesBack, LossIsNoticed |
| `lpn_match` | 7 plates, up to 3 open entries | 14 thousand | SimilarityFindsContainment, WholeScoreIsTheBest, MatchIsJustified |
| `lpn_match_digits` | the same | | violates DigitScoreIsTheBest, see section 6 |

Each property has a mutant in `PROJECT.json`: a plausible mistake in a mapped
definition with which TLC finds the property violated under the same bounds.

Why the bounds suffice. Two producers show both a push between another's push and
its notify, and a wake-up consumed by the other event. Two restarts show a crash
inside the recovery from a crash. The entry lane needs a vehicle that is
read twice and a vehicle after it: two vehicles and two rounds give every
pair of overlapping calls on the three threads, and the timer or one command
provides the overlap. `OneDisturbance` cuts behaviours with both a repeated answer
and a command. One command suffices to disturb a call; simulation of
longer behaviours (three rounds, three commands) met no violation. The exit
lane is too large for everything at once: one disturbance is admitted, which is a
second vehicle (so that a late result or answer meets the next one), a second
answer of the camera, a second result of an order, a command, or, by `FailsAlone`,
one row that fails to be written. The same vehicle may come back in the second
round and pass as "same as last", which is where a failed row matters. With
`DisturbedEarly` a stay with a second answer, a second result or a command is followed to the end of its first
round, and `MaxBehind` lets the lane wait while two events wait for the event
thread. Simulation with two vehicles, three rounds, three commands and
repeated answers and results met no violation of its properties. Two
faults lose the link and then an answer; with three
uploading threads two rows show an overlap that is partial. Three open entries
let a row replace a best row that replaced another. Two
faults let one camera return while the other is away, or one fail again. Two rows
and a TOP of one make a download that has to be repeated; two events are an
edit or a failure and a restart after it, on either strand. A day of four
hours of two minutes has room for three zones, blocks that do not divide them, and a stay
over two midnights; the cases cover cut and uncut zones and days, limits at all three levels,
grace, allowances, the three first hours, holidays and their eves, a missing
day type, 24-hour tariffs, two tariff types, seasons around every edge of the stay
and motorcycles. Vehicles are symmetric
and no property of the lanes is temporal, so symmetry is sound there.
`RoundsSuffice` cuts a behaviour that asks for one round more than the
bound; everything before the cut is checked.

Deadlock is checked where the system never stops: barrier, offline records,
digital inputs, camera links, tables. It is not checked in `event_manager`, where FnStopEventThread
ends the system (and hangs in its window, see section 6), in `entry_lane` and
`exit_lane`, where the lane falls silent once the bounded rounds and commands are used up,
in `lpn_match` and its sibling, where the search
ends, and in `exit_fee` and its sibling, where the studied stay does.

Where a theorem proves TypeOK for all values of the constants (section 5), no run
repeats it.

Fairness is weak and only for what the code schedules by itself:

- *EventManager*: the operating system runs the event thread, a producer that
  has pushed goes on to notify, a stop that has begun goes on. Nobody has to
  enqueue, to stop, or to wake spuriously.
- *Barrier*: a pulse that has slept goes on, a started PMS command goes on, the
  boot goes on, and the daily timer, which re-arms itself at the end of each run, starts
  the devices late when a start has failed and its tables are there. Nobody has to
  command or to download anything: a failed start whose tables never come keeps
  the relay as the crash left it, and RelayIsReleased names that time
  (`WaitsForTables`) as its exception. Nothing restarts more often than the bound.
- *OfflineSync*: started work goes on, the daily timer fires (it skips the ping
  while a vehicle stands on loop A, which is assumed to end again and again),
  the network is repaired at last, and faults are finite. The PMS, which
  also starts uploads, owes nothing.
- *LprLink*: the thread runs what is ready, the timer expires, a broken connection
  fails its read. A camera that is up answers time and again within the timer's
  two seconds, while nothing else waits for it (strong fairness: a timer that
  expires first closes the attempt). No handler takes two seconds, so whatever
  was ready when the timer was armed has run when it expires; without this
  a late answer can be taken for one of the next attempt. Nobody has to send.
- *Tables*: a strand that has begun a command finishes it, and the daily timer, which
  fires every five seconds, finishes a failed start. Nobody has to send a command;
  RowsArrive promises something only if the PMS goes on asking for the
  download, which is its premise and not an assumption of the specification.
- *EntryLane*, *ExitLane*, *DioMonitor*, *LpnMatch*, *ExitFee* state safety only.

## 5 What is proved

TLC checks the instances above; TLAPS proves the following for every value of
the constants that the named assumptions admit (any set of producers, threads,
records; any number of events, faults and restarts; any queue length). No proof
uses anything but these assumptions.

| theorem | says | from |
|---|---|---|
| `EventManagerProofs!TypeCorrect` | types | MaxEventsAssumption |
| `EventManagerProofs!WakeupsAreKept` | NoLostWakeup | the invariant below |
| `EventManagerProofs!QueueIsAChannel` | EventManager implements EventChannel | TypeOK and where an event may be in hand |
| `BarrierProofs!TypeCorrect`, `RelayAlwaysOwned`, `UndisturbedHoldIsKept`, `LockSurvivesRestart`, `NeverBothWithoutPulse` | the invariants of `barrier`, and that closeBarrier by itself never drives both relays | ThreadsAssumption, MaxCrashesAssumption |
| `EntryLaneProofs!TypeCorrect`, `EntriesAreRecorded`, `RecordsBelongToTheirRounds`, `RoundsAreRecordedOnce`, `VehiclesAreWatched`, `TimersStopWithTheLane` | OpensForRecordedVehicle, RecordIsOfItsRound, OneRecordPerRound, WaitingVehicleIsWatched, TimerStopsWithLane: all of `entry_lane` | VehiclesAssumption, BoundsAssumption |
| `ExitLaneProofs!TypeCorrect`, `ExitsAreRecorded`, `NoPlateIsOfAVehicle`, `SameAsLastHasARow`, `PaymentsAreOfTheirVehicles`, `RoundsExitOnce` | TypeOK, OpensOnRecord, NoPlateOpensForVehicle, LastPaidIsRecorded, PaymentIsOfItsVehicle, OneExitPerRound: all of `exit_lane` | VehiclesAssumption, BoundsAssumption |
| `OfflineSyncProofs!TypeCorrect`, `SavedRecordsSurvive`, `UploadedOnce` | ReportedRecordsAreKept, UploadedOnceUnlessDisturbed | RecordsAssumption, VehicleAssumption, BoundsAssumption |
| `LprLinkProofs!ErrorStateIsJustified`, `LinksAreSound` | ErrorIsShown, LinkIsSound | nothing but Init and Next |
| `DioMonitorProofs!TypeCorrect`, `LastEventTellsTheLane`, `AlarmsAreOfTheirOpening` | LastEventIsTrue, AlarmIsOfThisOpening | LevelsAssumption, MaxQueueAssumption |
| `DioMonitorProofs!LoopsDetectWhatTheyRead` | DetectsWhatItReads: what the reads return, wrong or right, is reported as one detector would | LevelsAssumption, MaxQueueAssumption |
| `DioMonitorProofs!LoopsAreOneDetector` | loops A and B implement LoopDetector when no read fails | also Levels = {LOW, HIGH} |
| `TablesProofs!TypeCorrect`, `FetchedRowsAreCurrent`, `StartedWithWhatItNeeds`, `CopiesAreWhole`, `RepliesAreOfRows` | FetchedRowIsCurrent, StartsWithWhatItNeeds, CopyIsWhole, and the action property AckNeedsRows | StudiedAssumption, ThreadsAssumption, BoundAssumption, BatchAssumption |

The arguments:

- *EventManager*. "Asleep over an event" can only be excluded together with what
  the mutex protects: while the event thread is between predicate and wait set it
  holds the mutex, so nobody can push, and the queue is as it was when the
  predicate was found false. That is the strengthening. For the refinement, the
  event in hand is put back in front of the queue: taking it is then a stutter
  and processing it the delivery.
- *Barrier*. The five properties are not inductive alone: the relay's owner
  depends on the places threads can be at (openers only pulse; the
  openers are off until the boot reaches them; the PMS strand is past its flag
  when the flag says so), a hold on who was pulsing when it began, and the stored
  row on what the boot has loaded. `IInv` is the conjunction of all of them, and
  each group of conjuncts has its own step lemma with one step per action.
- *EntryLane*. A number is stored in the record only by the event thread and only
  into an empty record, and no thread keeps a number outside a call. So the number
  a call carries through its checks is either still the stored one, hence the one
  SaveEntry writes, or a Clearme of another thread wiped the call: `IInv` says
  this for each place of PBSEntry in turn. That a row is of the round in which its
  vehicle was seen, and the only one, needs the queue and the camera: every
  answer, waiting or still to come, tells what the camera saw in its round
  (AnswersTellWhatWasSeen); and as long as the record has no plate, or a call that
  nobody wiped is on its way to SaveEntry, the present id has no row (RowInv). That a vehicle is watched needs to know
  what loop A has told: `Tells` says that the events of loop A that wait
  decide by the last of them what is on the loop, and that without one
  `gbLoopApresent` is what is on it. With nothing waiting the two agree, and `Watched` says for each place
  of a round who is going to start, or has started, the timer.
- *ExitLane*. The module has dozens of actions on nested records, so the proof first
  says what each of them does in plain terms (the lemmas `...Says`: moves to a place,
  marks the others' calls, takes an event, appends an order or a row) and never
  looks at an update again. OpensOnRecord needs that a call's number is in `tExit`,
  or in the row just written, unless the call is marked (CallHasItsNumber).
  LastPaidIsRecorded keeps what was remembered and not yet written apart from what
  is in a stored row (`Recorded`): a call at "saved" wrote a row that is stored, one
  at "failed" remembers nothing, and the row a payment is on its way to either
  is stored or puts its number among the `unwritten` (SaveSays, SetSavedKeepsKnown). PaymentIsOfItsVehicle is a chain, each link an invariant proved
  under the ones before: ids are drawn in order, and answers and results in flight
  carry ids that were (Numbered); an undisturbed number is the one the camera saw
  for the present id (NumberIsSeen, CheckIsSeen); the entry, the fee of a call that
  is under way, and the amount due are then of this number (ItsOwn); an id that was asked for and has lost its plate is on
  its way out (UsedIdGoesAway), and a call that may still ask for a payment finds none
  asked for (AsksOnce); an undisturbed order
  without a row carries the amount that is due (OrderIsDue); so the first row of
  a round that pays its own order is right (PaymentsAreRight).
  OneExitPerRound goes on from this chain, and rests on one more thing: that the lane's one vehicle
  makes one round after the other. `OneVehicle` says how it comes (before
  anything else happens, ComesOnce) and goes (it has left loop A, as far as the event
  thread can know, before it leaves loop C, so the Clearme of loop C starts no second
  round for it, LeavesAfterwards). Then a round is a token: the undisturbed call of
  each thread, the question put to the PMS, an order under the id and a row that
  counts each have a `Claim` to it, and `OneClaim` says that at most one of them has. One step
  passes it on (the event thread to the PMS's question, the question to the PMS strand,
  a call to its order or its row), or drops it by disturbing whoever held it; it is
  taken only by the check of a plate, or by the timer's "no plate", while `tExit` is
  empty, and an id that was used leaves `tExit` empty only on its way out
  (UsedIdGoesAway, ClosedGoesAway). OnlyOnce reads this off the books: the rows that count
  are of different rounds, no round has both an order and such a row, no
  id is ordered twice; and a payment that is written down had an order (PaidHaveOrders).
- *OfflineSync*. A record reported as saved is in one of the two tables; an
  upload deletes a row only after the central insert succeeded, and a broadcast or
  HouseKeeping that deletes it earlier is remembered. The invariant
  adds that a row at its delete is already in the central table. That an own
  record is uploaded once needs more (OnceInv): while it is undisturbed at most one
  thread has it in its list or in hand, a record on a list is not central, a local
  one is central only between the insert and the delete of the thread that has
  it, and a record without a result is nowhere.
- *LprLink*. Only the connect handler touches the error slot, and it does so on a
  change of `last`; whose error is missing from the slot is the history `masked`.
  LinkIsSound speaks of links at rest, and what makes it inductive is a table of
  all others, by what waits for the thread (`Good`): never more than two
  completions, the expiry of the timer included; a completion that is left over from
  a connection or an attempt that was closed since; the timer before or behind it;
  and for each which socket, flag and reads go with it. The lemmas about the queue and
  the client's operations on it make each step a look-up in that table.
- *DioMonitor*. An event tells the occupation at the time of its sample; between
  events either the occupation did not change or a read failed, which the history
  variable `missed` records. The alarm is told by two of the four kinds of event that
  may wait: `Told` says what the last of them will make of a flag, and the
  invariant is that the alarm as told is the monitor's `tooLong`, and the arm as told its
  last status, while no read of the arm failed since its last edge.
- *Tables*. Between a row's SELECT and its mark lie three statements and any number
  of steps of the other strand. `MarksInv` says what each place of a download keeps:
  a row in hand is the central one (HandIsCurrent), the row written and not
  yet marked is in the local table (WrittenIsLocal), a table with marks is never at a
  clearing statement (NeverCleared), and so a marked row is local
  (FetchedIsLocal); each up to the rows the office changed, or a lookup overlooked,
  meanwhile. Lookup and write are two steps, and what the first one found has to hold
  at the second: the row that is looked up is one in hand (`RealRows`, an invariant of
  its own); while it waits to be written, a key that was found has local rows, and one
  that was not has none but the central version, which the other strand may have
  inserted; when it waits for its mark the central version is the only one (RowIsLocal,
  LookupHolds for the tables without marks). What the start loaded
  stays because no load makes a non-empty memory empty: it is taken from at
  least one row. A table without marks is downloaded by the PMS strand alone
  (CopyPlaces), and while nothing failed each row is as the SELECT saw it or will be
  when the row in hand is written (CopyRows). A monitor strand that gets to its reply
  with the flag its own has selected the rows or left its failure in the flag (AckInv).
  ThreadsAssumption says that the two strands are two, and neither is the `"other"`
  by which the flag's writer is named when it is none of them.

Only model-checked, and why:

- every liveness property (EventsAreHandled, StopReturnsOutsideWindow,
  RelayIsReleased, OfflineRowsAreUploaded, LinkComesBack, LossIsNoticed,
  RowsArrive): the prover does not reason about fairness;
- all of ExitFee: Fee is recursive, and the prover takes no recursive operator;
- all of LpnMatch: a similarity is the maximum of a set over all alignments
  of two plates, and what makes it right (that the set is finite and not empty, that a
  plate is shorter than the scores' ceiling) is an induction over its length.

## 6 Disagreements found, and behaviour to know of

**The best row by digits is not the best** (`lpn_match_digits`). The comment at
operation.cpp:2518 says that a row is taken when its digit rate is "STRICTLY higher
than the max found so far". The code at 2520 compares it with the digit rate
of the best row by *all characters*, which the same pass has just updated. The
shortest case has one open entry: all its digits agree with those of the exit
plate and its letters do not; it becomes the best row by all characters, its
digit rate is then not higher than its own, the best row by digits stays empty
and the entry is not matched. With several entries a row with fewer common digits
can replace one with more.

**An error of the fee calculation is a free exit** (`tariff_errors`). CalFeeRAM2GR
returns `-2`, "No Tariff defined for DayType", or `-4`, "time zone wrong"
(db.cpp:6916, 6877), when the tariff of the day, of the day before or of the day
after is missing or has no last zone. PBSExit takes the code for an amount, makes a
negative one 0 (operation.cpp:2688-2690) and closes the exit as free parking. In the
run a tariff without a row for holidays lets every vehicle out for nothing on
the holiday and on the days next to it.

Other behaviour that the models contain, which no comment of the code speaks
against, and which the properties name as their exceptions:

- FnStopEventThread can hang: the flag is cleared between the event thread's test
  of the predicate and its sleep, and the notify finds nobody (event_manager.cpp:38-48).
- A pulse that overlaps the start of a hold lowers the relay the hold raised
  (operation.cpp:540 against 565); the flag then says held, and
  Openbarrier returns early for every vehicle that follows.
- A Clearme on the timer strand empties the record inside PBSEntry: SaveEntry
  returns silently for the empty record and the barrier opens
  (operation.cpp:337, 1781, 970).
- CmdCarparkfull enters the vehicle on loop A a second time when the car park
  becomes free, whether or not it was entered before (udp.cpp:439-471).
- An opening by the program is recorded as a manual opening when the arm's event is
  handled after a Clearme, or when the PMS holds the barrier (event_handler.cpp:167-181).
- A result of the payment service is not compared with the order it belongs to: a late one
  ends the transaction of the vehicle that `tExit` holds now, and when `tExit` is
  empty the barrier opens without a row. A repeated one writes a second row
  (operation.cpp:3430, 2311-2318, 2745).
- The PMS's answer with an entry time is not compared with the vehicle it was asked
  for: the vehicle on loop A is charged for the other's stay (udp.cpp:514-518).
- An exit whose insert fails opens the barrier all the same. The number is not
  remembered as the last paid then, except by DebitOK, which remembers it before the
  insert: after a payment whose row was lost the vehicle may come back and pass
  as "same as last" (operation.cpp:2311, 2759-2777, 2874).
- A card that is tapped after the exit was closed is a new number to PBSExit and is
  recorded and charged under the same transaction id (operation.cpp:2459).
- A complimentary card frees a vehicle whose payment was already requested; the
  payment that then arrives writes a row with the amount 0 (operation.cpp:2407-2425).
- The exit's Clearme keeps the transaction id, so until the new id is drawn a late plate of
  the previous round is taken for the vehicle of the next (operation.cpp:602-658, 459).
- LoopCGone clears the record of the vehicle that already stands on loop A and has
  it read, and perhaps recorded, again (operation.cpp:488-500).
- A failed insert into a central database that looks connected is not repeated
  locally (db.cpp:401-409); after a restart the count of offline rows is 0 and
  rows that the boot could not upload wait for the next offline record.
- Both cameras share one error slot: when both are away and one returns, the PMS is
  told "LPR OK" and never again of the other's error (operation.cpp:1520-1528,
  lpr.cpp:225-232).
- A camera that vanishes without closing its connection is taken as connected until
  something is sent to it (tcp_client.cpp has no keep-alive).
- An attempt that takes longer than two seconds is closed by the next tick of the
  reconnect timer, so a camera that always answers more slowly is never reached
  (lpr.cpp:190, tcp_client.cpp:107-114).
- A row that the office changes between a station's SELECT of it and the mark that
  follows is marked as fetched, and the change is never downloaded: the mark
  names the key and not the version (db.cpp:1222).
- A fetch that breaks off returns the rows it has and no error, so a table copied
  in full may be cut short, with the rest deleted before (odbc::SQLSelect).
- The lookup before a local write is such a fetch: when it breaks off the row is
  inserted beside its old version, counted, and marked as fetched, and either of the
  two may be read later (db.cpp:682, 1079, 1271; odbc.cpp:184-226). Two strands that
  look up a new parameter at the same time insert it twice, in the same version.
- The tables of a tariff are emptied before the SELECT that refills them: a failure in
  between leaves none, and a restart then starts without tariffs, which
  LoadedparameterOK does not ask for.
- The monitor's reply about a download looks at `m_remote_db_err_flag`, which every
  thread's central statement writes: it may be told of somebody else's.
- Vehicle types and receipt lines are appended at every load and never cleared; the first
  entry found is the oldest, so a changed row has no effect before a restart.
- CmdClearSeason empties the local seasons and leaves the central marks: only rows the
  office changes afterwards come back.
- The DELETE of ClearHoliday is taken for done whatever it returned; one
  that failed leaves the old rows in place of the new ones.
- One command downloads the TOP rows of the seasons only; the rest waits for the next.
- A 24-hour block in a tariff that has other days too: the blocks of a stay are
  dropped when the last day is an ordinary one, and otherwise the rest of the stay is
  capped with the last day's block (db.cpp, end of CalFeeRAM2GR).
- The flag of the second tariff type is not initialised when the stay lies in the
  first, so such a stay may be charged as if it spanned both; one that does go from the first
  type into the second is charged by the first throughout.
- Without a row of msxtariff for the vehicle the two results of GetXTariff are used as they lie
  on the stack (operation.cpp:2616-2620): the exit asks for an arbitrary amount or for the intercom.
- While the central database is away the season check of the local copy looks at
  the dates only: a stopped season passes, and an expired one is charged
  the full stay instead of the part after its end.
- A season that has expired, has not begun or was stopped pays and is still recorded with
  the season's transaction type.
- A station whose first start failed starts its devices from the daily timer
  without FnStartDIOMonitoring, Clearme or the stored hold: its loops are never
  sampled (main.cpp:97-118). Until its tables are there it does not touch the pins,
  and a relay that a crash left on stays on.

## 7 What is not modelled

Not modelled yet are the other slots of HandlePBSError, among them that of the
barrier's status, which a broken arm and an arm open too long both write
(event_handler.cpp:209-236); exit rows in the offline tables and their upload, the
content of the movement table, and failing lookups of the entry at the exit; and the
order of the shutdown (section 2). Not modelled because no
code calls it: the download functions of db.cpp:2251-3014, and tickets at the
exit (ticketScan, RedeemTime2Amt): this build never starts the barcode reader.
Of the fee, RoundIt is left out (amounts are whole), and so are rebates, owed
amounts and CalParkedTime (formatting). Known from the code and in no model: the
amount asked from the payment service is `int(amount * 100)` of a float, which loses a
cent for some amounts (operation.cpp:2424); `if (iReturn = 1 && ...)` chooses a season
message by its other conditions alone (operation.cpp:2041); the datagram layer sends from
a buffer local to its caller (udp.h:102); the one ODBC connection object of a
database is reconnected under other threads' statements (odbc.cpp:160); two
rounds within a second share their transaction id. Left
out for good: device protocols and drivers (LED, LCD, barcode scanner, sysfs),
the sessions of the HTTP server, the parsing of the cameras' results,
ODBC calls beyond their outcome, files, logging, formatting, the mount of log
shares, time synchronisation. Abstracted where modelled: a plate, a record, a
row and a command are values without content; seconds are not counted, so that a
timer may expire whenever it is armed and transaction ids, which in the code have
a resolution of one second, never collide; failing writes of output pins; data
races on plain variables are interleavings of whole reads and writes.
