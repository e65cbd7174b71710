------------------------------ MODULE ExitFee ------------------------------
(***************************************************************************)
(* What a vehicle pays at the exit: the season check, the fee and the      *)
(* decision of operation::PBSExit (operation.cpp).  A vehicle stands at    *)
(* the exit and time passes; every state is a moment at which it may be    *)
(* asked to pay.  Tickets are left out: nothing starts the reader of them. *)
(*                                                                         *)
(* On top of what Fee reads, a case c has the type the loops gave the      *)
(* vehicle (GetVTypeFromLoop), whether a record of its entry was found     *)
(* (bNoEntryRecord), its season, whether the local database has a copy of  *)
(* it and whether the central one answers, giSeasonCharge, the row of      *)
(* msxtariff that fits a vehicle without a record (NoRow: none) and what   *)
(* GetXTariff leaves in its two results when there is none (unset).        *)
(***************************************************************************)
EXTENDS Fee

CONSTANTS
  Cases,    \* the vehicles studied
  MaxStay   \* a stay is studied for so many minutes

VARIABLES
  case,   \* the vehicle at the exit
  now     \* the time: tExit.sExitTime

vars == <<case, now>>

iVehicleType(c) == (c.loopType - 1) \div 3

-----------------------------------------------------------------------------
(* The season.  sp_IsValidSeason runs in the central database: 1 valid,    *)
(* 2 expired, 7 not started, 8 not found, 9 complimentary, 12 master; a    *)
(* season that is stopped has a status of its own.                         *)

NoRow == [autocharge |-> 0, fee |-> 0]
NoSeason == [status |-> 8, date_from |-> 0, date_to |-> 0, rate_type |-> 0]

sp_IsValidSeason(season, time) ==
  CASE season.status # 1 -> season.status
    [] time < season.date_from -> 7
    [] time > season.date_to -> 2
    [] OTHER -> 1

sp_isvalidseason(c, time) ==
  IF c.central THEN sp_IsValidSeason(c.season, time) ELSE -1

\* The local copy is asked for the dates alone; the last day counts whole.
local_isvalidseason(c, time) ==
  /\ c.copied /\ c.season # NoSeason
  /\ c.season.date_from <= time
  /\ diffday(time, c.season.date_to) >= 0

isvalidseason(c, time) ==
  CASE sp_isvalidseason(c, time) # -1 -> sp_isvalidseason(c, time)
    [] local_isvalidseason(c, time) -> 1
    [] OTHER -> 8

\* The transaction type: one per season kind and vehicle type, otherwise
\* the one after the hourly type.
GetSeasonTransType(type, rate_type, iTransType) ==
  LET vehicle == IF rate_type = 7 /\ type = 14 THEN 0 ELSE type
  IN  CASE rate_type \in 3..18 /\ vehicle \in 0..2 ->
             50 + 3 * (rate_type - 3) + vehicle
        [] rate_type \notin 3..18 /\ iTransType = 9 -> 9
        [] OTHER -> iTransType + 1

\* CheckSeason: FormatSeasonMsg sets the transaction type for every answer
\* but 8.
FormatSeasonMsg(c, answer) ==
  IF answer = 8 THEN c.loopType
  ELSE GetSeasonTransType(iVehicleType(c), c.season.rate_type, c.loopType)

-----------------------------------------------------------------------------
(* The fee of PBSExit.                                                     *)

WholeSeason(c, answer) == answer = 1 /\ c.season.rate_type = 0

Span(from, to, iTransType) == [from |-> from, to |-> to, iTransType |-> iTransType]
Parked(c, from, to) == Span(from, to, iVehicleType(c))

\* Mutation: an expired season is charged from its first day.
SpanFromSeasonStart(c, answer, time) ==
  IF answer = 2 THEN Parked(c, c.season.date_from, time)
  ELSE Parked(c, c.entry, time)

\* What is to be paid: a season that started during the stay, or ended
\* during it, leaves the rest of the stay.
PaidSpan(c, answer, time) ==
  CASE answer = 1 /\ c.season.rate_type # 0 ->
         Span(c.entry, time, c.season.rate_type)
    [] WholeSeason(c, answer) /\ c.entry < c.season.date_from ->
         Parked(c, c.entry, c.season.date_from)
    [] answer = 2 /\ c.season.date_to > c.entry ->
         Parked(c, c.season.date_to, time)
    [] OTHER -> Parked(c, c.entry, time)

Charge(c, span) == CalFeeRAM2G(c, span.from, span.to, span.iTransType)

-----------------------------------------------------------------------------
(* What PBSExit decides: how the exit is closed, the fee and the payment.  *)

Decided(how, fee, paid) ==
  [how |-> how, fee |-> fee, paid |-> paid, iTransType |-> 0]

\* The transaction type the exit is recorded with; 10 is complimentary.
RecordedType(c, answer, how) ==
  IF how = "season" /\ answer = 9 THEN 10 ELSE FormatSeasonMsg(c, answer)

\* An error code of the calculation is below 0 and leaves nothing to pay.
Pay(fee) == Decided(IF fee > 0 THEN "pay" ELSE "free", fee, Larger(0, fee))

\* The caller of GetXTariff does not look at whether a row was found, and
\* neither result is initialised.
GetXTariff(c) == IF c.xtariff = NoRow THEN c.unset ELSE c.xtariff

NoRecord(c) ==
  IF GetXTariff(c).autocharge > 0 THEN Pay(GetXTariff(c).fee)
  ELSE Decided("intercom", 0, 0)

PBSExit(c, time) ==
  LET answer == isvalidseason(c, time)
      passes == answer \in {1, 9, 12}
      fee == Charge(c, PaidSpan(c, answer, time))
      ends == \/ WholeSeason(c, answer) /\ c.entry >= c.season.date_from
              \/ answer \in {9, 12}
      decided ==
        CASE passes /\ (c.giSeasonCharge = 0 \/ c.bNoEntryRecord = 1) ->
               Decided("season", 0, 0)
          [] ~passes /\ c.bNoEntryRecord = 1 -> NoRecord(c)
          [] OTHER ->
               IF ends THEN Decided("season", fee, 0) ELSE Pay(fee)
  IN  [decided EXCEPT !.iTransType = RecordedType(c, answer, decided.how)]

-----------------------------------------------------------------------------
Init == case \in Cases /\ now = case.entry

\* The vehicle leaves a minute later.
Wait ==
  /\ now < case.entry + MaxStay
  /\ now' = now + 1
  /\ UNCHANGED case

Next == Wait
Spec == Init /\ [][Next]_vars

-----------------------------------------------------------------------------
(* What a tariff promises, stated without a loop: for zones that are cut   *)
(* off, the blocks begun in each zone within its limits, each day within   *)
(* its own.                                                                *)

LOCAL INSTANCE FiniteSetsExt

BlocksBegun(length, ctb) == (length + ctb - 1) \div ctb

ZoneDue(zone, from, to, a, b) ==
  LET length == Smaller(to, b) - Larger(from, a)
  IN  IF length <= 0 THEN 0
      ELSE Limited(zone.min, zone.max,
                   IF zone.type = 2 THEN zone.rate
                   ELSE zone.rate * BlocksBegun(length, zone.ctb))

\* What is due for the part of [a, b) that lies in a day.
DayDue(c, day, a, b) ==
  LET row == c.gtariff[iVehicleType(c)]
      last == row[GetDayType(c, day - 1)]
      t == row[GetDayType(c, day)]
      midnight == day * DayLength
      n == MaxZone(t)
      Begin(k) == midnight + IF k = 0 THEN 0 ELSE t.zones[k].start
      End(k) == midnight + IF k = n THEN DayLength ELSE t.zones[k + 1].start
      Zone(k) == IF k = 0 THEN last.zones[MaxZone(last)] ELSE t.zones[k]
  IN  Limited(t.min, t.max,
              MapThenSumSet(LAMBDA k : ZoneDue(Zone(k), Begin(k), End(k), a, b),
                            0..n))

\* A stay of no time begins a block.
Due(c, time) ==
  LET b == Larger(time, c.entry + 1)
  IN  MapThenSumSet(LAMBDA day : DayDue(c, day, c.entry, b),
                    (c.entry \div DayLength)..((b - 1) \div DayLength))

\* Every tariff of the row is cut off at the end of its zones and days, has
\* zones without allowance, first hours or grace, and costs something.
Tariffs(c) == {c.gtariff[iVehicleType(c)][d] : d \in 1..8}

PlainTariffs(c) ==
  /\ c.types[0].start < c.entry /\ c.types[0].end > c.entry + MaxStay
  /\ ~c.garbage
  /\ c.giPEAllowance = 0 /\ c.giHr2PEAllowance = 0 /\ c.giMCyclePerDay = 0
  /\ \A t \in Tariffs(c) :
       /\ t # NoTariff /\ MaxZone(t) # 0 /\ ~Whole24(t)
       /\ t.zoneCut /\ t.dayCut
       /\ \A k \in 1..MaxZone(t) :
            /\ t.zones[k].type \in {1, 2} /\ t.zones[k].rate > 0
            /\ t.zones[k].type = 1 => t.zones[k].ctb > 0
            /\ t.zones[k].allowance = 0 /\ t.zones[k].grace = 0
            /\ t.zones[k].free[1] = 0 \/ c.giFirstHour = 0

\* Hazard: the loop of CalFeeRAM2GR moves pt over zones, days and 24-hour
\* blocks.  It charges a stay the blocks begun in each zone within the limits
\* of zones and days, nothing twice and nothing not at all.
FeeIsWhatTheTariffSays ==
  PlainTariffs(case) => Charge(case, Parked(case, case.entry, now)) = Due(case, now)

\* With days charged in blocks of 24 hours and days that are not, the blocks
\* of a stay are dropped or capped by the last day alone.
Whole24Alike(c) ==
  \A t, u \in Tariffs(c) \ {NoTariff} : Whole24(t) = Whole24(u)

\* A vehicle that waits at the exit never pays less for it, whatever grace,
\* first hours, allowances and limits its tariff has.  A fee below 0 is an
\* error code of the calculation.
LongerStayNotCheaper ==
  [][(/\ case.season = NoSeason /\ Whole24Alike(case)
      /\ PBSExit(case, now').fee >= 0)
     => PBSExit(case, now').paid >= PBSExit(case, now).paid]_vars

\* A whole-day season, valid, expired, stopped or read from the local copy,
\* never makes a stay dearer than none would.
SeasonCostsNoMore ==
  PlainTariffs(case) /\ case.season.rate_type = 0 =>
    PBSExit(case, now).paid
      <= PBSExit([case EXCEPT !.season = NoSeason], now).paid

\* "return(-2); //No Tariff defined for DayType" (db.cpp:6916), "time zone
\* wrong" (6877): a fee that could not be calculated is not a stay that costs
\* nothing, and lets nobody out for free.
ErrorIsNoFee ==
  PBSExit(case, now).fee < 0 => PBSExit(case, now).how # "free"
=============================================================================
