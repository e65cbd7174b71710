----------------------------- MODULE MCExitFee -----------------------------
(***************************************************************************)
(* Small calendars and tariffs: a day has four hours of two minutes.       *)
(***************************************************************************)
EXTENDS ExitFee

Hourly1(start, end) ==
  [start |-> start, end |-> end, type |-> 1, rate |-> 2, ctb |-> 2, min |-> 0,
   max |-> 0, grace |-> 0, free |-> <<0, 0, 0>>, add |-> <<0, 0, 0>>,
   allowance |-> 0]
Entry2(start, end) == [Hourly1(start, end) EXCEPT !.type = 2, !.rate = 3]

Day(zones) ==
  [zones |-> zones, zoneCut |-> TRUE, dayCut |-> TRUE, min |-> 0, max |-> 0]
AllDays(t) == [d \in 1..8 |-> t]

Whole == Hourly1(0, 0)
Late == [Hourly1(2, 2) EXCEPT !.rate = 1, !.ctb = 3]
DayZone == [Hourly1(2, 6) EXCEPT !.ctb = 3, !.max = 3]
NightZone == Entry2(6, 2)

PlainDays ==
  LET zones == {<<Whole>>, <<Late>>, <<[Whole EXCEPT !.ctb = 3, !.max = 5]>>,
                <<[Late EXCEPT !.min = 3]>>, <<DayZone, NightZone>>,
                <<DayZone, [NightZone EXCEPT !.end = 7],
                  [Late EXCEPT !.start = 7]>>}
  IN  {[Day(z) EXCEPT !.min = l[1], !.max = l[2]] :
         z \in zones, l \in {<<0, 0>>, <<3, 0>>, <<0, 5>>, <<2, 6>>}}

\* Uncut, with the concessions a tariff can have.
OddDays ==
  LET zones == {<<Whole>>, <<DayZone, NightZone>>,
                <<[Whole EXCEPT !.grace = 1, !.allowance = 1]>>,
                <<[Whole EXCEPT !.free = <<2, 1, 1>>, !.add = <<1, 1, 0>>]>>,
                <<[DayZone EXCEPT !.free = <<1, 2, 2>>, !.add = <<0, 1, 2>>,
                                  !.max = 0],
                  [NightZone EXCEPT !.allowance = 1]>>}
  IN  {[Day(z) EXCEPT !.zoneCut = cut, !.dayCut = cut2, !.max = max] :
         z \in zones, cut \in BOOLEAN, cut2 \in BOOLEAN, max \in {0, 5}}

Block24 == [Day(<<Whole>>) EXCEPT !.zoneCut = FALSE, !.min = 4, !.max = 4]

Plain(t) ==
  [entry |-> 8, iTransType |-> 0, loopType |-> 1,
   gtariff |-> [r \in {0, 2, 3, 40, 42, 43} |-> AllDays(t)],
   types |-> [i \in 0..1 |-> IF i = 0 THEN [start |-> 0, end |-> 99, type |-> 0]
                             ELSE [start |-> 99, end |-> 100, type |-> 1]],
   garbage |-> FALSE, weekday |-> 4, holidays |-> {}, giHasHolidayEve |-> 0,
   giFirstHour |-> 0, giFirstHourMode |-> 0, giPEAllowance |-> 0,
   giHr2PEAllowance |-> 0, giMCyclePerDay |-> 0, paid |-> FALSE,
   bNoEntryRecord |-> 0, season |-> NoSeason, copied |-> FALSE,
   central |-> TRUE, giSeasonCharge |-> 0, xtariff |-> NoRow, unset |-> NoRow]

Entries == 8..15

PlainCases ==
  {[Plain(t) EXCEPT !.entry = e] : t \in PlainDays, e \in Entries}

OddCases ==
  {[Plain(t) EXCEPT !.entry = e, !.giFirstHour = h[1], !.giFirstHourMode = h[2],
                    !.giPEAllowance = p[1], !.giHr2PEAllowance = p[2]] :
     t \in OddDays, e \in {9, 12, 15},
     h \in {<<0, 0>>, <<1, 1>>, <<2, 0>>, <<3, 0>>, <<3, 1>>},
     p \in {<<0, 0>>, <<2, 0>>, <<0, 3>>}}

\* The tariff depends on the day: day 1 is a 5, day 2 a holiday.
ByDay(t, u, v) == [d \in 1..8 |-> CASE d = 5 -> t [] d \in 7..8 -> u [] OTHER -> v]
Rows(row) == [r \in {0, 2, 3, 40, 42, 43} |-> row]

DayCases ==
  {[Plain(NoTariff) EXCEPT !.entry = e, !.holidays = {2}, !.giHasHolidayEve = h,
                           !.gtariff = Rows(ByDay(t, u, v))] :
     e \in {9, 12, 15}, h \in {0, 1},
     t \in {Day(<<Late>>), Day(<<DayZone, NightZone>>)},
     u \in {Day(<<Whole>>), [Day(<<Late>>) EXCEPT !.max = 3], NoTariff},
     v \in {Day(<<DayZone, NightZone>>), Day(<<[Whole EXCEPT !.ctb = 3]>>)}}

BlockCases ==
  {[Plain(NoTariff) EXCEPT !.entry = e, !.holidays = {2},
                           !.gtariff = Rows(ByDay(Block24, u, Block24))] :
     e \in {9, 12, 15}, u \in {Block24, Day(<<Late>>)}}

\* Two tariff types, the second from minute 14 on.
TypeCases ==
  {[Plain(NoTariff) EXCEPT
      !.entry = e, !.garbage = g,
      !.gtariff = [r \in {0, 2, 3, 40, 42, 43} |->
                     AllDays(IF r < 40 THEN t ELSE Day(<<Whole>>))],
      !.types = [i \in 0..1 |-> IF i = 0 THEN [start |-> 0, end |-> 14, type |-> 0]
                                ELSE [start |-> 14, end |-> end, type |-> 1]]] :
     e \in {9, 13, 14, 15}, g \in BOOLEAN, end \in {20, 99},
     t \in {Day(<<DayZone, NightZone>>), Day(<<[Late EXCEPT !.grace = 2]>>)}}

\* A season of each kind, starting and ending around the stay.
SeasonCases ==
  {[Plain(t) EXCEPT !.entry = 12, !.central = up, !.copied = copied,
                    !.giSeasonCharge = charge, !.bNoEntryRecord = record,
                    !.xtariff = [autocharge |-> record, fee |-> 3],
                    !.gtariff[3] = AllDays(Day(<<Late>>)),
                    !.season = [status |-> status, rate_type |-> rate,
                                date_from |-> d[1], date_to |-> d[2]]] :
     t \in {Day(<<DayZone, NightZone>>), Day(<<[Whole EXCEPT !.grace = 2]>>),
            [Day(<<Whole>>) EXCEPT !.zoneCut = FALSE, !.max = 5]},
     up \in BOOLEAN, copied \in BOOLEAN, charge \in {0, 1}, record \in {0, 1},
     status \in {1, 3, 9}, rate \in {0, 3},
     d \in {<<0, 50>>, <<0, 15>>, <<0, 10>>, <<14, 50>>}}

\* No record of the entry, with and without a fitting row of msxtariff.
NoRecordCases ==
  {[Plain(Day(<<DayZone, NightZone>>)) EXCEPT
      !.bNoEntryRecord = 1, !.xtariff = row, !.unset = left] :
     row \in {NoRow, [autocharge |-> 1, fee |-> 3], [autocharge |-> 0, fee |-> 3]},
     left \in {NoRow, [autocharge |-> 1, fee |-> 3]}}

\* Motorcycles, which pay a per-entry zone once a day.
MotorcycleCases ==
  {[Plain(Day(<<DayZone, NightZone>>)) EXCEPT
      !.entry = e, !.loopType = 7, !.giMCyclePerDay = m, !.paid = paid] :
     e \in {9, 13, 15}, m \in {0, 1}, paid \in BOOLEAN}

MCCases == MotorcycleCases \cup PlainCases \cup OddCases \cup DayCases \cup BlockCases
           \cup TypeCases \cup SeasonCases \cup NoRecordCases
=============================================================================
