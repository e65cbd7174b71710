-------------------------------- MODULE Fee --------------------------------
(***************************************************************************)
(* The parking fee of a stay: db::CalFeeRAM2G and db::CalFeeRAM2GR.        *)
(* Times are whole minutes from midnight of day 0: the code compares       *)
(* clock minutes, after a stay with an odd second has been rounded up.     *)
(* The operators are recursive, so this module is for TLC only.            *)
(*                                                                         *)
(* A case c holds what the calculation reads: the entry time, the loaded   *)
(* tariffs, the calendar and the parameters.                               *)
(*   entry, iTransType     the stay's start and its rate type              *)
(*   gtariff[iTransType + 40 * type][dayType]   NoTariff or a tariff       *)
(*   types[0..1]           gtarifftypeinfo: start, end and type            *)
(*   garbage               the flag of the second tariff type, unset       *)
(*   weekday, holidays     the weekday of day 0, the days in msholiday     *)
(*   giHasHolidayEve, giFirstHour, giFirstHourMode, giPEAllowance,         *)
(*   giHr2PEAllowance, giMCyclePerDay       tParas                         *)
(*   paid                  it has paid within the zone's period            *)
(* A tariff has zones, zone_cutoff, day_cutoff, whole_day_min and _max; a  *)
(* zone has start, end, type (1 hourly, 2 per entry), rate, ctb (charge    *)
(* time block), min, max, grace, free and add (three each) and allowance.  *)
(***************************************************************************)
EXTENDS Integers, Sequences, FiniteSets

CONSTANTS
  HourLength,   \* minutes of an hour
  DayHours      \* hours of a day

ASSUME ClockAssumption == HourLength \in Nat \ {0} /\ DayHours \in Nat \ {0}

DayLength == HourLength * DayHours
diffhour(from, to) == (to \div HourLength) - (from \div HourLength)
diffday(from, to) == (to \div DayLength) - (from \div DayLength)

Larger(a, b) == IF a > b THEN a ELSE b
Smaller(a, b) == IF a < b THEN a ELSE b

\* A limit of 0 is no limit.
Limited(min, max, fee) ==
  LET raised == IF min > 0 THEN Larger(min, fee) ELSE fee
  IN  IF max > 0 THEN Smaller(max, raised) ELSE raised

-----------------------------------------------------------------------------
(* The calendar.                                                           *)

Weekday(c, day) == ((c.weekday - 1 + day + 7) % 7) + 1

\* A holiday is day type 7, the eve of one is 8 unless it is a 6 or a 7.
GetDayTypeWithHE(c, day) ==
  CASE day \in c.holidays -> 7
    [] day + 1 \in c.holidays /\ Weekday(c, day) \notin {6, 7} -> 8
    [] OTHER -> Weekday(c, day)

GetDayTypeNoPE(c, day) ==
  IF day \in c.holidays THEN 8 ELSE Weekday(c, day)

GetDayType(c, day) ==
  IF c.giHasHolidayEve = 1 THEN GetDayTypeWithHE(c, day)
  ELSE GetDayTypeNoPE(c, day)

-----------------------------------------------------------------------------
(* The zones of a day.                                                     *)

NoTariff == [zones |-> << >>]

Closes(t, k) == t.zones[k].end = t.zones[1].start
\* The first zone that ends where the first one starts closes the day.
MaxZone(t) ==
  LET closing == {k \in DOMAIN t.zones : Closes(t, k)}
  IN  IF closing = {} THEN 0
      ELSE CHOOSE k \in closing : \A j \in closing : k <= j

DayError(last, today, next) ==
  CASE last = NoTariff -> -2
    [] MaxZone(last) = 0 -> -4
    [] today = NoTariff -> -2
    [] MaxZone(today) = 0 -> -4
    [] next = NoTariff -> -2
    [] OTHER -> 0

At(zone, time) == [zone |-> zone, at |-> time]

\* Zone 0 is the last of the day before, zone MaxZone + 1 the first of the
\* day after, which begins at midnight if the day is cut off.
DayZones(last, today, next, pd) ==
  LET n == MaxZone(today)
      eve == last.zones[MaxZone(last)]
      after == next.zones[1]
  IN  [k \in 0..(n + 1) |->
         CASE k = 0 -> At(eve, pd - DayLength + eve.start)
           [] k = n + 1 ->
                At(after, pd + DayLength
                          + IF today.dayCut THEN 0 ELSE after.start)
           [] OTHER -> At(today.zones[k], pd + today.zones[k].start)]

Whole24(t) == t.min = t.max /\ t.min > 0

\* The zone pt is in: the one before the first that starts after pt.
ZoneOf(zones, pt) ==
  (CHOOSE k \in DOMAIN zones \ {0} :
     /\ zones[k].at > pt
     /\ \A j \in DOMAIN zones \ {0} : zones[j].at > pt => k <= j) - 1

-----------------------------------------------------------------------------
(* The state of the loop.  pd is midnight of the day worked on, pt how far *)
(* the stay is charged; charge, dayFee and zoneFee are what has been       *)
(* charged for whole days, for this day and for this zone.                 *)

NoLimits == [type |-> 0, min |-> 0, max |-> 0]

Start(c) ==
  [pt |-> c.entry, pd |-> (c.entry \div DayLength) * DayLength,
   charge |-> 0, dayFee |-> 0, zoneFee |-> 0, zone |-> NoLimits,
   freed |-> FALSE, noGT |-> FALSE, checked |-> FALSE, whole24 |-> FALSE,
   fee24 |-> 0, charges24 |-> 0, over |-> FALSE]

\* iAllowance: a few minutes over what is paid for cost nothing.
WithinAllowance(s, now) ==
  /\ s.zone.allowance > 0
  /\ s.charge > 0 \/ s.dayFee > 0
  /\ now - s.pt <= s.zone.allowance

-----------------------------------------------------------------------------
(* Hourly zones.  The first hours have charges of their own: stage n moves *)
(* pt by free[n], or to the end of the zone when that is nearer and zones  *)
(* are cut off, and adds add[n].  over: the stay ends within the stage.    *)

RECURSIVE FirstHours(_, _, _, _, _, _)
FirstHours(c, cut, end, now, n, s) ==
  LET short == end.at - s.pt <= s.zone.free[n]
      pt == IF short /\ cut THEN end.at ELSE s.pt + s.zone.free[n]
      r == [s EXCEPT !.pt = pt, !.zoneFee = @ + s.zone.add[n]]
  IN  CASE now <= pt ->
             [r EXCEPT !.dayFee = @ + r.zoneFee, !.over = TRUE]
        [] /\ now > pt
           /\ c.giFirstHour > n /\ n < 3
           /\ short => ~cut /\ end.zone.type # 2 ->
             FirstHours(c, cut, end, now, n + 1, r)
        [] OTHER ->
             [r EXCEPT !.freed = @ \/ (c.giFirstHourMode = 1
                                       /\ (short \/ n = 3))]

TakesFirstHours(c, s) ==
  /\ s.zone.free[1] > 0 /\ c.giFirstHour > 0
  /\ c.giFirstHourMode = 0 \/ (s.dayFee = 0 /\ s.charge = 0)
  /\ ~s.freed

\* Block after block, until the zone, the stay or the zone's maximum ends.
RECURSIVE Blocks(_, _, _)
Blocks(end, now, s) ==
  LET paid == /\ s.zone.allowance > 0
              /\ s.charge > 0 \/ s.dayFee > 0 \/ s.zoneFee > 0
              /\ now - s.pt <= s.zone.allowance
      fee == IF paid THEN s.zoneFee ELSE s.zoneFee + s.zone.rate
      r == [s EXCEPT !.zoneFee = fee, !.pt = @ + s.zone.ctb]
  IN  CASE end <= s.pt -> s
        [] end > s.pt /\ s.zone.max > 0 /\ fee >= s.zone.max ->
             [s EXCEPT !.zoneFee = fee, !.pt = end]
        [] OTHER -> IF now <= r.pt THEN r ELSE Blocks(end, now, r)

\* Mutation: what is paid for beyond the zone counts in the next one.
NeverCut(c, cut, end, now, s) == s

\* With zone_cutoff what is paid for beyond the zone is lost.
CutOff(c, cut, end, now, s) ==
  IF /\ cut /\ end.at < s.pt
     /\ c.giHr2PEAllowance > 0 /\ end.zone.type = 2
          => now - c.entry > c.giHr2PEAllowance
  THEN [s EXCEPT !.pt = end.at] ELSE s

Hourly(c, cut, end, now, s) ==
  IF WithinAllowance(s, now) THEN [s EXCEPT !.over = TRUE]
  ELSE LET first == IF TakesFirstHours(c, s)
                    THEN FirstHours(c, cut, end, now, 1, s) ELSE s
       IN  IF first.over THEN first
           ELSE CutOff(c, cut, end, now, Blocks(end.at, now, first))

-----------------------------------------------------------------------------
(* Per-entry zones: one rate for the zone.  giPEAllowance carries a        *)
(* vehicle that came late in the zone past its end.                        *)

\* A motorcycle is asked once whether it has paid in the zone's period.
MCyclePerDay(c) == c.giMCyclePerDay > 0 /\ c.iTransType = 2
HasPaidWithinPeriod(c) == c.paid

PerEntry(c, end, now, s) ==
  LET free == /\ MCyclePerDay(c) /\ ~s.checked /\ s.zone.rate > 0
              /\ HasPaidWithinPeriod(c)
      rate == IF free \/ WithinAllowance(s, now) THEN 0 ELSE s.zone.rate
      late == c.giPEAllowance > 0 /\ end.at - s.pt < c.giPEAllowance
  IN  [s EXCEPT !.zoneFee = rate,
                !.checked = @ \/ MCyclePerDay(c),
                !.pt = IF late THEN @ + c.giPEAllowance ELSE end.at]

-----------------------------------------------------------------------------
(* One round of the loop, and the loop.                                    *)

\* A day tariff: a day of 24 hours is charged as a whole, and pt moves on.
WholeDay(s) ==
  [s EXCEPT !.charges24 = @ + s.fee24, !.pt = @ + DayLength,
            !.zone.type = 0, !.noGT = TRUE]

ZoneError(zone) ==
  zone.type \notin {1, 2} \/ (zone.type = 1 /\ zone.ctb = 0)

Charged(c, cut, end, now, s) ==
  IF s.zone.type = 1 THEN Hourly(c, cut, end, now, s)
  ELSE PerEntry(c, end, now, s)

DayFee(t, fee) == IF Whole24(t) THEN fee ELSE Limited(t.min, t.max, fee)


\* The end of a round: the zone's limits, and when pt is past the day its
\* limits and the next day.
Settle(t, s) ==
  LET fee == s.dayFee + Limited(s.zone.min, s.zone.max, s.zoneFee)
  IN  IF diffday(s.pd, s.pt) > 0
      THEN [s EXCEPT !.charge = @ + DayFee(t, fee), !.dayFee = 0,
                     !.pd = @ + DayLength]
      ELSE [s EXCEPT !.dayFee = fee]

\* Mutation: the rest of a stay is not limited to a block's fee.
UncappedRest(t, s) == s.charge + s.dayFee + s.charges24

\* After the loop; t is the tariff of the last day loaded.
Total(t, s) ==
  LET charge == s.charge + IF s.dayFee > 0 THEN DayFee(t, s.dayFee) ELSE 0
  IN  IF s.whole24 THEN s.charges24 + Smaller(charge, s.fee24) ELSE charge

RECURSIVE Loop(_, _, _)
Loop(c, now, s) ==
  LET day == s.pd \div DayLength
      row == c.gtariff[c.iTransType]
      last == row[GetDayType(c, day - 1)]
      t == row[GetDayType(c, day)]
      next == row[GetDayType(c, day + 1)]
      error == DayError(last, t, next)
      zones == DayZones(last, t, next, s.pd)
      l == [s EXCEPT !.whole24 = Whole24(t),
                     !.fee24 = IF Whole24(t) THEN t.min ELSE @,
                     !.zoneFee = 0]
      k == ZoneOf(zones, s.pt)
      z == [l EXCEPT !.zone = zones[k].zone, !.noGT = TRUE]
      Then(r) ==
        LET r2 == Settle(t, r)
        IN  IF r.over THEN Total(t, r)
            ELSE IF now <= r2.pt \/ diffday(r2.pd, now) < 0 THEN Total(t, r2)
            ELSE Loop(c, now, r2)
  IN  CASE error # 0 -> error
        [] error = 0 /\ l.whole24 /\ diffhour(s.pt, now) \div DayHours > 0 ->
             Then(WholeDay(l))
        [] OTHER ->
             CASE zones[k].zone.type \notin {1, 2} -> -3
               [] /\ ~s.noGT
                  /\ zones[k].zone.grace > 0
                  /\ now - s.pt <= zones[k].zone.grace -> 0
               [] ZoneError(zones[k].zone) -> -3
               [] OTHER -> Then(Charged(c, t.zoneCut, zones[k + 1], now, z))

CalFeeRAM2GR(c, from, now, iTransType, bNoGT) ==
  LET k == [c EXCEPT !.entry = from, !.iTransType = iTransType]
  IN  IF now < from THEN 0
      ELSE Loop(k, now, [Start(k) EXCEPT !.noGT = bNoGT])

-----------------------------------------------------------------------------
(* Two tariff types may follow one another.  A stay that ends in the type  *)
(* it began in uses that type and leaves the flag of the second unset; one *)
(* that began in the first type and outlasted it looks at the second type  *)
(* anew, and the flag set for it is forgotten.                             *)

Within(c, from, now, i) == from > c.types[i].start /\ c.types[i].end > now
Outlasts(c, from, now, i) ==
  from > c.types[i].start /\ c.types[i].end <= now /\ from < c.types[i].end

CalFeeRAM2G(c, from, now, iTransType) ==
  LET in(i) == Within(c, from, now, i)
      first == in(0) \/ Outlasts(c, from, now, 0)
      second == IF in(0) THEN c.garbage ELSE in(1)
      Fee(a, b, i, bNoGT) ==
        CalFeeRAM2GR(c, a, b, iTransType + 40 * c.types[i].type, bNoGT)
  IN  CASE ~in(0) /\ Outlasts(c, from, now, 1) -> -4
        [] first /\ second ->
             IF now - from <= c.gtariff[iTransType][1].zones[1].grace THEN 0
             ELSE Fee(from, c.types[0].end, 0, TRUE)
                  + Fee(c.types[1].start, now, 1, TRUE)
        [] OTHER -> Fee(from, now, IF first THEN 0 ELSE 1, FALSE)
=============================================================================
