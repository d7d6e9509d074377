--------------------------------- MODULE Rtc ---------------------------------
(***************************************************************************)
(* devrtc.c: the real-time clock.  rtctime reads two registers in binary    *)
(* coded decimal and converts them to seconds since 1970; rtcwrite converts *)
(* seconds and writes them.  There is no lock, and the clock runs: it may   *)
(* tick, and another process write, between the two accesses of either.     *)
(* A number of seconds is a pair of days and seconds of the day.            *)
(***************************************************************************)
EXTENDS Integers, Sequences

CONSTANTS
  Times,     \* times a process may write, as <<days, seconds>>
  MaxTicks,  \* ticks of the clock (bound)
  MaxWrites  \* writes (bound)

ASSUME RtcAssumption ==
  Times \subseteq Nat \X Nat /\ (\A t \in Times : t[2] < 86400) /\ MaxTicks \in Nat
ASSUME WritesAssumption == MaxWrites \in Nat

VARIABLES
  rtc,       \* the clock's registers: time and date
  rd,        \* a reader: its pc, t, d and the result of rtctime
  wr,        \* a writer: its pc and the Rtc it writes
  rtcAt,     \* history: the registers when the reader read time
  torn,      \* history: a date was written, or the day changed, since then
  ticks, writes

rtcVars == <<rtc, rd, wr, rtcAt, torn, ticks, writes>>

-----------------------------------------------------------------------------
(* Conversions                                                             *)

RTCHour12(t) == (t \div 2^22) % 2 = 1
RTCHourPM(t) == (t \div 2^21) % 2 = 1

\* v & (BITS(x, y) - 1), BITS being 1s from bit x to y: the bits of v up to y, but for x.
Masked(v, x, y) == (v % 2^(y + 1)) - ((v \div 2^x) % 2) * 2^x

bcd2dec(x) == ((x \div 16) % 16) * 10 + (x % 16)
dec2bcd(x) == (x \div 10) * 16 + (x % 10)

dmsize == <<31, 28, 31, 30, 31, 30, 31, 31, 30, 31, 30, 31>>
ldmsize == <<31, 29, 31, 30, 31, 30, 31, 31, 30, 31, 30, 31>>

\* Mutant: no leap years at the turn of a century.
yrsize_century(y) == IF y % 4 = 0 /\ y % 100 # 0 THEN ldmsize ELSE dmsize

yrsize(y) == IF y % 4 = 0 THEN ldmsize ELSE dmsize
yrdays(y) == IF yrsize(y) = ldmsize THEN 366 ELSE 365

\* rtctime: the fields of the two registers.  The masks are those of the code:
\* they keep all bits below the top one but bit 0 of sec and of mday.
Fields(t, d) ==
  [sec  |-> bcd2dec(Masked(t, 0, 6)),
   min  |-> bcd2dec(Masked(t \div 2^8, 8, 14)),
   hour |-> IF RTCHour12(t)
            THEN bcd2dec(Masked(t \div 2^16, 16, 20)) + (IF RTCHourPM(t) THEN 12 ELSE 0)
            ELSE bcd2dec(Masked(t \div 2^16, 16, 21)),
   mday |-> bcd2dec(Masked(d, 0, 5)),
   mon  |-> bcd2dec(Masked(d \div 2^8, 8, 12)),
   year |-> bcd2dec(Masked(d \div 2^16, 16, 23)) + 2000]

\* The loops of rtc2sec: the days before a year, and before a month of it.
YearStart[y \in Nat] == IF y <= 1970 THEN 0 ELSE YearStart[y - 1] + yrdays(y - 1)
MonthStart(y, m) ==
  LET start[i \in 0 .. 13] == IF i <= 1 THEN 0 ELSE start[i - 1] + yrsize(y)[i - 1]
  IN start[m]

rtc2sec(f) ==
  <<YearStart[f.year] + MonthStart(f.year, f.mon) + f.mday - 1,
    f.hour * 3600 + f.min * 60 + f.sec>>

\* The loops of sec2rtc take off whole years and then whole months, until the day
\* is before the end of one.
YearOf(day) ==
  CHOOSE y \in 1970 .. 1970 + day \div 365 : YearStart[y] <= day /\ day < YearStart[y + 1]
MonthOf(y, day) ==
  CHOOSE m \in 1 .. 12 : MonthStart(y, m) <= day /\ day < MonthStart(y, m + 1)

\* Mutant: the day of the month is counted from 0.
sec2rtc_day(secs) ==
  LET year == YearOf(secs[1])
      day  == secs[1] - YearStart[year]
      mon  == MonthOf(year, day)
  IN [sec |-> secs[2] % 60, min |-> (secs[2] \div 60) % 60, hour |-> secs[2] \div 3600,
      mday |-> day - MonthStart(year, mon), mon |-> mon, year |-> year]

sec2rtc(secs) ==
  LET year == YearOf(secs[1])
      day  == secs[1] - YearStart[year]
      mon  == MonthOf(year, day)
  IN [sec |-> secs[2] % 60, min |-> (secs[2] \div 60) % 60, hour |-> secs[2] \div 3600,
      mday |-> day - MonthStart(year, mon) + 1, mon |-> mon, year |-> year]

\* setrtc: the values written to the two registers.
TimeReg(f) == dec2bcd(f.hour \div 10) * 2^20 + dec2bcd(f.hour % 10) * 2^16
              + dec2bcd(f.min) * 2^8 + dec2bcd(f.sec)
DateReg(f) == dec2bcd(f.year - 2000) * 2^16 + dec2bcd(f.mon) * 2^8 + dec2bcd(f.mday)

-----------------------------------------------------------------------------
(* The clock: it counts from what its registers say, in 24-hour mode, and  *)
(* with two digits of the year.                                             *)

\* What the registers mean.
Shown(r) ==
  [sec  |-> bcd2dec(r.time % 2^7), min |-> bcd2dec((r.time \div 2^8) % 2^7),
   hour |-> bcd2dec((r.time \div 2^16) % 2^6), mday |-> bcd2dec(r.date % 2^6),
   mon  |-> bcd2dec((r.date \div 2^8) % 2^5), year |-> 2000 + bcd2dec((r.date \div 2^16) % 2^8)]

\* Days since 1970 up to the first of the month, for the years 2000 to 2099.
Before == <<0, 31, 59, 90, 120, 151, 181, 212, 243, 273, 304, 334>>
DayNumber(y, m, d) ==
  365 * (y - 1970) + ((y - 1969) \div 4) + Before[m]
    + (IF y % 4 = 0 /\ m > 2 THEN 1 ELSE 0) + d - 1

\* The time the registers show, counted in days and seconds.
Now(r) ==
  LET f == Shown(r) IN
  <<DayNumber(f.year, f.mon, f.mday), f.hour * 3600 + f.min * 60 + f.sec>>

MonthLen(y, m) ==
  (IF m = 12 THEN 31 ELSE Before[m + 1] - Before[m]) + (IF y % 4 = 0 /\ m = 2 THEN 1 ELSE 0)

NextDay(f) ==
  IF f.mday < MonthLen(f.year, f.mon) THEN [f EXCEPT !.mday = @ + 1]
  ELSE IF f.mon < 12 THEN [f EXCEPT !.mday = 1, !.mon = @ + 1]
  ELSE [f EXCEPT !.mday = 1, !.mon = 1, !.year = IF @ = 2099 THEN 2000 ELSE @ + 1]

NextSecond(f) ==
  LET s == (f.hour * 3600 + f.min * 60 + f.sec + 1) % 86400
      g == [f EXCEPT !.hour = s \div 3600, !.min = (s \div 60) % 60, !.sec = s % 60]
  IN IF s = 0 THEN NextDay(g) ELSE g

Registers(f) == [time |-> TimeReg(f), date |-> DateReg(f)]

Idle == [pc |-> "idle"]

RtcInit ==
  /\ rtc \in {Registers(sec2rtc(t)) : t \in Times}
  /\ rd = Idle /\ wr = Idle
  /\ rtcAt = rtc /\ torn = FALSE
  /\ ticks = 0 /\ writes = 0

Tick ==
  /\ ticks < MaxTicks
  /\ ticks' = ticks + 1
  /\ rtc' = Registers(NextSecond(Shown(rtc)))
  /\ torn' = (torn \/ rtc'.date # rtc.date)
  /\ UNCHANGED <<rd, wr, rtcAt, writes>>

-----------------------------------------------------------------------------
(* rtcread and rtcwrite                                                    *)

ReadTime ==
  /\ rd.pc = "idle"
  /\ rd' = [pc |-> "date", t |-> rtc.time]
  /\ rtcAt' = rtc /\ torn' = FALSE
  /\ UNCHANGED <<rtc, wr, ticks, writes>>

ReadDate ==
  /\ rd.pc = "date"
  /\ rd' = [pc |-> "done", t |-> rtc2sec(Fields(rd.t, rtc.date))]
  /\ UNCHANGED <<rtc, wr, rtcAt, torn, ticks, writes>>

ReadEnd ==
  /\ rd.pc = "done"
  /\ rd' = Idle
  /\ rtcAt' = rtc /\ torn' = FALSE
  /\ UNCHANGED <<rtc, wr, ticks, writes>>

WriteTime ==
  /\ wr.pc = "idle" /\ writes < MaxWrites
  /\ writes' = writes + 1
  /\ \E secs \in Times :
       /\ wr' = [pc |-> "date", secs |-> secs, f |-> sec2rtc(secs)]
       /\ rtc' = [rtc EXCEPT !.time = TimeReg(sec2rtc(secs))]
  /\ torn' = TRUE
  /\ UNCHANGED <<rd, rtcAt, ticks>>

WriteDate ==
  /\ wr.pc = "date"
  /\ rtc' = [rtc EXCEPT !.date = DateReg(wr.f)]
  /\ wr' = Idle
  /\ torn' = TRUE
  /\ UNCHANGED <<rd, rtcAt, ticks, writes>>

RtcNext == Tick \/ ReadTime \/ ReadDate \/ ReadEnd \/ WriteTime \/ WriteDate

-----------------------------------------------------------------------------
(* Properties                                                              *)

\* What a read returns is the time the clock showed when the read began, but for
\* the lowest bit of the second and of the day of the month, which rtctime drops:
\* a second, and a day, too early when they are odd.  It holds unless the day
\* changed or a time was written during the read.
ReadShown ==
  rd.pc = "done" /\ ~torn =>
    LET n == Now(rtcAt)
        f == Shown(rtcAt)
    IN rd.t = <<n[1] - (f.mday % 2), n[2] - (f.sec % 2)>>

\* A time that is written is the time the clock shows then, unless it ticked or
\* was written by another between the two registers.
WriteShown ==
  [][WriteDate /\ rtc.time = TimeReg(wr.f) => Now(rtc') = wr.secs]_rtcVars

=============================================================================
