----------------------------- MODULE DateCases -----------------------------
(* What datefuzz asks of os.date, os.time and os.difftime, and the          *)
(* oracle-free invariants its driver prints, under a correct C library.  An *)
(* instant is <<cycle, day, second>> since the epoch - the calendar repeats *)
(* after 146097 days - as the seconds do not fit an integer of TLC.         *)
(* Formats are the strings they are.                                        *)
EXTENDS Integers, Sequences, SequencesExt

Instant(cycle, day, s) ==
  LET d == day + (s \div 86400) IN <<cycle + (d \div 146097), d % 146097, s % 86400>>
Sec(s) == Instant(0, 0, s)
Epoch == Sec(0)
FarPast   == <<-5368710, 102998, 0>>      \* -67768040609740800
FarFuture == <<5368708, 138061, 0>>       \* 67768036191676800
Huge == {<<365346280, 114490, 27904>>, <<-365346281, 31606, 58496>>}  \* 1 << 62, -(1 << 62)
TS_BOUNDARIES ==
  {Sec(s) : s \in {0, 1, -1, -86400, 60, 3600, 86400, 86399, 951782400, 951868799, 1709164800,
                   1709251199, 1582934400, 1583020800, 978307199, 978307200, 1234567890, 1710046799,
                   1710046800, 1710046801, 1730613599, 1730613600, 1730613601, 2147483647}}
  \union {Instant(0, 24855, 11648), Instant(0, -24856, 74752), Instant(0, -24856, 74751),
          Instant(0, 376200, 0), Instant(0, -719161, 0), Instant(0, 2932896, 86399)}
  \union {FarFuture, FarPast}
rand_timestamp == TS_BOUNDARIES \union Huge
                  \union {Instant(0, -12345, 6789), Instant(0, 43210, 9876), Instant(0, -999999, 1)}

FIELD_BOUNDARIES ==
  [year |-> {1970, 2000, 2024, 1969, 1900, 2038, 2100, 1, 9999}, month |-> {1, 12, 6, 0, 13, -1, 24, 25},
   day |-> {1, 31, 28, 29, 0, 32, -1, 60}, hour |-> {0, 12, 23, 24, -1, 25, 48},
   min |-> {0, 30, 59, 60, -1, 90}, sec |-> {0, 30, 59, 60, 61, -1, 3600}]
Fields == DOMAIN FIELD_BOUNDARIES
Table(y, mo, d, h, mi, s) == [year |-> y, month |-> mo, day |-> d, hour |-> h, min |-> mi, sec |-> s]
Gap == Table(2024, 3, 10, 2, 30, 0)
Ambiguous == Table(2024, 11, 3, 1, 30, 0)
BASE_TABLES ==
  {Table(1970, 1, 1, 0, 0, 0), Table(2000, 2, 29, 12, 0, 0), Table(2024, 2, 29, 23, 59, 59), Gap,
   Ambiguous, Table(2038, 1, 19, 3, 14, 7), Table(1999, 12, 31, 23, 59, 59)}
ISDST_CHOICES == {{}, {TRUE}, {FALSE}}
(* A random field is one of its boundaries, or in a range that holds most.  *)
rand_table == {[base EXCEPT !.month = m, !.day = d, !.hour = h] : base \in BASE_TABLES,
                 m \in FIELD_BOUNDARIES.month, d \in {0, 32, 70}, h \in {-3, 48}}
-----------------------------------------------------------------------------
(* The tiers.                                                               *)
PRIMITIVE == {"a", "A", "b", "B", "c", "C", "d", "e", "g", "G", "H", "I", "j", "m", "M", "n", "p",
              "S", "t", "u", "U", "V", "w", "W", "x", "X", "y", "Y", "z", "Z", "%"}
ALL_DIRECTIVES == PRIMITIVE \union {"D", "F", "r", "R", "T"}
PAIRS == {"Ec", "EC", "Ex", "EX", "Ey", "EY"}
         \union {"Od", "Oe", "OH", "OI", "Om", "OM", "OS", "Ou", "OU", "OV", "Ow", "OW", "Oy"}
ILLEGAL_DIRECTIVES == {"Q", "K", "L", "P", "1", "-", "k", "EA", "Oa", "EZ", "Ej", "E", "O"}
TZ_PREFIX == {"", "!"}
REAL_FORMATS ==
  {"%Y-%m-%d %H:%M:%S", "%a %b %e %H:%M:%S %Y", "%c", "%x %X", "%A, %d %B %Y", "%I:%M:%S %p",
   "%j (day of year)", "%G-W%V-%u", "%U %W %V", "%F %T %z %Z", "%D", "%r", "%R", "[%%] %p%% literal",
   "%Y%m%d%H%M%S", "week %U day %w / %u", "%C%y", "%n%t<-newline tab", "%e/%b/%g", "%a=%A %b=%B"}
Percent(ds) == {"%" \o d : d \in ds}

Date(fmt, ts) == [op |-> "date", fmt |-> fmt, ts |-> ts]
DateTab(fmt, ts) == [op |-> "datetab", fmt |-> fmt, ts |-> ts]
Time(tbl, isdst) == [op |-> "time", tbl |-> tbl, isdst |-> isdst]
Difftime(a, b) == [op |-> "difftime", a |-> a, b |-> b]
_date_cases(fmts, tss) == {Date(pre \o fmt, ts) : pre \in TZ_PREFIX, fmt \in fmts, ts \in tss}

tier0 == _date_cases(Percent(ALL_DIRECTIVES \union PAIRS), TS_BOUNDARIES)
         \union {DateTab(mode, ts) : mode \in {"*t", "!*t"}, ts \in TS_BOUNDARIES}
tier1 == _date_cases(REAL_FORMATS, TS_BOUNDARIES)
Perturbed(base) == UNION {{[base EXCEPT ![f] = v] : v \in FIELD_BOUNDARIES[f]} : f \in Fields}
tier2 ==
  {Time(base, dst) : base \in BASE_TABLES, dst \in ISDST_CHOICES}
  \union {Time(t, {}) : t \in UNION {Perturbed(base) : base \in BASE_TABLES}}
  \union LET diff_ts == {Sec(s) : s \in {0, 1, -1, 86400, -86400, 2147483647, 1234567890}}
                        \union {Instant(0, -24856, 74752)}
         IN {Difftime(a, b) : a, b \in diff_ts}

_rand_format == LET part == Percent(ALL_DIRECTIVES \union ILLEGAL_DIRECTIVES \union {"Ey", "Oy"}) \union {"x"}
                IN {pre \o p \o q : pre \in TZ_PREFIX, p \in part, q \in {"", "-", "%Y", "%E"}}
tier3 == {Date(fmt, Sec(1)) : fmt \in _rand_format}
         \union {Time(t, dst) : t \in rand_table, dst \in ISDST_CHOICES}
         \union {DateTab(mode, ts) : mode \in {"*t", "!*t"}, ts \in rand_timestamp}
         \union {Difftime(a, b) : a, b \in rand_timestamp}

bad_fmts == Percent(ILLEGAL_DIRECTIVES)
            \union {"%", "abc%", "%%%", "%Y%Q", "100%", "%E", "%O", "% ", "%\t"}
Only(t, present) == [f \in present |-> t[f]]
missing == {Only(Table(2024, 6, 1, 0, 0, 0), fs) :
              fs \in {{}, {"year"}, {"year", "month"}, {"month", "day"}, {"year", "day", "hour"},
                      {"year", "month", "day"}, Fields}}
tier_illegal ==
  _date_cases(bad_fmts \union {""}, {Sec(0), Sec(1234567890), Sec(-1)})
  \union UNION {{Date("%Y", ts), Date("!%Y", ts), DateTab("!*t", ts)} : ts \in {FarFuture, FarPast} \union Huge}
  \union {Time(t, {}) : t \in missing}
-----------------------------------------------------------------------------
(* The C library.  The formats os.date takes are those of C99.              *)
At(s, i) == IF i <= Len(s) THEN SubSeq(s, i, i) ELSE ""
Options == PRIMITIVE \union {"D", "F", "h", "r", "R", "T"}
Accepts(fmt) ==
  LET from[i \in 1 .. Len(fmt) + 3] ==
        IF i > Len(fmt) THEN i = Len(fmt) + 1
        ELSE IF At(fmt, i) # "%" THEN from[i + 1]
        ELSE IF At(fmt, i + 1) \in Options THEN from[i + 2]
        ELSE At(fmt, i + 1) \o At(fmt, i + 2) \in PAIRS /\ from[i + 3]
  IN from[IF At(fmt, 1) = "!" THEN 2 ELSE 1]

(* The Gregorian calendar: the day of a date whose month may be any, and    *)
(* the table of an instant.  A year is a cycle and a year of the first one, *)
(* 1970 .. 2369, and os.date fails when it does not fit the int of tm_year. *)
DayOf(year, month, day) ==
  LET m0 == (month - 1) % 12
      y == year + ((month - 1) \div 12) - (IF m0 < 2 THEN 1 ELSE 0)
      ofyear == (153 * ((m0 + 10) % 12) + 2) \div 5 + day - 1
  IN 365 * y + (y \div 4) - (y \div 100) + (y \div 400) + ofyear - 719468
timegm(t) == Instant(t.year \div 400, DayOf(t.year % 400, t.month, t.day), 3600 * t.hour + 60 * t.min + t.sec)
YearOf(ts) == CHOOSE y \in 1970 .. 2369 : DayOf(y, 1, 1) <= ts[2] /\ ts[2] < DayOf(y + 1, 1, 1)
Before(a, b) == \E k \in DOMAIN a : a[k] < b[k] /\ \A j \in 1 .. k - 1 : a[j] = b[j]
LeastYear == <<-5368710, 2252>>           \* 1900 + the least int
GreatestYear == <<5368708, 2347>>         \* 1900 + the greatest
Representable(ts) == LET year == <<ts[1], YearOf(ts)>>
                     IN ~Before(year, LeastYear) /\ ~Before(GreatestYear, year)
gmtime(ts) ==
  LET y == YearOf(ts)
      month == CHOOSE m \in 1 .. 12 : DayOf(y, m, 1) <= ts[2] /\ ts[2] < DayOf(y, m + 1, 1)
  IN Table(400 * (ts[1] + 1) + (y - 400), month, ts[2] - DayOf(y, month, 1) + 1,
           ts[3] \div 3600, (ts[3] \div 60) % 60, ts[3] % 60)

(* The zones: their offset in hours, New York's for 2024 only.              *)
TZS == {"UTC", "America/New_York"}
OffsetAt(tz, ts) ==
  IF tz = "UTC" THEN 0
  ELSE IF ~Before(ts, Sec(1710054000)) /\ Before(ts, Sec(1730613600)) THEN -4 ELSE -5
Shifted(ts, hours) == Instant(ts[1], ts[2], ts[3] + 3600 * hours)
Instants(tz, t) == {ts \in {Shifted(timegm(t), h) : h \in {0, 4, 5}} : Shifted(ts, OffsetAt(tz, ts)) = timegm(t)}

(* os.time of a table that names one instant; mktime answers -1 when it     *)
(* fails, so os.time raises an error for the second before the epoch too.   *)
NoTime == Sec(-1)
os_time(tz, t) == LET ts == CHOOSE u \in Instants(tz, t) : TRUE
                  IN IF ts = NoTime THEN "time_err" ELSE ts
difftime(a, b) == Instant(a[1] - b[1], a[2] - b[2], a[3] - b[3])

(* Mutant: the driver does not ask for the zone.                            *)
TZ_IS_ANY(tz) == TRUE

(* The lines the driver prints besides the results: the name of an          *)
(* invariant and what it says.  os.time reads a table as local time.        *)
TZ_IS_UTC(tz) == OffsetAt(tz, Epoch) = 0
Says(holds) == IF holds THEN "true" ELSE "false"
InvLines(c, tz) ==
  CASE c.op = "datetab" /\ c.fmt = "!*t" /\ Representable(c.ts) /\ TZ_IS_UTC(tz) ->
         LET back == os_time(tz, gmtime(c.ts))
         IN {<<"utc_roundtrip", IF back = "time_err" THEN back ELSE Says(back = c.ts)>>}
    [] c.op = "difftime" /\ c.b = Epoch -> {<<"difftime_id", Says(difftime(c.a, c.b) = c.a)>>}
    [] OTHER -> {}
render_case(c) == [c |-> c, inv |-> [tz \in TZS |-> InvLines(c, tz)]]
=============================================================================
