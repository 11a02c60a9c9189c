------------------------------- MODULE Uptime -------------------------------
(***************************************************************************)
(* set_uptime: a number of seconds taken apart into years of 365 days,     *)
(* months of 30 days, days, hours and minutes.                             *)
(***************************************************************************)
EXTENDS Integers

minute_sec == 60
hour_sec   == 60 * minute_sec
day_sec    == 24 * hour_sec
month_sec  == 30 * day_sec
year_sec   == 365 * day_sec

(* As if the months were taken from what the years of 360 days leave.      *)
set_uptime_360(total_sec) ==
  LET in_year  == total_sec % (12 * month_sec)
      in_month == in_year % month_sec
      in_day   == in_month % day_sec
      in_hour  == in_day % hour_sec
  IN  [ total_sec |-> total_sec,
        year   |-> total_sec \div year_sec,
        month  |-> in_year \div month_sec,
        day    |-> in_month \div day_sec,
        hour   |-> in_day \div hour_sec,
        minute |-> in_hour \div minute_sec ]

set_uptime(total_sec) ==
  LET in_year  == total_sec % year_sec
      in_month == in_year % month_sec
      in_day   == in_month % day_sec
      in_hour  == in_day % hour_sec
  IN  [ total_sec |-> total_sec,
        year   |-> total_sec \div year_sec,
        month  |-> in_year \div month_sec,
        day    |-> in_month \div day_sec,
        hour   |-> in_day \div hour_sec,
        minute |-> in_hour \div minute_sec ]

(* Put together again, the parts are less than a minute short of the       *)
(* whole, and each is below what the next larger holds.  A year has more   *)
(* days than twelve months have: in its last five, month is 12.            *)
PartsAddUp(up) ==
  LET parts == up.year * year_sec + up.month * month_sec + up.day * day_sec
                 + up.hour * hour_sec + up.minute * minute_sec
  IN  /\ parts <= up.total_sec /\ up.total_sec < parts + minute_sec
      /\ up.month <= 12 /\ up.day < 30 /\ up.hour < 24 /\ up.minute < 60
      /\ up.month = 12 => up.day < 5
=============================================================================
