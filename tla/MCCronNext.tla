------------------------------- MODULE MCCronNext -------------------------------
(* CronNext on a calendar of two months, a week of three days, a day of    *)
(* four hours and an hour of three minutes of two seconds.                 *)
EXTENDS CronNext

TwoMonths == <<2, 3>>
OneYear   == 0 .. 119

(* "*", a single value, neighbours, and values apart; a day that only the  *)
(* second month has.                                                       *)
SomeSpecs ==
    [minute     : {0 .. 2, {0}, {1}, {0, 2}},
     hour       : {0 .. 3, {1}, {0, 2}, {3}},
     dayOfMonth : {1 .. 3, {1}, {3}},
     month      : {1 .. 2, {1}, {2}},
     dayOfWeek  : {0 .. 2, {0}, {1, 2}}]
    \union {[minute |-> Wildcard, hour |-> Wildcard, dayOfMonth |-> Wildcard,
             month |-> Wildcard, dayOfWeek |-> Wildcard]}

(* The shape of "@hourly".                                                 *)
Hourly == [minute |-> {0}, hour |-> Wildcard, dayOfMonth |-> Wildcard,
           month |-> Wildcard, dayOfWeek |-> Wildcard]

(* Numbers out of range, which ParseCronExpr does not refuse: an hour or a *)
(* minute of -1, the hour and the minute after the last.  Those with a day *)
(* of the month and an hour of -1, or the hour 0 and a minute of -1, make  *)
(* the search go round on one day.                                         *)
Unchecked ==
    [minute : {{-1}, {3}}, hour : {{-1}, {0}, {4}}, dayOfMonth : {Wildcard, {2}},
     month : {Wildcard}, dayOfWeek : {Wildcard}]

(* A minute and an hour in range.  The third day of the first month does   *)
(* not exist: the search for it runs on through the years, and has no end  *)
(* that TLC could reach.                                                   *)
SomeExprs ==
    {Hourly} \union Unchecked \union
    {e \in [minute     : {{0}, {2}},
            hour       : {{0}, {2}, {3}},
            dayOfMonth : {Wildcard, {1}, {3}},
            month      : {Wildcard, {1}, {2}},
            dayOfWeek  : {Wildcard, {0}, {2}}] :
        e.dayOfMonth = {3} => e.month # {1}}

Daily == {[minute |-> {0}, hour |-> {0}, dayOfMonth |-> Wildcard,
           month |-> Wildcard, dayOfWeek |-> Wildcard]}

Nothing == {}
=============================================================================
