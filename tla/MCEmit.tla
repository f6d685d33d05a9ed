-------------------------------- MODULE MCEmit --------------------------------
(* A small emit buffer for TLC: seven columns, four of which share the string  *)
(* block and two the one for INT32, and rows chosen for what can go wrong with *)
(* them.                                                                       *)
EXTENDS EmitBuffer

MCColumns == <<"Int32", "Date", "Int32", "Timestamp", "Numeric", "String", "Unsupported">>
MCIntMax  == 7

Int32(n)   == Value("Int32", n)
Int64(n)   == Value("Int64", n)
OnDay(n)   == Value("Date", n)
Text(n)    == Value("String", n)
Dec(u, s)  == Value("Numeric", <<u, s>>)
At(v, unit) == Value("Timestamp", <<v, unit>>)
Null       == NullValue

\* 2000-02-29, 2000-12-31, 2001-01-01, and a day before the year 0.
LeapDay == 11016
LastDay == 11322
NewYear == 11323
Ancient == -719529

\* The last microsecond of 1969 and its last nanosecond, the first second of 2001.
Before1970 == At(-1, 1000000)
LastNano   == At(-1, 1000000000)
Start2001  == At(NewYear * Day + 1, 1)

FirstRow  == <<Int32(1), OnDay(LeapDay), Null,      LastNano,   Null,       Text(3), Null>>
SecondRow == <<Null,     OnDay(LastDay), Int32(-2), Null,       Dec(-5, 2), Text(0), Text(2)>>
ThirdRow  == <<Int32(2), OnDay(NewYear), Int32(3),  Start2001,  Int32(-4),  Null,    Null>>
EarlyRow  == <<Null,     OnDay(Ancient), Null,      Before1970, Dec(120, 2), Text(9), Null>>

\* An INT64 that fits INT32, one that does not, a wrong variant, a short row.
Narrow == <<Int64(MCIntMax), Null, Int64(-3), Null, Int64(10), Text(1), Null>>
Wide   == <<Int64(MCIntMax + 1), Null, Null, Null, Null, Null, Null>>
Wrong  == <<Text(1), Null, Null, Null, Null, Null, Null>>
Short  == <<Int32(1), Null>>

ArrowRows == {FirstRow, SecondRow, ThirdRow, EarlyRow}
MCRows    == ArrowRows \cup {Narrow, Wide, Wrong, Short}
MCBatches == UNION {[1..n -> ArrowRows] : n \in 1..2}
               \cup {<<FirstRow, SecondRow, ThirdRow>>, <<ThirdRow, FirstRow, ThirdRow>>,
                       <<EarlyRow, FirstRow, SecondRow>>,
                       <<ThirdRow, FirstRow, SecondRow, ThirdRow, EarlyRow, ThirdRow>>}

(* civil_from_days is checked against the calendar over more than one era    *)
(* around the year 0 and over the years 1965 to 2035.                        *)
ASSUME CalendarChecked ==
  FollowsCalendar(-719600, -573000) /\ FollowsCalendar(-1900, 23800)

\* Rows of INT32 columns that hold negative numbers.
NegativeColumns == <<"Int32", "Int32">>
NegativeRows    == {<<Int32(-1), Int32(-2)>>}
=============================================================================
