------------------------------ MODULE Measures ------------------------------
(***************************************************************************)
(* What is read off a text or counted: instants, numbers and ratings.  A   *)
(* text is a sequence of characters, and what may be missing a sequence of *)
(* at most one.  An instant (parse_iso8601()) counts minutes from 1970 and *)
(* ticks of the clock within its minute.  A double is a fraction of        *)
(* integers here: its rounding is left out.                                *)
(***************************************************************************)
EXTENDS Integers, SequencesExt

CONSTANT TickDigits      \* the digits of a second the clock holds: seven, or six, or nine

Digit == [c \in {"0", "1", "2", "3", "4", "5", "6", "7", "8", "9"} |->
             CASE c = "0" -> 0 [] c = "1" -> 1 [] c = "2" -> 2 [] c = "3" -> 3 [] c = "4" -> 4
               [] c = "5" -> 5 [] c = "6" -> 6 [] c = "7" -> 7 [] c = "8" -> 8 [] c = "9" -> 9]

IsDigit(text, i) == i \in DOMAIN text /\ text[i] \in DOMAIN Digit
MarkAt(text, i, marks) == i \in DOMAIN text /\ text[i] \in marks
Rest(text, i) == SubSeq(text, i, Len(text))

\* take_digits: exactly n digits from i on, without a sign; -1 if there are fewer.
TakeDigits(text, i, n) ==
    IF \A j \in i..(i + n - 1) : IsDigit(text, j)
    THEN FoldLeft(LAMBDA v, c : v * 10 + Digit[c], 0, SubSeq(text, i, i + n - 1)) ELSE -1

\* std::chrono's calendar: year_month_day::ok() and sys_days, which counts from 1970.
Leap(y) == y % 4 = 0 /\ (y % 100 # 0 \/ y % 400 = 0)
MonthLength(y, m) == IF m = 2 THEN IF Leap(y) THEN 29 ELSE 28 ELSE IF m \in {4, 6, 9, 11} THEN 30 ELSE 31
IsDate(y, m, d) == m \in 1..12 /\ d \in 1..MonthLength(y, m)
SysDays(y, m, d) ==
    LET from3(k) == (k + 9) % 12       \* months counted from March
        year == IF m <= 2 THEN y - 1 ELSE y
    IN  365 * year + (year \div 4) - (year \div 100) + (year \div 400)
          + ((153 * from3(m)) + 2) \div 5 + d - 719469

\* take_date: YYYY-MM-DD, the first ten characters.
TakeDate(text) ==
    LET y == TakeDigits(text, 1, 4)
        m == TakeDigits(text, 6, 2)
        d == TakeDigits(text, 9, 2)
    IN  IF /\ -1 \notin {y, m, d}
           /\ MarkAt(text, 5, {"-"}) /\ MarkAt(text, 8, {"-"})
           /\ IsDate(y, m, d)
        THEN <<SysDays(y, m, d)>> ELSE <<>>

\* The fraction at i, a digit at a time; what is below a tick is dropped.
Fraction(text, i) ==
    LET digits == SubSeq(text, i, i + TickDigits - 1)
    IN  FoldLeft(LAMBDA v, j : v * 10 + IF IsDigit(text, j) /\ \A k \in i..j : IsDigit(text, k)
                                        THEN Digit[text[j]] ELSE 0,
                 0, [j \in 1..TickDigits |-> i + j - 1])

\* Variant: the 60th second runs into the next minute.
LastSecondRolls(second) == second

\* A leap second counts as the second before it.
LastSecond(second) == Min({second, 59})

\* take_time: HH:MM, seconds and their fraction if there are any, and where it ends.
TakeTime(text, i) ==
    LET hour == TakeDigits(text, i, 2)
        minute == TakeDigits(text, i + 3, 2)
        exact == MarkAt(text, i + 5, {":"})
        second == IF exact THEN TakeDigits(text, i + 6, 2) ELSE 0
        after == IF exact THEN i + 8 ELSE i + 5
        fraction == MarkAt(text, after, {".", ","})
        digits == CHOOSE n \in 0..Len(text) :
                     /\ \A j \in 1..n : IsDigit(text, after + j)
                     /\ ~IsDigit(text, after + n + 1)
        scale == 10^TickDigits
    IN  IF /\ -1 \notin {hour, minute, second}
           /\ MarkAt(text, i + 2, {":"})
           /\ hour <= 23 /\ minute <= 59 /\ second <= 60
           /\ fraction => digits > 0
        THEN <<[minutes |-> hour * 60 + minute,
                ticks |-> LastSecond(second) * scale + IF fraction THEN Fraction(text, after + 1) ELSE 0,
                end |-> IF fraction THEN after + digits + 1 ELSE after]>>
        ELSE <<>>

\* Variant: an offset is taken from the clock whichever its sign.
TakeZoneUnsigned(text, i) ==
    LET zone == Rest(text, i)
        hours == TakeDigits(zone, 2, 2)
        minutes == IF Len(zone) = 3 THEN 0 ELSE TakeDigits(zone, IF MarkAt(zone, 4, {":"}) THEN 5 ELSE 4, 2)
    IN  IF zone \in {<<>>, <<"Z">>, <<"z">>} THEN <<0>>
        ELSE IF MarkAt(zone, 1, {"+", "-"}) /\ hours \in 0..23 /\ minutes \in 0..59 THEN <<hours * 60 + minutes>>
        ELSE <<>>

\* take_zone: nothing or Z, which are UTC, or how far ahead the clock is; and then no more.
TakeZone(text, i) ==
    LET zone == Rest(text, i)
        hours == TakeDigits(zone, 2, 2)
        colon == IF MarkAt(zone, 4, {":"}) THEN 1 ELSE 0
        minutes == IF Len(zone) = 3 THEN 0 ELSE TakeDigits(zone, 4 + colon, 2)
        offset == hours * 60 + minutes
    IN  IF zone \in {<<>>, <<"Z">>, <<"z">>} THEN <<0>>
        ELSE IF /\ MarkAt(zone, 1, {"+", "-"})
                /\ hours \in 0..23 /\ minutes \in 0..59
                /\ Len(zone) \in {3, 5 + colon}
        THEN <<IF zone[1] = "-" THEN -offset ELSE offset>>
        ELSE <<>>

\* parse_iso8601: a date alone is its midnight.
ParseIso8601(text) ==
    LET date == TakeDate(text)
        time == IF MarkAt(text, 11, {"T", " "}) THEN TakeTime(text, 12) ELSE <<>>
        zone == IF time = <<>> THEN <<>> ELSE TakeZone(text, time[1].end)
    IN  IF date = <<>> THEN <<>>
        ELSE IF Len(text) = 10 THEN <<[minutes |-> date[1] * 1440, ticks |-> 0]>>
        ELSE IF zone = <<>> THEN <<>>
        ELSE <<[minutes |-> date[1] * 1440 + time[1].minutes - zone[1], ticks |-> time[1].ticks]>>

-----------------------------------------------------------------------------
(* What an instant promises: a stamp is written from its parts *)

Figure(n, width) ==
    [k \in 1..width |-> CHOOSE c \in DOMAIN Digit : Digit[c] = (n \div 10^(width - k)) % 10]

WrittenDate(d) == Figure(d.y, 4) \o <<"-">> \o Figure(d.m, 2) \o <<"-">> \o Figure(d.d, 2)

\* The days from 1970 to a date, year by year and month by month.
DaysTo(d) ==
    LET length(y) == IF Leap(y) THEN 366 ELSE 365
        years[y \in Nat] ==
            IF y = 1970 THEN 0
            ELSE IF y > 1970 THEN years[y - 1] + length(y - 1) ELSE years[y + 1] - length(y)
        months[m \in 0..12] == IF m = 0 THEN 0 ELSE months[m - 1] + MonthLength(d.y, m)
    IN  years[d.y] + months[d.m - 1] + d.d - 1

\* A date without a time is midnight; a time in any zone is that instant, whatever its date
\* is there; a date, a time or a zone there is not makes no stamp, and nothing may follow.
StampIsTheInstant(date, time, zone, tail) ==
    LET clock == IF time.written THEN <<time.mark>> \o Figure(time.h, 2) \o <<":">> \o Figure(time.m, 2) ELSE <<>>
        second == IF time.s < 0 THEN <<>> ELSE <<":">> \o Figure(time.s, 2)
        fraction == IF time.f = <<>> THEN <<>> ELSE <<time.point>> \o time.f
        offset == <<zone.sign>> \o Figure(zone.h, 2) \o (IF zone.colon THEN <<":">> ELSE <<>>) \o Figure(zone.m, 2)
        text == WrittenDate(date)
                \o (IF ~time.written THEN <<>> ELSE clock \o second \o fraction
                                                      \o IF zone.sign = "" THEN <<>> ELSE offset)
                \o tail
        valid == /\ IsDate(date.y, date.m, date.d)
                 /\ time.written => time.h < 24 /\ time.m < 60 /\ time.s <= 60
                 /\ time.written /\ zone.sign # "" => zone.h < 24 /\ zone.m < 60
                 /\ tail = <<>>
        ahead == (zone.h * 60 + zone.m) * IF zone.sign = "" THEN 0 ELSE IF zone.sign = "-" THEN -1 ELSE 1
        second60 == IF time.s = 60 THEN 59 ELSE IF time.s < 0 THEN 0 ELSE time.s
        kept == SubSeq(time.f \o [k \in 1..TickDigits |-> "0"], 1, TickDigits)
        ticks == FoldLeft(LAMBDA v, c : v * 10 + Digit[c], second60, kept)
    IN  ParseIso8601(text) =
          IF ~valid THEN <<>>
          ELSE IF time.written
          THEN <<[minutes |-> DaysTo(date) * 1440 + time.h * 60 + time.m - ahead, ticks |-> ticks]>>
          ELSE <<[minutes |-> DaysTo(date) * 1440, ticks |-> 0]>>

-----------------------------------------------------------------------------
(* Numbers read from labels, and ratings *)

Figures == [c \in {"0", "1", "2", "5", "9"} |->
               CASE c = "0" -> 0 [] c = "1" -> 1 [] c = "2" -> 2 [] c = "5" -> 5 [] c = "9" -> 9]
Separators == {".", ","}
LeadingBlanks == {" ", "\t", "\n", "\r"}

Value(digits) == FoldLeft(LAMBDA v, c : v * 10 + Figures[c], 0, digits)

\* Variant: every separator is skipped.
NumberEndAnySeparator(text, start) ==
    Min({i \in start..Len(text) : text[i] \notin DOMAIN Figures \cup Separators} \cup {Len(text) + 1})

\* Where the number that starts at start ends: at the first character that is neither a
\* digit nor its one separator.
NumberEnd(text, start) ==
    LET stops(i) == \/ text[i] \notin DOMAIN Figures \cup Separators
                    \/ text[i] \in Separators /\ \E j \in start..(i-1) : text[j] \in Separators
    IN  Min({i \in start..Len(text) : stops(i)} \cup {Len(text) + 1})

\* parse_decimal_prefix, as [num, den]; nothing without a digit.
ParseDecimalPrefix(text) ==
    LET start == Min({i \in DOMAIN text : text[i] \notin LeadingBlanks} \cup {Len(text) + 1})
        number == SubSeq(text, start, NumberEnd(text, start) - 1)
        digits == SelectSeq(number, LAMBDA c : c \in DOMAIN Figures)
        separator == SelectInSeq(number, LAMBDA c : c \in Separators)
        decimals == IF separator = 0 THEN 0 ELSE Len(digits) - (separator - 1)
    IN  IF digits = <<>> THEN <<>> ELSE <<[num |-> Value(digits), den |-> 10^decimals]>>

Ratio(num, den) == IF den = 0 THEN [num |-> 0, den |-> 1] ELSE [num |-> num, den |-> den]
SameRatio(p, q) == p.num * q.den = q.num * p.den
AtMost(p, n) == p.num <= n * p.den

\* Rating::from_score: the score of any scale on the scale of ten.
FromScore(score, maxScore, raters) ==
    [score |-> Ratio(score * 10, maxScore), max_score |-> maxScore, raters |-> raters, distribution |-> <<>>]

\* Variant: the first bucket counts nothing.
WeightedFromZero(votes) == FoldLeftDomain(LAMBDA sum, i : sum + (i - 1) * votes[i], 0, votes)

Weighted(votes) == FoldLeftDomain(LAMBDA sum, i : sum + i * votes[i], 0, votes)
Voters(votes) == FoldLeft(+, 0, votes)

\* Rating::from_distribution, of at most ten buckets; distribution() spans max_score of them.
FromDistribution(votes) ==
    LET stored == [i \in 1..10 |-> IF i <= Len(votes) THEN votes[i] ELSE 0]
    IN  IF Len(votes) > 10 THEN "logic_error"
        ELSE [score |-> Ratio(Weighted(votes) * 10, Voters(votes) * Len(votes)),
              max_score |-> Len(votes),
              raters |-> <<Voters(votes)>>,
              distribution |-> <<SubSeq(stored, 1, Len(votes))>>]

-----------------------------------------------------------------------------
(* What numbers and ratings promise *)

\* The same number is read with either separator, behind blanks, and in front of anything
\* that does not go on with it; labels without a digit have no number.
NumberIsRead(blanks, whole, separator, decimals, tail) ==
    LET digits == whole \o decimals
        text == blanks \o whole \o (IF decimals = <<>> THEN <<>> ELSE <<separator>> \o decimals) \o tail
    IN  ParseDecimalPrefix(text) =
          IF digits = <<>> THEN <<>>
          ELSE <<[num |-> Value(digits), den |-> 10^Len(decimals)]>>

\* A histogram rates as the list of its votes does on average, never above ten, and gives
\* its votes back.
RatingIsTheMean(votes) ==
    LET list == FlattenSeq([i \in DOMAIN votes |-> [k \in 1..votes[i] |-> i]])
        mean == FromScore(FoldLeft(+, 0, list), Len(votes) * Len(list), <<Len(list)>>)
        rating == FromDistribution(votes)
    IN  IF Len(votes) > 10 THEN rating = "logic_error"
        ELSE /\ SameRatio(rating.score, mean.score)
             /\ rating.raters = mean.raters
             /\ AtMost(rating.score, 10)
             /\ rating.distribution = <<votes>>

=============================================================================
