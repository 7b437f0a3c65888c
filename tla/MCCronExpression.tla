-------------------------- MODULE MCCronExpression --------------------------
(* Instances of CronExpression for TLC: a calendar of real dates, with days   *)
(* of three hours of two minutes.                                             *)
EXTENDS CronExpression

Range(from, to, step) == [any |-> FALSE, from |-> from, to |-> to, step |-> step]
Every(step) == [any |-> TRUE, from |-> 0, to |-> 0, step |-> step]
At(n) == {Range(n, n, 1)}

(* From Saturday 27 January 2024, over the end of a month. *)
LateJanuary ==
  [d \in 0..9 |-> [date |-> IF d < 5 THEN 27 + d ELSE d - 4,
                   month |-> IF d < 5 THEN 1 ELSE 2,
                   weekday |-> (6 + d) % 7]]

(* Every minute, one or every other; every hour, the first and the last; any  *)
(* date, as "*" and as "*/1", every tenth or the last days; any month or      *)
(* every second; any weekday, Sunday as 7, or Monday to Friday by twos.       *)
Expressions ==
  [minute: {Star, At(1), {Every(2)}},
   hour: {Star, At(0), At(2)},
   dom: {Star, {Every(1)}, {Every(10)}, {Range(30, 31, 1)}},
   month: {Star, {Every(2)}},
   dow: {Star, At(7), {Range(1, 5, 2)}}]

(* A clock that never changes, and clocks that skip or repeat an hour: within *)
(* the second day, at the start of the third, at the end of the second; and   *)
(* one of a zone some hours ahead.                                            *)
Steady == [at |-> 0, before |-> 2, after |-> 2]
Spring == [at |-> 7, before |-> 1, after |-> 3]
Autumn == [at |-> 7, before |-> 3, after |-> 1]
SpringMidnight == [at |-> 11, before |-> 1, after |-> 3]
AutumnMidnight == [at |-> 9, before |-> 3, after |-> 1]
SpringAhead == [at |-> 4, before |-> 4, after |-> 6]

Clocks == {Steady, Spring, Autumn, SpringMidnight, AutumnMidnight, SpringAhead}
Searches(by, homes, zones) ==
  [by: {by}, home: homes, zone: zones, from: {0, 3, 8}]
AnyClocks ==
  {s \in Searches("process", Clocks, Clocks) : s.zone = s.home}
    \cup Searches("zone", Clocks, Clocks)
SpringForward == Searches("zone", {Steady}, {Spring})
=============================================================================
