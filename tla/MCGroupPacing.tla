--------------------------- MODULE MCGroupPacing ---------------------------
(* A day of three hours of two slots; the settings change once. *)
EXTENDS GroupPacing

Limits(a, b, c) == [h \in Hours |-> CASE h = 0 -> a [] h = 1 -> b [] OTHER -> c]

\* two settings by the hour
Hourly2 ==
    <<[type |-> "imp", day |-> FALSE, frequency |-> Limits(1, 2, 1)],
      [type |-> "imp", day |-> FALSE, frequency |-> Limits(2, 1, 0)]>>

\* by the day, then without a limit
DayThenInfinity ==
    <<[type |-> "imp", day |-> TRUE, frequency |-> Limits(2, 0, 0)],
      [type |-> "infinity", day |-> FALSE, frequency |-> Limits(1, 1, 0)]>>

\* hours 0 and 1 leave something over
Leftover == <<[type |-> "imp", day |-> FALSE, frequency |-> Limits(2, 1, 1)]>>
=============================================================================
