------------------------------ MODULE MCConfigStore ------------------------------
EXTENDS ConfigStore

\* Days of four minutes.  One window wakes on Sunday for Monday, the other a whole
\* day ahead of two days, also when more than a day is asked for.
Early == [id |-> "early", enabled |-> TRUE, wake |-> TRUE, start |-> 1, lead |-> 2, days |-> {1}]
Late  == [id |-> "late", enabled |-> TRUE, wake |-> TRUE, start |-> 3, lead |-> 9, days |-> {1, 4}]
Quiet == [id |-> "late", enabled |-> TRUE, wake |-> FALSE, start |-> 3, lead |-> 1, days |-> {2}]

MCDefault == [schedules |-> {}, web |-> "local"]
MCConfigs == {MCDefault,
              [schedules |-> {Early, Quiet}, web |-> "local"],
              [schedules |-> {Early, Late}, web |-> "lan"]}
=============================================================================
