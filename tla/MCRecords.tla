------------------------------ MODULE MCRecords ------------------------------
\* Records for TLC: the scenarios.
EXTENDS Records

Plain(policy) == [recovery_policy |-> policy, deliver_errors |-> FALSE, rate_interval |-> 0]

\* Counters that wrap, several sessions and a sensor restart.
Ordering ==
  [config : {Plain("Reconnect")},
   world : {[may |-> {"reboot"}, statuses |-> {"Ok"}, numbers |-> {0, 3, 6}, records |-> 6]}]

\* bias() at any time, errors, callbacks that throw and the rate limit.
Biasing ==
  [config : {[Plain(policy) EXCEPT !.deliver_errors = policy = "FailStop", !.rate_interval = 1] :
               policy \in {"Reconnect", "FailStop"}},
   world : {[may |-> {"throw", "overflow", "bias"}, statuses |-> {"Ok", "Error"},
             numbers |-> {5}, records |-> 4]}]

OrderingAndBiasing == Ordering \cup Biasing

\* bias() while the FT number is just above the threshold of a restart.
NearThreshold ==
  [config : {Plain("Reconnect")},
   world : {[may |-> {"bias"}, statuses |-> {"Ok"}, numbers |-> {0}, records |-> 4]}]

=============================================================================
