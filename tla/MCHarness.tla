----------------------------- MODULE MCHarness ------------------------------
EXTENDS Harness

MCOrder == <<[block |-> <<"hunter", "synthesis">>, context |-> "off"],
             [block |-> <<"hunter">>, context |-> "cold"]>>

Policy(turns, inflight, input, output, spend, reservation, rated) ==
  [turns |-> turns, inflight |-> inflight, requestBytes |-> 1, input |-> input, output |-> output,
   spend |-> spend, reservation |-> reservation, rated |-> rated]

\* capped in turns and spend; in tokens
MCPolicies == {Policy(2, 2, None, None, 4, 2, TRUE), Policy(None, 2, 1, 2, None, None, FALSE)}
MCBodies == {1}
MCAnswers == {[in |-> 1, out |-> 2, failed |-> FALSE]}
=============================================================================
