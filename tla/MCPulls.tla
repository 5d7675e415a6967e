------------------------------ MODULE MCPulls ------------------------------
EXTENDS Pulls
Nothing == [k \in Kinds |-> 0]
Talk  == [Nothing EXCEPT !["open"] = 1, !["human"] = 2, !["tick"] = 2]
Quiet == [Nothing EXCEPT !["open"] = 1, !["human"] = 1, !["agent"] = 1, !["tick"] = 1,
                         !["failure"] = 1]
Tests == [Nothing EXCEPT !["open"] = 1, !["check"] = 2, !["age"] = 2, !["failure"] = 2]
Ends  == [Nothing EXCEPT !["namesake"] = 1, !["open"] = 2, !["report"] = 1, !["end"] = 2,
                         !["failure"] = 2]
Themes == {Talk, Quiet, Tests, Ends}
=============================================================================
