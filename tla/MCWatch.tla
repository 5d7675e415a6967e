------------------------------ MODULE MCWatch ------------------------------
EXTENDS Watch
CONSTANTS a
Asked == {{}, {a}}
Default == [paused |-> FALSE, intake |-> TRUE, strategy |-> "manual", limit |-> 1,
            review |-> "off", collaboration |-> "local"]
AloneOrJoined == {Default, [Default EXCEPT !["collaboration"] = "connected"]}
=============================================================================
