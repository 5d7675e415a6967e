----------------------------- MODULE MCStartup -----------------------------
EXTENDS Terminal
None == [k \in Kinds |-> 0]
Tidying == [None EXCEPT !["write"] = 1, !["launch"] = 2, !["commit"] = 2, !["merge"] = 1, !["reconcile"] = 1,
                        !["refresh"] = 1, !["failure"] = 1]
Landing == [None EXCEPT !["launch"] = 2, !["commit"] = 2, !["merge"] = 2, !["mark"] = 1, !["reconcile"] = 1,
                        !["failure"] = 1]
Opening == [None EXCEPT !["write"] = 1, !["merge"] = 1, !["refresh"] = 1, !["failure"] = 1, !["key"] = 2]
Choosing == [None EXCEPT !["merge"] = 1, !["refresh"] = 1, !["key"] = 3]
Naming  == [None EXCEPT !["named"] = 1]
Looking == None
SomeDays == {Looking, Tidying, Landing, Opening, Choosing, Naming}
Chatter == {<<"info", "debug", "info", "info", "warn", "info">>, <<"error", "warn", "info">>}
=============================================================================
