------------------------------ MODULE MCServices ------------------------------
(* Instances of NodeServices for TLC.                                        *)
EXTENDS NodeServices, TLC

\* b, which has the lower priority, is what a depends on.
MCDependencies == [a |-> <<"b">>, b |-> <<>>]
MCPriority == [a |-> 1, b |-> 2]
MCPolicy == [a |-> "on-failure", b |-> "no"]

MCHealRules == <<[id |-> "h1", on |-> {"degraded", "unhealthy"}, minFailures |-> 0,
                  actions |-> 2],
                 [id |-> "h2", on |-> {"unhealthy"}, minFailures |-> 3, actions |-> 1]>>
MCRemedies == <<[id |-> "r1", on |-> {"high", "critical"}, actions |-> 1]>>
MCWeights == [b |-> 5]
MCEvents == {[ip |-> TRUE, service |-> FALSE, throws |-> {"alert"}]}
MCChecks == <<"c1">>

MCScaleRules == <<[on |-> {"high"}, scaleChange |-> 1], [on |-> {"low"}, scaleChange |-> -1]>>

MCMessageStreams == {<<"data", "data", "data">>, <<"data", "large", "data">>}

MCBuiltIn == [guest |-> {"p"}]
MCPolicies == [q |-> [effect |-> "allow", users |-> {"u"}, perms |-> {"p"}, when |-> TRUE]]

MCChunks == {<<"right", "send", "LOGOUT", "state">>, <<"wrong", "short", "wrong">>,
             <<"state", "send", "right">>, <<"LOGOUT">>}

===============================================================================
