---------------------------- MODULE MCEnvironment ----------------------------
(* Instances of NodeEnvironment for TLC.                                     *)
EXTENDS NodeEnvironment

MCSubscriptions == [x |-> [type |-> "t", rank |-> 1, once |-> TRUE],
                    y |-> [type |-> "*", rank |-> 0, once |-> FALSE]]

MCHandlers == [http |-> 1, services |-> 3, logs |-> 3]

MCAlertOrder == <<"a", "b">>
MCInhibits == {<<"a", "b">>}
MCChannels == <<"console">>
MCChecks == <<"c1", "c2">>

MCNodeList == <<"n1", "n2">>

===============================================================================
