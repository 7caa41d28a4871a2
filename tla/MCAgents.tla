------------------------------ MODULE MCAgents ------------------------------
(* Instances of Agents for TLC. *)
EXTENDS Agents

CONSTANTS c1, c2, b1

MCListens == [b \in {b1} |-> {c1, c2}]

MCBase == <<"printcap">>
MCOthers == {<<"printcap">>, <<"other">>}

\* One is a prefix of another, and the one it is a prefix of is not the last.
MCOids == {<<1, 1>>, <<1, 1, 0>>, <<1, 2>>, <<2>>}

MCUser == [name |-> "u", level |-> "authPriv", authPass |-> "secret", privPass |-> "secret"]

MCManagers ==
    {[version |-> 1, auth |-> FALSE, priv |-> FALSE, community |-> TRUE, pass |-> "secret", bulk |-> TRUE],
     [version |-> 3, auth |-> TRUE, priv |-> TRUE, community |-> TRUE, pass |-> "secret", bulk |-> TRUE],
     [version |-> 3, auth |-> TRUE, priv |-> FALSE, community |-> TRUE, pass |-> "wrong", bulk |-> FALSE]}
=============================================================================
