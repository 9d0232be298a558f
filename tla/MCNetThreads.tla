---------------------------- MODULE MCNetThreads ----------------------------
(* Managers and applications for TLC.                                       *)
EXTENDS NetThreads

TwoManagers == <<"m_Players", "m_World">>
OneManager == <<"m_World">>

\* The application builds for the world, its connect callback the new peer's player.
WorldAndPlayer ==
    {[thread |-> "app", manager |-> "m_World", owned |-> FALSE],
     [thread |-> "net", manager |-> "m_Players", owned |-> TRUE]}
BothWorld ==
    {[thread |-> "app", manager |-> "m_World", owned |-> FALSE],
     [thread |-> "net", manager |-> "m_World", owned |-> TRUE]}

PlainPeers == [server : BOOLEAN, lists : {{}}]
ListPeers ==
    {[server |-> TRUE, lists |-> {"NetworkUpdate"}],
     [server |-> FALSE, lists |-> {"invalidate_ents"}]}
=============================================================================
