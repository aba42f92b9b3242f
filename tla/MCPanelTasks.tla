---------------------------- MODULE MCPanelTasks -----------------------------
(* A small instance of PanelTasks: rows of three cells, the views of a cook. *)
EXTENDS PanelTasks

View(row0, slots, timer) == [row0 |-> row0, slots |-> slots, timer |-> timer]
Name == <<"b", "r", "e", "a", "d", "s">>
Probe == <<"p", "1">>
Steam == <<"s", "t", "e", "a", "m", "e", "d">>
Cook == View(Name, <<Steam>>, <<1>>)
Idle == View(<<"x">>, <<Name, Probe, Steam>>, <<>>)
MCViews == {Cook, Idle, View(<<"x">>, <<Name>>, <<>>), View(Steam, <<Probe, Steam, Name>>, <<>>)}
MCStill == {Idle}
=============================================================================
