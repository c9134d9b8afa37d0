------------------------------- MODULE MCHost -------------------------------
(* Host for TLC: which commands meet, and with how many events.  The       *)
(* lifecycle commands are the same on every system.                        *)
EXTENDS Host, TLC

Scene(name, commands, n) == [system |-> name, tried |-> commands, events |-> n]

MCScenes ==
    {Scene("linux", {"status", "on", "off", "restart"}, 2),
     Scene("linux", {"SaveAndRestart", "off"}, 1),
     Scene("linux", {"connect", "off"}, 1),
     Scene("windows", {"SaveOnly", "SaveAndStart"}, 1), Scene("windows", {"SaveOnly"}, 2),
     Scene("linux", {"autostart"}, 2), Scene("windows", {"autostart"}, 2),
     Scene("macos", {"SaveOnly", "autostart"}, 1)}
OnAlone == {Scene("linux", {"on"}, 0)}

HostSymmetry ==
    {p @@ q @@ r : p \in Permutations(Commands), q \in Permutations(Workers),
                   r \in Permutations(Contents)}
=============================================================================
