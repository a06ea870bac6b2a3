--------------------------- MODULE MCUsageMonitor ---------------------------
(* The instances of UsageMonitor: two servers of one location, entered     *)
(* under two of its names or under one.                                    *)
EXTENDS UsageMonitor

CONSTANTS germany, deutschland, loop, operator

MCServers == {1, 2}
MCLocations == {germany, deutschland}
MCOneName == [v \in MCServers |-> germany]
MCTwoNames == <<germany, deutschland>>
MCKeyOf == [l \in MCLocations |-> germany]
MCOperators == {operator}
MCNoOperators == {}

(* A panel with room, whose traffic is told as uploads and downloads, and  *)
(* one that is full in both senses.                                        *)
User == [enable |-> TRUE, is_active |-> TRUE,
         gb |-> None, bytes |-> None, upload |-> None, download |-> None]
Roomy == <<[User EXCEPT !.upload = 1], [User EXCEPT !.enable = FALSE, !.download = 1]>>
Full == <<[User EXCEPT !.gb = 4], [User EXCEPT !.bytes = 5, !.gb = None]>>
MCPanels == {Roomy, Full}
MCFull == {Full}

(* The threshold of users is an override by another name of the location;  *)
(* the entry that follows it is no number.                                 *)
MCDefault == [percent |-> 50, gb |-> 8]
MCOverrides ==
    [percent |-> <<[name |-> deutschland, value |-> 85], [name |-> germany, value |-> None]>>,
     gb |-> <<>>]
=============================================================================
