------------------------- MODULE MCSendNotification -------------------------
EXTENDS SendNotification

CONSTANTS c1, c2, k1, k2, n1, l1

TheKeys == [c \in Call |-> CASE c = c1 -> k1 [] c = c2 -> k2 [] OTHER -> None]
TheNonces == [c \in Call |-> n1]
=============================================================================
