--------------------------- MODULE MCConversation ---------------------------
(* Small instances of ConversationStores for TLC.                          *)
EXTENDS ConversationStores, TLC

CONSTANTS k1, k2

\* Two keys where a second request must not be taken for the first.
TwoKeys == [accept |-> {k1, k2}, session |-> {k1}, branch |-> {k1}, status |-> {k1, k2},
            note |-> {k1}, result |-> {k1, k2}, publish |-> {k1}]
=============================================================================
