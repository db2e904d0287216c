--------------------------- MODULE MCPacketReader ---------------------------
EXTENDS PacketReader

\* Fixed messages without and with a body, short and long variable ones
\* (the longest is twice the limit) and one the table does not have.
MCKinds ==
  {[known |-> TRUE, variable |-> FALSE, len |-> n] : n \in {0, 3}} \cup
  {[known |-> TRUE, variable |-> TRUE, len |-> n] : n \in {0, 2, 3, 6}} \cup
  {[known |-> FALSE, variable |-> FALSE, len |-> 1]}
=============================================================================
