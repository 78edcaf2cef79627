---- MODULE MCRecordData ----
EXTENDS RecordData

Fixed(size) == [fixed |-> TRUE, size |-> size]
Variable(size) == [fixed |-> FALSE, size |-> size]

ThreeFields == <<Fixed(2), Variable(1), Variable(2)>>

All == <<0, 1, 2>>
=============================================================================
