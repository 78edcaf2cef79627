---- MODULE MCRecordRead ----
EXTENDS RecordRead

OneType == {AddType(e, 1) : e \in 1 .. 4}
TwoTypes == {AddType(e, t) : e \in 1 .. 2, t \in 1 .. 2}

(* Some that exist or not, one of them twice, and none.                    *)
Lookups == {<<>>} \cup {<<i, j>> : i, j \in OneType}
=============================================================================
