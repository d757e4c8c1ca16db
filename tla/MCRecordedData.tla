--------------------------- MODULE MCRecordedData ---------------------------
(* Small instances of RecordedData.                                        *)
EXTENDS RecordedData

Books == {<<4, 2>>, <<1, 4>>}

Quarters == {[train |-> 50, val |-> 25, embargo |-> 20]}
=============================================================================
