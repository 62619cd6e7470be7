-------------------------- MODULE MCAlertManager --------------------------
(* Small instances of AlertManager: one alert type per priority level.     *)
EXTENDS AlertManager

CONSTANTS Normal, High, Critical   \* model values: an alert type of each level

MCTypes == {Normal, High, Critical}

MCPriority == [t \in {Normal, High, Critical, DroppedType} |->
                 CASE t = Normal -> 0 [] t = High -> 1
                   [] t = Critical -> 2 [] t = DroppedType -> 3]

MCSubjects == 0 .. MaxPosts
=============================================================================
