-------------------------------- MODULE Api --------------------------------
(***************************************************************************)
(* What the models of the user API share. Requests are served by several   *)
(* worker processes; each is a transaction under READ COMMITTED. An object *)
(* that a request has loaded keeps the values it had then, and saving it   *)
(* writes the columns that the request has changed.                        *)
(***************************************************************************)
CONSTANTS
    None,       \* no row, no value, no request
    Workers     \* worker processes of the user API

\* The row after a save: changed columns are written, the others stay.
Saved(row, changed) ==
    [f \in DOMAIN row |-> IF f \in DOMAIN changed THEN changed[f] ELSE row[f]]
=============================================================================
