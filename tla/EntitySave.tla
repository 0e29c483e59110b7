----------------------------- MODULE EntitySave -----------------------------
(***************************************************************************)
(* repository.save(entity) of TypeORM, as the services call it on a row    *)
(* they have loaded and changed: it selects the row again, and updates, in *)
(* a second statement, the columns in which the entity differs from it.    *)
(* Whatever was written between load and select is overwritten; what is    *)
(* written between select and update stays, except in those columns.       *)
(***************************************************************************)

\* The columns the save is going to update.
Changed(row, entity) == {c \in DOMAIN row : entity[c] # row[c]}

\* The row after UPDATE ... SET of those columns.
Updated(row, entity, columns) ==
    [c \in DOMAIN row |-> IF c \in columns THEN entity[c] ELSE row[c]]
=============================================================================
