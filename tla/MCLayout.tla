----------------------------- MODULE MCLayout ------------------------------
(***************************************************************************)
(* Small devices for the model checker.  Every volume has clusters behind  *)
(* its root directory or around it.                                        *)
(***************************************************************************)
EXTENDS Layout

Fat16(total, copies, rooms, dirs) ==
  [type |-> 1, total_sectors_16 |-> total, reserved_sector_count |-> 1,
   table_count |-> copies, table_size |-> 2, root_entry_count |-> rooms,
   root |-> << >>, dirs |-> dirs]
Fat32(copies, root, dirs) ==
  [type |-> 2, total_sectors_16 |-> 0, reserved_sector_count |-> 2,
   table_count |-> copies, table_size |-> 2, root_entry_count |-> 0,
   root |-> root, dirs |-> dirs]

\* Cluster 5 begins Wrap behind cluster 2.
Common  == {Fat16(1, 2, 2, {5}), Fat16(1, 3, 1, {2, 5}),
            Fat32(2, <<2>>, {5}), Fat32(3, <<4>>, {3})}
BigRoot == {Fat32(2, <<2, 3>>, {})}
Large   == {Fat16(1, 2, 1, {}), Fat16(0, 2, 1, {})}
=============================================================================
