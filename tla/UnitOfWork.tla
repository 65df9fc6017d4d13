----------------------------- MODULE UnitOfWork -----------------------------
(***************************************************************************)
(* What a SQLAlchemy session writes.  A handler loads a row, edits its     *)
(* copy and commits: the UPDATE names the columns whose value differs from *)
(* the one loaded, and nothing checks that the row still holds the values  *)
(* that were loaded.  A column set to the value it had is not written.     *)
(***************************************************************************)

Flush(row, loaded, edited) ==
    [f \in DOMAIN row |-> IF edited[f] = loaded[f] THEN row[f] ELSE edited[f]]

=============================================================================
