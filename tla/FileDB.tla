------------------------------- MODULE FileDB -------------------------------
(***************************************************************************)
(* The key-value store of db/db.go: a LevelDB database, seen as a partial  *)
(* function from keys to values.  Every operation is one call of the       *)
(* LevelDB client, which serialises them, so each is one atomic step of    *)
(* the module that uses it.  A lookup of a key that is absent is the error *)
(* leveldb.ErrNotFound; deleting an absent key is legal.                   *)
(***************************************************************************)

EmptyDB == [k \in {} |-> {}]

Has(db, key) == key \in DOMAIN db

Put(db, key, value) ==
    [k \in DOMAIN db \cup {key} |-> IF k = key THEN value ELSE db[k]]

Delete(db, key) == [k \in DOMAIN db \ {key} |-> db[k]]

=============================================================================
