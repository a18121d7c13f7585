------------------------------ MODULE Database ------------------------------
(***************************************************************************)
(* The pool of connections of src/src/utils/db.rs and the transactions of  *)
(* src/src/services/database/mod.rs, as the components that share the      *)
(* database see them: one write connection, a few read connections, held   *)
(* for the length of a transaction, which may await other things.          *)
(***************************************************************************)
EXTENDS Naturals, FiniteSets, Sequences

CONSTANTS MaxReaders,  \* DB_MAX_READ_CONNECTIONS
          NoOne,
          Versions,    \* the crate versions that may have a row in PackageVersion
          Order,       \* Versions, from the highest in the order of semver
          Package      \* the package of each version

ASSUME MaxReadersAssumption == MaxReaders \in Nat \ {0}
ASSUME VersionsAssumption == IsFiniteSet(Versions) /\ NoOne \notin Versions
ASSUME OrderAssumption ==
    /\ Order \in Seq(Versions)
    /\ \A v \in Versions : \E i \in DOMAIN Order : Order[i] = v
    /\ \A i, k \in DOMAIN Order : Order[i] = Order[k] => i = k

VARIABLES
    writer,   \* who holds the write connection, NoOne when it is free
    readers,  \* who holds a read connection
    present   \* the rows of PackageVersion

acquire_write(who) == writer = NoOne /\ writer' = who

acquire_read(who) == Cardinality(readers) < MaxReaders /\ readers' = readers \cup {who}

(* A transaction ends, committed or rolled back, and its connection goes   *)
(* back to the pool.                                                       *)
Release(who) ==
    /\ writer' = IF writer = who THEN NoOne ELSE writer
    /\ readers' = readers \ {who}

(* Who waits for a connection that is in use may be refused it after a     *)
(* while (PoolTimedOut).                                                   *)
WriteTimesOut == writer # NoOne
ReadTimesOut == Cardinality(readers) = MaxReaders
=============================================================================
