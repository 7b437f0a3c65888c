--------------------------- MODULE MCManagedLock ---------------------------
(* Instances of ManagedLock for TLC. *)
EXTENDS ManagedLock

CONSTANTS lockA, lockB

Allow(drivers, pauses, forces, crashes, reacquires, errors) ==
  [driver: drivers, pauses: {pauses}, forces: {forces}, crashes: {crashes},
   reacquires: {reacquires}, errors: {errors}]

(* Every driver; the stores with a pause and a forceRelease, or with a crash  *)
(* and an error; a second acquire() by the same lock where it is atomic, and  *)
(* in the stores where nothing comes between its commands.                    *)
AllDrivers == Allow({"redis", "sqlite"}, 1, 1, 0, 0, 0)
                \cup Allow({"redis", "sqlite"}, 0, 0, 1, 0, 1)
                \cup Allow({"memory"}, 1, 0, 0, 1, 0)
                \cup Allow({"redis", "sqlite"}, 0, 0, 1, 1, 0)
=============================================================================
