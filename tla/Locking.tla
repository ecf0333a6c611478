------------------------------- MODULE Locking -------------------------------
(***************************************************************************)
(* The lock files of internal/locking/lock.go: one file per lock under     *)
(* .vara/locks, created with O_CREATE|O_EXCL and removed on release.       *)
(* lockFile[l] is the process whose PID the file holds, or Free when the   *)
(* file does not exist.  Nothing but Release removes a lock file: the PID  *)
(* is written and never read back.                                         *)
(***************************************************************************)
EXTENDS Naturals

CONSTANTS Proc,     \* the processes that run commands on one repository
          Free      \* "the lock file does not exist"

ASSUME FreeAssumption == Free \notin Proc

VARIABLE lockFile

Lock == {"repository", "refs", "index", "objects"}

\* The hierarchy of RFC-0006 section 2, as the order of the constants.
Rank == [repository |-> 1, refs |-> 2, index |-> 3, objects |-> 4]

\* The turn of the loop of AcquireWithTimeout that finds no file.  Every other turn
\* sleeps and tries again, until the deadline or an error other than ErrExist.
TryAcquire(p, l) ==
    /\ lockFile[l] = Free
    /\ lockFile' = [lockFile EXCEPT ![l] = p]

\* LockFile.Release: os.Remove of the path, whatever the file holds.
Remove(l) == lockFile' = [lockFile EXCEPT ![l] = Free]

LockInit == lockFile = [l \in Lock |-> Free]
==============================================================================
