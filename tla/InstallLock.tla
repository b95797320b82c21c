---------------------------- MODULE InstallLock ----------------------------
(***************************************************************************)
(* The install lock file (~/.ghost-alice/install.lock) of                  *)
(* _shared/install_lock.py as its two users take and release it: the       *)
(* installer commands (_shared/installer/lock.py, installer/cli.py) and    *)
(* the gateway registration run on its own (operation_lock in              *)
(* _shared/context_gateway_platform.py).                                   *)
(*                                                                         *)
(* Every file operation is one step, so the processes interleave between   *)
(* the failed create, the stat, the unlink of a stale lock and the next    *)
(* create.  A process is one run of one command: it takes the lock at most *)
(* once, and a process that died never returns.  The lock file is          *)
(* therefore identified by its creator.  Time is the action Age: the       *)
(* file's age reaches stale_seconds.                                       *)
(***************************************************************************)

CONSTANTS
  Proc,          \* the processes that try to take the lock
  Gateway,       \* those that run the gateway registration on its own
  NoLock,        \* no file at the lock path
  LongCommands   \* TRUE: a command may hold its lock longer than stale_seconds

ASSUME LockAssumption ==
  /\ Gateway \subseteq Proc
  /\ LongCommands \in BOOLEAN
  /\ NoLock \notin [by : Proc, written : BOOLEAN, old : BOOLEAN]

VARIABLES
  pc,      \* where each process is in acquire_lock, its command and release_lock
  lock,    \* the file at the lock path
  owned,   \* the lock file as operation_lock saw it after it took the lock
  robbed   \* history: some process removed the lock of a live holder

lockVars == <<pc, lock, owned, robbed>>

LockFile == [by : Proc, written : BOOLEAN, old : BOOLEAN]
Waiting == {"create", "stat", "unlink"}
Holding == {"write", "snapshot", "held", "writing", "compare", "release"}
Place == Waiting \cup Holding \cup {"start", "refused", "done", "gone"}

LockTypeOK ==
  /\ pc \in [Proc -> Place]
  /\ lock \in LockFile \cup {NoLock}
  /\ owned \in [Proc -> LockFile \cup {NoLock}]
  /\ robbed \in BOOLEAN

LockInit ==
  /\ pc = [p \in Proc |-> "start"]
  /\ lock = NoLock
  /\ owned = [p \in Proc |-> NoLock]
  /\ robbed = FALSE

Goto(p, place) == pc' = [pc EXCEPT ![p] = place]

(* Process p unlinks whatever file is at the lock path. *)
Unlink(p) ==
  /\ lock' = NoLock
  /\ robbed' = (robbed \/ (lock # NoLock /\ lock.by # p /\ pc[lock.by] \in Holding))

----------------------------------------------------------------------------

(* A command reaches acquire_lock. *)
StartCommand(p) ==
  /\ pc[p] = "start"
  /\ Goto(p, "create")
  /\ UNCHANGED <<lock, owned, robbed>>

(* Mutant of Create: the file is opened without O_EXCL. *)
CreateOver(p) ==
  /\ pc[p] = "create"
  /\ lock' = [by |-> p, written |-> FALSE, old |-> FALSE]
  /\ Goto(p, "write")
  /\ UNCHANGED <<owned, robbed>>

(* os.open with O_CREAT and O_EXCL. *)
Create(p) ==
  /\ pc[p] = "create"
  /\ IF lock = NoLock
       THEN /\ lock' = [by |-> p, written |-> FALSE, old |-> FALSE]
            /\ Goto(p, "write")
       ELSE Goto(p, "stat") /\ UNCHANGED lock
  /\ UNCHANGED <<owned, robbed>>

(* Mutant of Stat: a refused command releases the lock on its way out. *)
StatThenRelease(p) ==
  /\ pc[p] = "stat"
  /\ Goto(p, IF lock = NoLock THEN "create" ELSE IF lock.old THEN "unlink" ELSE "release")
  /\ UNCHANGED <<lock, owned, robbed>>

(* Mutant of Stat: a lock that is held is tried again. *)
StatThenRetry(p) ==
  /\ pc[p] = "stat"
  /\ Goto(p, IF lock = NoLock \/ ~lock.old THEN "create" ELSE "unlink")
  /\ UNCHANGED <<lock, owned, robbed>>

(* The age of the file in the way: gone, try again; stale, remove it;      *)
(* otherwise the lock is held and the command is refused.                  *)
Stat(p) ==
  /\ pc[p] = "stat"
  /\ Goto(p, IF lock = NoLock THEN "create" ELSE IF lock.old THEN "unlink" ELSE "refused")
  /\ UNCHANGED <<lock, owned, robbed>>

(* The stale lock is removed by its path, then the create is tried again.  *)
RemoveStale(p) ==
  /\ pc[p] = "unlink"
  /\ Goto(p, "create")
  /\ Unlink(p)
  /\ UNCHANGED owned

(* The stale lock cannot be removed: the command is refused. *)
RemoveStaleFails(p) ==
  /\ pc[p] = "unlink"
  /\ lock # NoLock
  /\ Goto(p, "refused")
  /\ UNCHANGED <<lock, owned, robbed>>

(* _write_lock fills the file the create opened; the path may by now hold  *)
(* another process's file, or none, and is not changed then.               *)
WriteLock(p) ==
  /\ pc[p] = "write"
  /\ Goto(p, IF p \in Gateway THEN "snapshot" ELSE "held")
  /\ lock' = IF lock # NoLock /\ lock.by = p THEN [lock EXCEPT !.written = TRUE] ELSE lock
  /\ UNCHANGED <<owned, robbed>>

(* The identity and the bytes of the file at the lock path. *)
LockSnapshot == IF lock = NoLock THEN NoLock ELSE [lock EXCEPT !.old = FALSE]

(* operation_lock notes the file it took: by then it may be another one.   *)
Snapshot(p) ==
  /\ pc[p] = "snapshot"
  /\ Goto(p, "held")
  /\ owned' = [owned EXCEPT ![p] = LockSnapshot]
  /\ UNCHANGED <<lock, robbed>>

(* held_by_process_tree: the file names this process (or its parent). *)
HeldBy(p) == lock # NoLock /\ lock.written /\ lock.by = p

(* How a command gives the lock back: the installer's finally releases at  *)
(* once; operation_lock first compares the file with the one it took.      *)
Ending(p) == IF p \in Gateway THEN "compare" ELSE "release"

(* The check before a publish or a record write; a process the file does   *)
(* not name is refused and its command ends.                               *)
RequireLock(p) ==
  /\ pc[p] = "held"
  /\ Goto(p, IF HeldBy(p) THEN "writing" ELSE Ending(p))
  /\ UNCHANGED <<lock, owned, robbed>>

WriteRecord(p) ==
  /\ pc[p] = "writing"
  /\ Goto(p, "held")
  /\ UNCHANGED <<lock, owned, robbed>>

(* The command ends. *)
Finish(p) ==
  /\ pc[p] = "held"
  /\ Goto(p, Ending(p))
  /\ UNCHANGED <<lock, owned, robbed>>

CompareLock(p) ==
  /\ pc[p] = "compare"
  /\ Goto(p, IF LockSnapshot = owned[p] THEN "release" ELSE "done")
  /\ UNCHANGED <<lock, owned, robbed>>

(* release_lock unlinks the path without asking whose file it is. *)
Release(p) ==
  /\ pc[p] = "release"
  /\ Goto(p, "done")
  /\ Unlink(p)
  /\ UNCHANGED owned

----------------------------------------------------------------------------

(* The process dies; its lock stays. *)
Die(p) ==
  /\ pc[p] \in Waiting \cup Holding
  /\ Goto(p, "gone")
  /\ UNCHANGED <<lock, owned, robbed>>

(* stale_seconds have passed since the file was created. *)
Age ==
  /\ lock # NoLock
  /\ ~lock.old
  /\ LongCommands \/ pc[lock.by] \notin Holding
  /\ lock' = [lock EXCEPT !.old = TRUE]
  /\ UNCHANGED <<pc, owned, robbed>>

LockStep(p) ==
  \/ Create(p) \/ Stat(p) \/ RemoveStale(p) \/ RemoveStaleFails(p) \/ WriteLock(p) \/ Snapshot(p)
  \/ RequireLock(p) \/ WriteRecord(p) \/ Finish(p) \/ CompareLock(p) \/ Release(p)

(* Every command is over. *)
Ended ==
  /\ \A p \in Proc : pc[p] \in {"refused", "done", "gone"}
  /\ UNCHANGED lockVars

LockNext ==
  \/ \E p \in Proc : StartCommand(p) \/ LockStep(p) \/ Die(p)
  \/ Age
  \/ Ended

Acquire(p) == Create(p) \/ Stat(p) \/ RemoveStale(p)

LockSpec == LockInit /\ [][LockNext]_lockVars

(* A process inside acquire_lock keeps running: it waits for nothing. *)
FairLockSpec == LockSpec /\ \A p \in Proc : WF_lockVars(Acquire(p))

----------------------------------------------------------------------------

Holders == {p \in Proc : pc[p] \in Holding}

(* No two commands hold the install lock at once (install_lock.py: atomic  *)
(* installer lock with stale lock recovery).  The stale-lock removal       *)
(* breaks it.                                                              *)
Exclusion == \A p, q \in Holders : p = q

(* What the code does give: no two commands hold the lock at once as long  *)
(* as nobody removed a live holder's lock.                                 *)
ExclusionUnlessRobbed == ~robbed => Exclusion

(* A release is never the first step to remove another live holder's lock: *)
(* only a waiter that judged a lock stale can start such a chain.          *)
ReleaseNeverRobsFirst ==
  [][robbed' /\ ~robbed => \E p \in Proc : pc[p] = "unlink" /\ pc'[p] = "create"]_lockVars

(* acquire_lock calls itself again after every lost race; it still ends,   *)
(* with the lock or refused, however the others interleave.                *)
AcquireEnds == \A p \in Proc : pc[p] = "create" ~> pc[p] \notin Waiting
=============================================================================
