----------------------------- MODULE SharedLog -----------------------------
(***************************************************************************)
(* A log that several processes append to: append, _append_once and the    *)
(* line-count and size-rotation rules of _shared/state_retention.py under  *)
(* the lock of _shared/file_lock.py.                                       *)
(*                                                                         *)
(* The flock belongs to an inode and the log to a path, so both are kept:  *)
(* a rotation gives the path another inode while writers wait for the old  *)
(* one.  Every system call that another process can come between is a step *)
(* of its own; the open of _append_once and its read of the last byte are  *)
(* one.  A process is one call of append.  Bytes are tokens: the line of p *)
(* is p, p, Newline, which is long enough to be cut in two places.         *)
(***************************************************************************)
EXTENDS Naturals, Sequences, FiniteSets, SequencesExt

CONSTANTS
  Proc,      \* the calls of append
  Newline,   \* the byte that ends a line
  NoFile,    \* no file at a path
  NoOne,     \* no holder of a lock
  Logs       \* the logs considered: the rule and where they are

(* method: the rule, "none" when the caller sets apply_rule to FALSE.      *)
(* limit: lines (line-count) or bytes (size-rotation) the rule leaves      *)
(* alone.  keep: lines left after a trim.  canLock: FALSE without fcntl or *)
(* on a file system that refuses flock.  faults: what may go wrong.        *)
Fault == {"timeout", "short", "rule", "died", "hung"}
LogKind == [method : {"none", "line-count", "size-rotation"}, limit : Nat, keep : Nat \ {0},
            canLock : BOOLEAN, faults : SUBSET Fault]

ASSUME LogAssumption ==
  /\ Logs \subseteq LogKind
  /\ \A l \in Logs : l.method = "line-count" => l.keep <= l.limit
  /\ \A l \in Logs : l.method = "size-rotation" => l.limit >= 3   \* a line: limits are megabytes
  /\ IsFiniteSet(Proc) /\ NoOne \notin Proc /\ Newline \notin Proc
  /\ NoFile \notin Nat

VARIABLES
  log,       \* which log it is
  pc,        \* where each call is
  made,      \* number of inodes created
  data,      \* the bytes of each inode
  path,      \* the inode at the log's path
  previous,  \* the inode at the path with .1
  holder,    \* who holds the flock of each inode
  fd,        \* the inode whose lock a call waits for or holds
  out,       \* the inode a call writes to, and how much it has to write
  faults,    \* history: what went wrong
  written    \* history: whose lines were written in full, in order

logVars == <<log, pc, made, data, path, previous, holder, fd, out, faults, written>>

Method == log.method
Limit == log.limit
Keep == log.keep
CanLock == log.canLock
Faults == log.faults

files == <<made, data, path, previous>>

(* Bound: the log, and for each call a previous file and, the path being   *)
(* free after its rotation, another log.                                   *)
MaxInode == 2 * Cardinality(Proc) + 1
Inode == 1 .. MaxInode
Bytes == Seq(Proc \cup {Newline})

(* Places with the lock, where the file at the path is the locked one. *)
Critical == {"append", "write", "rule", "truncate", "rewrite", "replace", "tail", "unlink"}
Place == Critical \cup {"start", "open", "wait", "check", "unlocked", "late", "leave", "done", "hung", "gone"}

LogTypeOK ==
  /\ log \in Logs
  /\ pc \in [Proc -> Place]
  /\ made \in 0 .. MaxInode
  /\ data \in [Inode -> Bytes]
  /\ path \in Inode \cup {NoFile}
  /\ previous \in Inode \cup {NoFile}
  /\ holder \in [Inode -> Proc \cup {NoOne}]
  /\ fd \in [Proc -> Inode \cup {NoFile}]
  /\ out \in [Proc -> [inode : Inode \cup {NoFile}, bytes : Bytes, size : Nat]]
  /\ faults \subseteq Fault
  /\ written \in Seq(Proc)
  /\ \A p \in Proc : pc[p] \in {"wait", "check"} => fd[p] # NoFile

Nothing == [inode |-> NoFile, bytes |-> <<>>, size |-> 0]

(* The log may be there already, with the end of an earlier line. *)
LogInit ==
  /\ log \in Logs
  /\ pc = [p \in Proc |-> "start"]
  /\ path \in {NoFile, 1}
  /\ made = IF path = NoFile THEN 0 ELSE 1
  /\ data = [i \in Inode |-> IF i = path THEN <<Newline>> ELSE <<>>]
  /\ previous = NoFile
  /\ holder = [i \in Inode |-> NoOne]
  /\ fd = [p \in Proc |-> NoFile]
  /\ out = [p \in Proc |-> Nothing]
  /\ faults = {}
  /\ written = <<>>

Goto(p, place) == pc' = [pc EXCEPT ![p] = place]
Failed(fault) == fault \in Faults /\ faults' = faults \cup {fault}

(* Closing the descriptors gives the lock back. *)
Close(p) ==
  /\ holder' = [i \in Inode |-> IF holder[i] = p THEN NoOne ELSE holder[i]]
  /\ fd' = [fd EXCEPT ![p] = NoFile]
  /\ out' = [out EXCEPT ![p] = Nothing]

(* open with O_CREAT. *)
OpenOrCreate ==
  IF path = NoFile
    THEN /\ made < MaxInode
         /\ made' = made + 1
         /\ path' = made + 1
    ELSE UNCHANGED <<made, path>>

----------------------------------------------------------------------------
(* file_lock.exclusive *)

Start(p) ==
  /\ pc[p] = "start"
  /\ Goto(p, IF CanLock THEN "open" ELSE "append")
  /\ UNCHANGED <<files, holder, fd, out, faults, written>>

OpenToLock(p) ==
  /\ pc[p] = "open"
  /\ OpenOrCreate
  /\ fd' = [fd EXCEPT ![p] = path']
  /\ Goto(p, "wait")
  /\ UNCHANGED <<data, previous, holder, out, faults, written>>

Lock(p) ==
  /\ pc[p] = "wait"
  /\ holder[fd[p]] = NoOne
  /\ holder' = [holder EXCEPT ![fd[p]] = p]
  /\ Goto(p, "check")
  /\ UNCHANGED <<files, fd, out, faults, written>>

(* Mutant of TimeOut: a writer whose time is over tries again. *)
TriesAgain(p) ==
  /\ pc[p] = "wait"
  /\ holder[fd[p]] # NoOne
  /\ Goto(p, "open")
  /\ UNCHANGED <<files, holder, fd, out, faults, written>>

(* The lock stays held past LOCK_WAIT_S: append goes on without it. *)
TimeOut(p) ==
  /\ pc[p] = "wait"
  /\ holder[fd[p]] # NoOne
  /\ Failed("timeout")
  /\ Goto(p, "unlocked")
  /\ UNCHANGED <<files, holder, fd, out, written>>

(* Mutant of Recheck: the lock of a file that was rotated away will do. *)
AnyLockWillDo(p) ==
  /\ pc[p] = "check"
  /\ Goto(p, "append")
  /\ UNCHANGED <<files, holder, fd, out, faults, written>>

(* The file may have been rotated while this writer waited. *)
Recheck(p) ==
  /\ pc[p] = "check"
  /\ IF path = fd[p]
       THEN Goto(p, "append") /\ UNCHANGED <<holder, fd, out>>
       ELSE Goto(p, "open") /\ Close(p)
  /\ UNCHANGED <<files, faults, written>>

----------------------------------------------------------------------------
(* _append_once *)

(* What p appends to a file with these bytes: its line, and first the end  *)
(* of a line that was cut.                                                 *)
LineFor(p, before) ==
  IF before # <<>> /\ Last(before) # Newline THEN <<Newline, p, p, Newline>> ELSE <<p, p, Newline>>

(* Opens the file now at the path and reads its last byte. *)
OpenToAppend(p) ==
  /\ pc[p] \in {"append", "unlocked"}
  /\ OpenOrCreate
  /\ out' = [out EXCEPT ![p] = [inode |-> path', bytes |-> LineFor(p, data[path']), size |-> Len(data[path'])]]
  /\ Goto(p, IF pc[p] = "append" THEN "write" ELSE "late")
  /\ UNCHANGED <<data, previous, holder, fd, faults, written>>

(* One append-mode write: at the end of the file, wherever that is by now. *)
WriteAt(p, bytes) == data' = [data EXCEPT ![out[p].inode] = @ \o bytes]

(* The line is written in full; a caller without a rule, or without the    *)
(* lock, has nothing more to do.                                           *)
Write(p) ==
  /\ pc[p] \in {"write", "late"}
  /\ WriteAt(p, out[p].bytes)
  /\ written' = Append(written, p)
  /\ Goto(p, IF pc[p] = "write" /\ Method # "none" THEN "rule" ELSE "leave")
  /\ UNCHANGED <<made, path, previous, holder, fd, out, faults>>

(* The system takes only a part of the line (a full disk): the write       *)
(* raises, the failure is recorded and the rule is not applied.            *)
ShortWrite(p) ==
  /\ pc[p] \in {"write", "late"}
  /\ Failed("short")
  /\ \E n \in 0 .. Len(out[p].bytes) - 1 : WriteAt(p, SubSeq(out[p].bytes, 1, n))
  /\ Goto(p, "leave")
  /\ UNCHANGED <<made, path, previous, holder, fd, out, written>>

----------------------------------------------------------------------------
(* apply: the line count *)

Ends(bytes) == {i \in DOMAIN bytes : bytes[i] = Newline}
LineCount(bytes) == Cardinality(Ends(bytes))
Rest(bytes, end) == SubSeq(bytes, end + 1, Len(bytes))

(* The newest complete lines and what follows the last of them. *)
KeptLines(bytes) ==
  Rest(bytes, CHOOSE end \in Ends(bytes) : Cardinality({i \in Ends(bytes) : i > end}) = Keep)

ReadLines(p) ==
  /\ pc[p] = "rule" /\ Method = "line-count"
  /\ IF path # NoFile /\ LineCount(data[path]) > Limit
       THEN out' = [out EXCEPT ![p].bytes = KeptLines(data[path])] /\ Goto(p, "truncate")
       ELSE UNCHANGED out /\ Goto(p, "leave")
  /\ UNCHANGED <<files, holder, fd, faults, written>>

(* write_bytes opens the file for writing, which empties it ... *)
Truncate(p) ==
  /\ pc[p] = "truncate"
  /\ OpenOrCreate
  /\ data' = [data EXCEPT ![path'] = <<>>]
  /\ out' = [out EXCEPT ![p].inode = path']
  /\ Goto(p, "rewrite")
  /\ UNCHANGED <<previous, holder, fd, faults, written>>

(* ... and writes from its start, over what others appended meanwhile.     *)
Overwrite(p, bytes) ==
  data' = [data EXCEPT ![out[p].inode] = bytes \o SubSeq(@, Len(bytes) + 1, Len(@))]

WriteKept(p) ==
  /\ pc[p] = "rewrite"
  /\ Overwrite(p, out[p].bytes)
  /\ Goto(p, "leave")
  /\ UNCHANGED <<made, path, previous, holder, fd, out, faults, written>>

(* The write fails part of the way: apply records it and goes on.          *)
RewriteFails(p) ==
  /\ pc[p] = "rewrite"
  /\ Failed("rule")
  /\ \E n \in 0 .. Len(out[p].bytes) - 1 : Overwrite(p, SubSeq(out[p].bytes, 1, n))
  /\ Goto(p, "leave")
  /\ UNCHANGED <<made, path, previous, holder, fd, out, written>>

----------------------------------------------------------------------------
(* apply: the size rotation *)

StatSize(p) ==
  /\ pc[p] = "rule" /\ Method = "size-rotation"
  /\ LET size == IF path = NoFile THEN 0 ELSE Len(data[path])
     IN  Goto(p, IF size <= Limit THEN "leave" ELSE IF size > 2 * Limit THEN "tail" ELSE "replace")
  /\ UNCHANGED <<files, holder, fd, out, faults, written>>

(* The log becomes the previous file; the path is free.  A rotation that   *)
(* finds no file is recorded.                                              *)
Rotate(p) ==
  /\ pc[p] = "replace"
  /\ IF path = NoFile
       THEN UNCHANGED <<path, previous>> /\ faults' = faults \cup {"rule"}
       ELSE path' = NoFile /\ previous' = path /\ UNCHANGED faults
  /\ Goto(p, "leave")
  /\ UNCHANGED <<made, data, holder, fd, out, written>>

(* Mutant of NewestLines: the window does not hold the end of the line     *)
(* before it.                                                              *)
NewestWithoutEnd(bytes) ==
  LET ends == {i \in Ends(bytes) : i > Len(bytes) - Limit}
  IN  IF ends = {} THEN <<>> ELSE Rest(bytes, Min(ends))

(* The complete lines within the last Limit bytes, and the byte before     *)
(* them, which may end another line.                                       *)
NewestLines(bytes) ==
  LET ends == {i \in Ends(bytes) : i >= Len(bytes) - Limit}
  IN  IF ends = {} THEN <<>> ELSE Rest(bytes, Min(ends))

(* A file far past its limit: its newest lines become the previous file,   *)
(* in one rename of a new file.                                            *)
WriteTail(p) ==
  /\ pc[p] = "tail"
  /\ IF path = NoFile
       THEN UNCHANGED <<made, data, previous>> /\ faults' = faults \cup {"rule"} /\ Goto(p, "leave")
       ELSE /\ made < MaxInode
            /\ made' = made + 1
            /\ previous' = made + 1
            /\ data' = [data EXCEPT ![made + 1] = NewestLines(data[path])]
            /\ UNCHANGED faults
            /\ Goto(p, "unlink")
  /\ UNCHANGED <<path, holder, fd, out, written>>

(* The log itself goes. *)
UnlinkLog(p) ==
  /\ pc[p] = "unlink"
  /\ path' = NoFile
  /\ Goto(p, "leave")
  /\ UNCHANGED <<made, data, previous, holder, fd, out, faults, written>>

(* A system call of the rule fails: apply records it. *)
RuleFails(p) ==
  /\ pc[p] \in {"rule", "truncate", "replace", "tail", "unlink"}
  /\ Failed("rule")
  /\ Goto(p, "leave")
  /\ UNCHANGED <<files, holder, fd, out, written>>

----------------------------------------------------------------------------

Leave(p) ==
  /\ pc[p] = "leave"
  /\ Close(p)
  /\ Goto(p, "done")
  /\ UNCHANGED <<files, faults, written>>

(* A process that ends between the two halves of a trim or of a tail       *)
(* rotation leaves the log incomplete.                                     *)
Abandoned(p, fault) ==
  /\ fault \in Faults
  /\ faults' = IF pc[p] \in {"rewrite", "unlink"} THEN faults \cup {fault} ELSE faults

(* The process is killed: the kernel closes its descriptors. *)
Die(p) ==
  /\ pc[p] \notin {"start", "done", "hung", "gone"}
  /\ Abandoned(p, "died")
  /\ Close(p)
  /\ Goto(p, "gone")
  /\ UNCHANGED <<files, written>>

(* The process stops while it holds the lock, which stays held. *)
Hang(p) ==
  /\ pc[p] \in Critical \cup {"check", "leave"}
  /\ Abandoned(p, "hung")
  /\ Goto(p, "hung")
  /\ UNCHANGED <<files, holder, fd, out, written>>

Exclusive(p) == OpenToLock(p) \/ Lock(p) \/ TimeOut(p) \/ Recheck(p)
AppendOnce(p) == OpenToAppend(p) \/ Write(p) \/ ShortWrite(p)
Apply(p) ==
  \/ ReadLines(p) \/ Truncate(p) \/ WriteKept(p) \/ RewriteFails(p)
  \/ StatSize(p) \/ Rotate(p) \/ WriteTail(p) \/ UnlinkLog(p) \/ RuleFails(p)

LogStep(p) == Exclusive(p) \/ AppendOnce(p) \/ Apply(p) \/ Leave(p)

(* Every call is over. *)
Ended ==
  /\ \A p \in Proc : pc[p] \in {"done", "hung", "gone"}
  /\ UNCHANGED logVars

LogNext ==
  \/ \E p \in Proc : (Start(p) \/ LogStep(p) \/ Die(p) \/ Hang(p)) /\ UNCHANGED log
  \/ Ended

LogSpec == LogInit /\ [][LogNext]_logVars

(* A call that began keeps running unless its process dies or stops. *)
FairLogSpec == LogSpec /\ \A p \in Proc : WF_logVars(LogStep(p) /\ UNCHANGED log)
----------------------------------------------------------------------------

BytesAt(file) == IF file = NoFile THEN <<>> ELSE data[file]

(* The previous file and the log, read one after the other. *)
Text == BytesAt(previous) \o BytesAt(path)

(* A complete line of p ends at i. *)
LineEnds(bytes, i, p) ==
  /\ i \in 3 .. Len(bytes) /\ bytes[i - 2] = p /\ bytes[i - 1] = p /\ bytes[i] = Newline
  /\ i = 3 \/ bytes[i - 3] = Newline

(* Where a reader finds the line of p. *)
Found(p) == {i \in DOMAIN Text : LineEnds(Text, i, p)}

(* Nobody is between the two halves of a trim or of a tail rotation. *)
Settled == \A p \in Proc : pc[p] \notin {"rewrite", "unlink"}

(* The rules and the writes that need the lock have it alone, for the file *)
(* that is at the path: the recheck of file_lock.exclusive makes it so     *)
(* although the log is rotated under the waiting writers.                  *)
OneWriter ==
  CanLock => \A p, q \in Proc : pc[p] \in Critical /\ pc[q] \in Critical => p = q

(* The log never loses a line that was written in full while an older one  *)
(* stays, shows none twice and never changes their order, for locked       *)
(* writers, whatever part of a line a full disk cut; the newest one is     *)
(* there, and a line count removes nothing before there are Keep lines.    *)
NewestKept ==
  CanLock /\ Settled /\ faults \subseteq {"short"} =>
    /\ \A k, l \in DOMAIN written : \A i \in Found(written[k]), j \in Found(written[l]) : k < l <=> i < j
    /\ \A k, l \in DOMAIN written : k < l /\ Found(written[k]) # {} => Found(written[l]) # {}
    /\ written # <<>> => Found(Last(written)) # {}
    /\ Method = "line-count" =>
         LineCount(Text) >= Keep \/ \A k \in DOMAIN written : Found(written[k]) # {}

(* A holder that stopped never stops the writers behind it (file_lock.py): *)
(* every call of append ends.                                              *)
AppendEnds == \A p \in Proc : pc[p] = "open" ~> pc[p] \in {"done", "hung", "gone"}
=============================================================================
