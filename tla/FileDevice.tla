----------------------------- MODULE FileDevice -----------------------------
(***************************************************************************)
(* One file device of a channel (fn_out_file_device.h) and the log files   *)
(* it leaves on disk (filehandler.cpp): when the file is closed and opened *)
(* anew, and what FileHandler::rollback then does to path, path.1, path.2. *)
(* The channel's thread runs a device alone, so handling one log is one    *)
(* step.  Files hold sets of log numbers; a log is known by its timestamp  *)
(* and its length.  A day has DAY time units and RETRY stands for the five *)
(* seconds a failed open is not repeated.  Renaming and removing succeed.  *)
(***************************************************************************)
EXTENDS Integers, Sequences, FiniteSetsExt

CONSTANTS
  DAY, RETRY,
  Limits,       \* values of limit_size
  Rollbacks,    \* values of rollback
  Lengths,      \* lengths of logs
  MaxTime,      \* bound: the clock stops there
  MaxLogs,      \* bound: logs handed to the device
  MaxFailures,  \* bound: failing opens and writes
  MaxRestarts   \* bound: stops and crashes

ASSUME TimeAssumption == RETRY \in Nat /\ DAY \in Nat \ {0} /\ RETRY <= DAY
                         /\ MaxTime \in Nat /\ DAY <= MaxTime
ASSUME ConfigAssumption == Limits \cup Rollbacks \subseteq Nat /\ Lengths \subseteq Nat \ {0}

VARIABLES
  config,     \* the device's options; dated: its file's name contains the day
  clock,      \* the system's time
  logs,       \* history: the logs handed to the device
  disk,       \* the files: <<name, depth>> with the numbers of their logs
  writer,     \* name of the open file, or NoFile
  unflushed,  \* logs fwrite has taken and no flush or close has followed
  fields,     \* log_fields_ of the device
  failures, restarts   \* history

vars == <<config, clock, logs, disk, writer, unflushed, fields, failures, restarts>>

NoFile == -1
NoFields == [size |-> 0, create_day |-> 0, last_try |-> 0, error |-> 0, line |-> 0, byte |-> 0]

Init ==
  /\ config \in [limit : Limits, rollback : Rollbacks, stuff_up : BOOLEAN, dated : BOOLEAN]
  /\ clock = DAY
  /\ logs = <<>>
  /\ disk = <<>>
  /\ writer = NoFile
  /\ unflushed = {}
  /\ fields = NoFields
  /\ failures = 0 /\ restarts = 0

-----------------------------------------------------------------------------
(* Time, names, sizes *)

Day(ts) == ts \div DAY
Name(ts) == IF config.dated THEN Day(ts) ELSE 0
Size(ids) == MapThenSumSet(LAMBDA n : logs[n].len, ids)

(* A file that is not there is created by fopen.                           *)
Created(d, name) ==
  [f \in DOMAIN d \cup {<<name, 0>>} |-> IF f \in DOMAIN d THEN d[f] ELSE {}]

(* FileHandler::rollback(path, 1, limit_roll): the files path, path.1, ... *)
(* up to the first that is missing move up by one; the last is removed.    *)
LimitRoll == IF config.rollback > 0 THEN config.rollback ELSE 1
Unbroken(d, name, depth) == \A i \in 0 .. depth : <<name, i>> \in DOMAIN d
\* Slips ("slip" marks a defect a change to the code could bring in; Next uses
\* none): the file overwrites path.1; it becomes the first free number; the
\* last backup is not removed.
RolledOver(d, name) ==
  IF <<name, 0>> \notin DOMAIN d THEN d
  ELSE [f \in (DOMAIN d \ {<<name, 0>>}) \cup {<<name, 1>>} |->
          IF f = <<name, 1>> THEN d[<<name, 0>>] ELSE d[f]]
RolledToFree(d, name) ==
  IF <<name, 0>> \notin DOMAIN d THEN d
  ELSE LET free == CHOOSE i \in 1 .. MaxLogs + 1 :
                     <<name, i>> \notin DOMAIN d /\ Unbroken(d, name, i - 1)
       IN [f \in (DOMAIN d \ {<<name, 0>>}) \cup {<<name, free>>} |->
             IF f = <<name, free>> THEN d[<<name, 0>>] ELSE d[f]]
RolledUnbounded(d, name) ==
  LET chain == {i \in 0 .. MaxLogs : Unbroken(d, name, i)}
      files == (DOMAIN d \ {<<name, 0>>}) \cup {<<name, i + 1>> : i \in chain}
  IN [f \in files |-> IF f[1] = name /\ f[2] - 1 \in chain THEN d[<<name, f[2] - 1>>] ELSE d[f]]

Rolled(d, name) ==
  LET chain == {i \in 0 .. LimitRoll : Unbroken(d, name, i)}
      files == (DOMAIN d \ ({name} \X chain)) \cup {<<name, i + 1>> : i \in chain \ {LimitRoll}}
  IN [f \in files |-> IF f[1] = name /\ f[2] - 1 \in chain THEN d[<<name, f[2] - 1>>] ELSE d[f]]

(* When OpenFileDevice gives up the open file.                             *)
\* Slips: only later days count; the length of the log does not.
SameDayOrEarlier(ts) == ts < fields.create_day + DAY
FileFull(len) ==
  config.limit > 0 /\ config.rollback > 0 /\ fields.size > config.limit
SameDay(ts) == fields.create_day <= ts /\ ts < fields.create_day + DAY
FileOver(len) ==
  config.limit > 0 /\ config.rollback > 0 /\ fields.size + len > config.limit
Closing(ts, len) == FileOver(len) \/ (~SameDay(ts) /\ ~config.stuff_up)
KeepsOpen(ts, len) == writer # NoFile /\ ~Closing(ts, len)

-----------------------------------------------------------------------------
(* EnterProcOutFileDevice *)

Handed(ts, len) ==
  /\ Len(logs) < MaxLogs
  /\ logs' = Append(logs, [ts |-> ts, len |-> len])
  /\ UNCHANGED <<config, clock, restarts>>

(* What may be left of a file when buffered logs are lost: a prefix.       *)
Survivors(ids, buffered) == {{n \in ids : n \notin buffered \/ n < k} : k \in 1 .. Len(logs) + 1}

(* FileHandler::write closes the file when fwrite fails; the counters do   *)
(* not notice.                                                             *)
Write(d, name, f, buffered, len) ==
  LET new == Len(logs) + 1 IN
  /\ fields' = [f EXCEPT !.line = @ + 1, !.byte = @ + len, !.size = @ + len]
  /\ \/ /\ disk' = [d EXCEPT ![<<name, 0>>] = @ \cup {new}]
        /\ writer' = name /\ unflushed' = buffered \cup {new}
        /\ UNCHANGED failures
     \/ /\ failures < MaxFailures /\ failures' = failures + 1
        /\ \E kept \in Survivors(d[<<name, 0>>], buffered) : disk' = [d EXCEPT ![<<name, 0>>] = kept]
        /\ writer' = NoFile /\ unflushed' = {}

(* The last open failed less than RETRY ago: the log is dropped.           *)
Waits(ts) == writer = NoFile /\ fields.last_try + RETRY > ts
Drop(ts, len) ==
  /\ Waits(ts) /\ Handed(ts, len)
  /\ UNCHANGED <<disk, writer, unflushed, fields, failures>>

WriteOpen(ts, len) ==
  /\ KeepsOpen(ts, len) /\ Handed(ts, len)
  /\ Write(disk, writer, fields, unflushed, len)

(* The disk when fopen is called.                                          *)
Prepared(ts, len) ==
  IF (config.rollback > 0 \/ config.limit > 0) /\ (~config.stuff_up \/ FileOver(len))
  THEN Rolled(disk, Name(ts)) ELSE disk

\* Slip: what fstat says of the opened file is ignored.
OpenAndWriteUnsized(ts, len) ==
  /\ ~Waits(ts) /\ ~KeepsOpen(ts, len) /\ Handed(ts, len)
  /\ LET d == Created(Prepared(ts, len), Name(ts))
         f == [fields EXCEPT !.create_day = Day(ts) * DAY, !.last_try = 0, !.error = 0]
     IN Write(d, Name(ts), f, {}, len)

OpenAndWrite(ts, len) ==
  /\ ~Waits(ts) /\ ~KeepsOpen(ts, len) /\ Handed(ts, len)
  /\ LET d == Created(Prepared(ts, len), Name(ts))
         f == [fields EXCEPT !.size = Size(d[<<Name(ts), 0>>]), !.create_day = Day(ts) * DAY,
                             !.last_try = 0, !.error = 0]
     IN Write(d, Name(ts), f, {}, len)

\* Slip: the handle of the closed file is kept.
OpenFailsOpen(ts, len) ==
  /\ ~Waits(ts) /\ ~KeepsOpen(ts, len) /\ Handed(ts, len)
  /\ failures < MaxFailures /\ failures' = failures + 1
  /\ disk' = Prepared(ts, len)
  /\ unflushed' = {}
  /\ fields' = [fields EXCEPT !.last_try = ts, !.error = 2]
  /\ UNCHANGED writer

OpenFails(ts, len) ==
  /\ ~Waits(ts) /\ ~KeepsOpen(ts, len) /\ Handed(ts, len)
  /\ failures < MaxFailures /\ failures' = failures + 1
  /\ disk' = Prepared(ts, len)
  /\ writer' = NoFile /\ unflushed' = {}
  /\ fields' = [fields EXCEPT !.size = IF Closing(ts, len) THEN 0 ELSE @,
                              !.last_try = ts, !.error = 2]

-----------------------------------------------------------------------------
(* The channel's thread flushes when the ring is empty.                    *)
Flush ==
  /\ unflushed # {} /\ unflushed' = {}
  /\ UNCHANGED <<config, clock, logs, disk, writer, fields, failures, restarts>>

(* StopLogger closes the files; the next start keeps log_fields_.          *)
Close ==
  /\ restarts < MaxRestarts /\ restarts' = restarts + 1
  /\ writer' = NoFile /\ unflushed' = {}
  /\ UNCHANGED <<config, clock, logs, disk, fields, failures>>

(* The process dies; log_fields_ survive in shared memory or are new.      *)
Crash ==
  /\ restarts < MaxRestarts /\ restarts' = restarts + 1
  /\ IF writer = NoFile THEN UNCHANGED disk
     ELSE \E kept \in Survivors(disk[<<writer, 0>>], unflushed) :
            disk' = [disk EXCEPT ![<<writer, 0>>] = kept]
  /\ fields' \in {fields, NoFields}
  /\ writer' = NoFile /\ unflushed' = {}
  /\ UNCHANGED <<config, clock, logs, failures>>

Tick ==
  /\ clock < MaxTime /\ clock' = clock + 1
  /\ UNCHANGED <<config, logs, disk, writer, unflushed, fields, failures, restarts>>

(* Slots are claimed before they are stamped, so a log may be stamped      *)
(* later than the one behind it.                                           *)
Stamps == {clock, IF clock > DAY THEN clock - 1 ELSE clock}

LogTo(ts, len) ==
  Drop(ts, len) \/ WriteOpen(ts, len) \/ OpenAndWrite(ts, len) \/ OpenFails(ts, len)

Next ==
  \/ \E ts \in Stamps, len \in Lengths : LogTo(ts, len)
  \/ Flush \/ Close \/ Crash \/ Tick

Spec == Init /\ [][Next]_vars

-----------------------------------------------------------------------------
OnDisk == UNION {disk[f] : f \in DOMAIN disk}

TypeOK ==
  /\ config \in [limit : Limits, rollback : Rollbacks, stuff_up : BOOLEAN, dated : BOOLEAN]
  /\ clock \in DAY .. MaxTime
  /\ logs \in Seq([ts : DAY .. MaxTime, len : Lengths])
  /\ DOMAIN disk \subseteq Nat \X Nat
  /\ disk \in [DOMAIN disk -> SUBSET DOMAIN logs]
  /\ writer = NoFile \/ <<writer, 0>> \in DOMAIN disk
  /\ unflushed \subseteq (IF writer = NoFile THEN {} ELSE disk[<<writer, 0>>])
  /\ fields \in [size : Nat, create_day : Nat, last_try : Nat, error : {0, 2}, line : Nat, byte : Nat]

(* The device knows the size of the file it writes to: after reopening a   *)
(* file left by a stop, a crash or a failed write too.                     *)
SizeKnown == writer # NoFile => fields.size = Size(disk[<<writer, 0>>])

(* Read from the highest backup down to the file itself, the files of one  *)
(* name give the logs in the order in which the device got them.           *)
FilesInOrder ==
  \A f, g \in DOMAIN disk :
    f[1] = g[1] /\ f[2] > g[2] => \A m \in disk[f], n \in disk[g] : m < n

(* A file with more than one log keeps within limit_size, unless stuff_up  *)
(* lets a new process add to a file whose size it does not know yet.       *)
SizeLimited ==
  config.limit > 0 /\ config.rollback > 0 /\ ~config.stuff_up =>
    \A f \in DOMAIN disk : Cardinality(disk[f]) > 1 => Size(disk[f]) <= config.limit

(* Without stuff_up a file holds the logs of one day, also when logs come  *)
(* out of order around midnight.                                           *)
OneDayPerFile ==
  ~config.stuff_up /\ (config.rollback > 0 \/ config.limit > 0 \/ config.dated) =>
    \A f \in DOMAIN disk : \A m, n \in disk[f] : Day(logs[m].ts) = Day(logs[n].ts)

(* There are never more backups than rollback allows: none if the device   *)
(* has neither rollback nor limit_size, one if it has only limit_size.     *)
BackupsBounded ==
  \A f \in DOMAIN disk :
    f[2] <= IF config.rollback > 0 THEN config.rollback
            ELSE IF config.limit > 0 THEN 1 ELSE 0

(* A log that reached a file is lost only with the last of a full set of   *)
(* backups, or with the buffer of a file whose process or write failed.    *)
LastBackup(n) ==
  \E f \in DOMAIN disk : n \in disk[f] /\ f[2] = LimitRoll /\ Unbroken(disk, f[1], LimitRoll)
KeptUntilRolledOut ==
  [][\A n \in OnDisk \ OnDisk' : LastBackup(n) \/ n \in unflushed]_vars

=============================================================================
