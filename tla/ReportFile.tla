----------------------------- MODULE ReportFile ------------------------------
(***************************************************************************)
(* writeAtomic of internal/report/write.go, one system call at a time,     *)
(* with a failure of each and a crash between any two of them.  All the    *)
(* files that draincheck writes go through it.                             *)
(***************************************************************************)
EXTENDS Naturals

CONSTANTS
    Paths,    \* the files that may be written
    Values,   \* the reports
    Absent,   \* the content of a path that does not exist
    NoPath,   \* no path
    Torn,     \* what a crash leaves of data that was not synced
    MaxFaults \* bound on the calls of writeAtomic in which something fails

ASSUME ReportFileAssumption ==
    /\ NoPath \notin Paths
    /\ Absent \notin Values
    /\ Torn \notin Values \cup {Absent}
    /\ MaxFaults \in Nat

VARIABLES
    disk,   \* what each path holds, and whether it reached the device
    writer, \* the call of writeAtomic: where it is, its temporary file, error
    faults  \* the calls of writeAtomic in which something failed

fileVars == <<disk, writer, faults>>

Idle ==
    [at |-> "idle", path |-> NoPath, value |-> Absent, synced |-> FALSE,
     error |-> FALSE]

FileInit ==
    /\ disk = [p \in Paths |-> [value |-> Absent, synced |-> TRUE]]
    /\ writer = Idle
    /\ faults = 0

\* writeAtomic(path, data) is called.
Write(p, v) ==
    /\ writer.at = "idle"
    /\ writer' = [Idle EXCEPT !.at = "directory", !.path = p, !.value = v]
    /\ UNCHANGED <<disk, faults>>

\* after a rename that failed
Fallback == writer.at \in {"stat", "remove", "retry"}

Counted ==
    /\ faults + (IF Fallback THEN 0 ELSE 1) <= MaxFaults
    /\ faults' = faults + IF Fallback THEN 0 ELSE 1

\* A system call fails, and the deferred os.Remove of the temporary file, if
\* there is one by now, is all that is left to do.
Fails ==
    /\ Counted
    /\ writer' = [writer EXCEPT !.at = "returned", !.error = TRUE]
    /\ UNCHANGED disk

\* A system call that changes no report succeeds.
Continue(at) ==
    /\ writer' = [writer EXCEPT !.at = at]
    /\ UNCHANGED <<disk, faults>>

\* os.MkdirAll and os.CreateTemp
CreateTemp ==
    /\ writer.at = "directory"
    /\ Continue("write") \/ Fails

\* file.Write
WriteTemp ==
    /\ writer.at = "write"
    /\ Continue("sync") \/ Fails

\* Mutant: the data is left in the page cache.
SyncedNot == FALSE

\* what file.Sync makes of the temporary file
Synced == TRUE

\* file.Sync
Sync ==
    /\ writer.at = "sync"
    /\ \/ /\ writer' = [writer EXCEPT !.at = "close", !.synced = Synced]
          /\ UNCHANGED <<disk, faults>>
       \/ Fails

\* file.Close
Close ==
    /\ writer.at = "close"
    /\ Continue("rename") \/ Fails

\* os.Rename puts the temporary file in the place of the report.
Place ==
    /\ disk' = [disk EXCEPT ![writer.path] =
                    [value |-> writer.value, synced |-> writer.synced]]
    /\ writer' = [writer EXCEPT !.at = "returned"]
    /\ UNCHANGED faults

\* The first os.Rename.  If it fails, os.Stat asks for the old report.
Rename ==
    /\ writer.at = "rename"
    /\ \/ Place
       \/ /\ Counted
          /\ writer' = [writer EXCEPT !.at = "stat"]
          /\ UNCHANGED disk

Exists == disk[writer.path].value # Absent

\* if _, statErr := os.Stat(path); statErr != nil
Stat ==
    /\ writer.at = "stat"
    /\ \/ Exists /\ Continue("remove")
       \/ /\ ~Exists
          /\ writer' = [writer EXCEPT !.at = "returned", !.error = TRUE]
          /\ UNCHANGED <<disk, faults>>
       \/ Fails

\* os.Remove(path)
RemoveOld ==
    /\ writer.at = "remove"
    /\ \/ /\ disk' = [disk EXCEPT ![writer.path] =
                          [value |-> Absent, synced |-> TRUE]]
          /\ writer' = [writer EXCEPT !.at = "retry"]
          /\ UNCHANGED faults
       \/ Fails

\* the second os.Rename
RetryRename ==
    /\ writer.at = "retry"
    /\ Place \/ Fails

WriterStep ==
    \/ CreateTemp \/ WriteTemp \/ Sync \/ Close
    \/ Rename \/ Stat \/ RemoveOld \/ RetryRename

\* The caller has looked at the error.
Collect ==
    /\ writer.at = "returned"
    /\ writer' = Idle
    /\ UNCHANGED <<disk, faults>>

(***************************************************************************)
(* The process or the machine dies.  Temporary files have fresh names and  *)
(* are never read, so that those left behind need no state; a report whose *)
(* data had not reached the device may be torn.                            *)
(***************************************************************************)
Tear ==
    \E torn \in SUBSET {p \in Paths : ~disk[p].synced} :
        disk' = [p \in Paths |->
                    IF p \in torn THEN [value |-> Torn, synced |-> TRUE]
                    ELSE disk[p]]

FileCrash ==
    /\ Tear
    /\ writer' = Idle
    /\ UNCHANGED faults

FileNext ==
    \/ \E p \in Paths, v \in Values : Write(p, v)
    \/ WriterStep
    \/ Collect
    \/ FileCrash

FileSpec == FileInit /\ [][FileNext]_fileVars

------------------------------------------------------------------------------
\* Properties

WriterAt ==
    {"idle", "directory", "write", "sync", "close", "rename", "stat", "remove",
     "retry", "returned"}

\* The types of the variables.
FileTypeOK ==
    /\ disk \in [Paths -> [value : Values \cup {Absent, Torn}, synced : BOOLEAN]]
    /\ writer \in [at : WriterAt, path : Paths \cup {NoPath},
                   value : Values \cup {Absent}, synced : BOOLEAN,
                   error : BOOLEAN]
    /\ writer.at # "idle" => writer.path \in Paths /\ writer.value \in Values
    /\ faults \in 0..MaxFaults

\* how the contract sees the call
CallState ==
    CASE writer.at = "idle" -> "none"
      [] writer.at = "returned" -> IF writer.error THEN "error" ELSE "nil"
      [] OTHER -> "called"

(***************************************************************************)
(* writeAtomic implements the contract of AtomicFile: whatever fails and   *)
(* wherever the process dies, a path holds nothing or a whole report that  *)
(* was written to it, never a part of one; and nil is returned exactly if  *)
(* the new report is in place.                                             *)
(***************************************************************************)
Contract == INSTANCE AtomicFile WITH
    content <- [p \in Paths |-> disk[p].value],
    call <- [state |-> CallState, path |-> writer.path, value |-> writer.value]

ImplementsAtomicFile == Contract!Spec
=============================================================================
