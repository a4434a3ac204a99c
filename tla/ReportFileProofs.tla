-------------------------- MODULE ReportFileProofs ---------------------------
(***************************************************************************)
(* Proofs about writeAtomic, for every set of paths and reports and any    *)
(* number of failures: it implements the contract of AtomicFile.  The      *)
(* inductive invariant says that only synced data is ever renamed, so that *)
(* a crash finds nothing it could tear.                                    *)
(***************************************************************************)
EXTENDS ReportFile, TLAPS

\* Every report on disk has reached the device.
DiskInv == \A p \in Paths : disk[p].synced /\ disk[p].value # Torn

\* The temporary file is synced before it is closed; an error is only set on
\* the way out; and between two calls nothing is left of the last one.
WriterInv ==
    /\ writer.at \in {"close", "rename", "stat", "remove", "retry"} => writer.synced
    /\ writer.at # "returned" => ~writer.error
    /\ writer.at = "idle" => writer = Idle

FileInv == FileTypeOK /\ DiskInv /\ WriterInv

LEMMA FileInvInit == FileInit => FileInv
  BY ReportFileAssumption
  DEF FileInit, FileInv, FileTypeOK, DiskInv, WriterInv, Idle, WriterAt

\* Nothing is torn if everything is synced.
LEMMA NothingToTear == FileInv /\ Tear => disk' = disk
<1> SUFFICES ASSUME FileInv, Tear PROVE disk' = disk
  OBVIOUS
<1>1. {p \in Paths : ~disk[p].synced} = {}
  BY DEF FileInv, DiskInv
<1>2. disk' = [p \in Paths |-> disk[p]]
  BY <1>1 DEF Tear
<1>3. QED BY <1>2 DEF FileInv, FileTypeOK

\* What a failing call does to the writer.
LEMMA FailsKeepsInv ==
    ASSUME FileInv, Fails, writer.at # "idle" PROVE FileInv'
<1>1. faults' \in 0..MaxFaults
  BY ReportFileAssumption DEF Fails, Counted, FileInv, FileTypeOK
<1>2. writer' = [writer EXCEPT !.at = "returned", !.error = TRUE] /\ disk' = disk
  BY DEF Fails
<1>3. QED
  BY <1>1, <1>2 DEF FileInv, FileTypeOK, DiskInv, WriterInv, WriterAt

\* What a successful rename does.
LEMMA PlaceKeepsInv ==
    ASSUME FileInv, Place, writer.at \in {"rename", "retry"} PROVE FileInv'
<1> USE DEF Place, FileInv, FileTypeOK, DiskInv, WriterInv, WriterAt
<1>1. writer.path \in Paths /\ writer.value \in Values /\ writer.synced
  OBVIOUS
<1>2. disk' \in [Paths -> [value : Values \cup {Absent, Torn}, synced : BOOLEAN]]
  BY <1>1
<1>3. DiskInv'
  BY <1>1, ReportFileAssumption
<1>4. QED BY <1>1, <1>2, <1>3

LEMMA WriterStepKeepsInv ==
    ASSUME FileInv, WriterStep PROVE FileInv'
<1>1. CASE writer.at = "directory" /\ CreateTemp
  <2>1. CASE Fails BY <1>1, <2>1, FailsKeepsInv
  <2>2. CASE Continue("write")
    BY <1>1, <2>2
    DEF Continue, FileInv, FileTypeOK, DiskInv, WriterInv, WriterAt
  <2>3. QED BY <1>1, <2>1, <2>2 DEF CreateTemp
<1>2. CASE writer.at = "write" /\ WriteTemp
  <2>1. CASE Fails BY <1>2, <2>1, FailsKeepsInv
  <2>2. CASE Continue("sync")
    BY <1>2, <2>2
    DEF Continue, FileInv, FileTypeOK, DiskInv, WriterInv, WriterAt
  <2>3. QED BY <1>2, <2>1, <2>2 DEF WriteTemp
<1>3. CASE writer.at = "sync" /\ Sync
  <2>1. CASE Fails BY <1>3, <2>1, FailsKeepsInv
  <2>2. CASE /\ writer' = [writer EXCEPT !.at = "close", !.synced = Synced]
             /\ UNCHANGED <<disk, faults>>
    BY <1>3, <2>2
    DEF Synced, FileInv, FileTypeOK, DiskInv, WriterInv, WriterAt
  <2>3. QED BY <1>3, <2>1, <2>2 DEF Sync
<1>4. CASE writer.at = "close" /\ Close
  <2>1. CASE Fails BY <1>4, <2>1, FailsKeepsInv
  <2>2. CASE Continue("rename")
    BY <1>4, <2>2
    DEF Continue, FileInv, FileTypeOK, DiskInv, WriterInv, WriterAt
  <2>3. QED BY <1>4, <2>1, <2>2 DEF Close
<1>5. CASE writer.at = "rename" /\ Rename
  <2>1. CASE Place BY <1>5, <2>1, PlaceKeepsInv
  <2>2. CASE /\ Counted
             /\ writer' = [writer EXCEPT !.at = "stat"]
             /\ UNCHANGED disk
    BY <1>5, <2>2, ReportFileAssumption
    DEF Counted, Fallback, FileInv, FileTypeOK, DiskInv, WriterInv, WriterAt
  <2>3. QED BY <1>5, <2>1, <2>2 DEF Rename
<1>6. CASE writer.at = "stat" /\ Stat
  <2>1. CASE Fails BY <1>6, <2>1, FailsKeepsInv
  <2>2. CASE Exists /\ Continue("remove")
    BY <1>6, <2>2
    DEF Continue, FileInv, FileTypeOK, DiskInv, WriterInv, WriterAt
  <2>3. CASE /\ writer' = [writer EXCEPT !.at = "returned", !.error = TRUE]
             /\ UNCHANGED <<disk, faults>>
    BY <1>6, <2>3
    DEF FileInv, FileTypeOK, DiskInv, WriterInv, WriterAt
  <2>4. QED BY <1>6, <2>1, <2>2, <2>3 DEF Stat
<1>7. CASE writer.at = "remove" /\ RemoveOld
  <2>1. CASE Fails BY <1>7, <2>1, FailsKeepsInv
  <2>2. CASE /\ disk' = [disk EXCEPT ![writer.path] =
                            [value |-> Absent, synced |-> TRUE]]
             /\ writer' = [writer EXCEPT !.at = "retry"]
             /\ UNCHANGED faults
    <3> USE DEF FileInv, FileTypeOK, DiskInv, WriterInv, WriterAt
    <3>1. disk' \in [Paths -> [value : Values \cup {Absent, Torn}, synced : BOOLEAN]]
      BY <1>7, <2>2
    <3>2. DiskInv'
      BY <1>7, <2>2, ReportFileAssumption
    <3>3. QED BY <1>7, <2>2, <3>1, <3>2
  <2>3. QED BY <1>7, <2>1, <2>2 DEF RemoveOld
<1>8. CASE writer.at = "retry" /\ RetryRename
  <2>1. CASE Fails BY <1>8, <2>1, FailsKeepsInv
  <2>2. CASE Place BY <1>8, <2>2, PlaceKeepsInv
  <2>3. QED BY <1>8, <2>1, <2>2 DEF RetryRename
<1>9. QED
  BY <1>1, <1>2, <1>3, <1>4, <1>5, <1>6, <1>7, <1>8
  DEF WriterStep, CreateTemp, WriteTemp, Sync, Close, Rename, Stat, RemoveOld,
      RetryRename

LEMMA FileInvNext == FileInv /\ [FileNext]_fileVars => FileInv'
<1> SUFFICES ASSUME FileInv, [FileNext]_fileVars PROVE FileInv'
  OBVIOUS
<1> USE DEF FileInv, FileTypeOK, DiskInv, WriterInv, WriterAt
<1>1. ASSUME NEW p \in Paths, NEW v \in Values, Write(p, v) PROVE FileInv'
  BY <1>1 DEF Write, Idle
<1>2. CASE WriterStep
  BY <1>2, WriterStepKeepsInv
<1>3. CASE Collect
  BY <1>3 DEF Collect, Idle
<1>4. CASE FileCrash
  BY <1>4, NothingToTear DEF FileCrash, Idle
<1>5. CASE UNCHANGED fileVars
  BY <1>5 DEF fileVars
<1>6. QED BY <1>1, <1>2, <1>3, <1>4, <1>5 DEF FileNext

\* The variables of writeAtomic keep their types.
THEOREM FileTypeCorrect == FileSpec => []FileTypeOK
<1>1. FileInv => FileTypeOK
  BY DEF FileInv
<1>2. QED BY FileInvInit, FileInvNext, <1>1, PTL DEF FileSpec

------------------------------------------------------------------------------
\* The refinement

LEMMA ContractInit == FileInit => Contract!Init
  BY DEF FileInit, Idle, CallState, Contract!Init, Contract!NoCall

\* Seen from the contract: a call that goes on, and one that fails.
LEMMA ContinueStutters ==
    ASSUME NEW at \in {"write", "sync", "close", "rename", "stat", "remove"},
           FileInv, writer.at \notin {"idle", "returned"},
           writer'.at = at, writer'.path = writer.path,
           writer'.value = writer.value, disk' = disk
    PROVE  UNCHANGED Contract!vars
  BY DEF Contract!vars, CallState

LEMMA FailsIsFail ==
    ASSUME FileInv, writer.at \notin {"idle", "returned"}, disk' = disk,
           writer' = [writer EXCEPT !.at = "returned", !.error = TRUE]
    PROVE  Contract!Fail
<1>1. CallState = "called"
  BY DEF CallState
<1>2. CallState' = "error"
  BY DEF CallState, FileInv, FileTypeOK
<1>3. writer'.path = writer.path /\ writer'.value = writer.value
  BY DEF FileInv, FileTypeOK
<1>4. QED BY <1>1, <1>2, <1>3 DEF Contract!Fail

LEMMA PlaceIsReplace ==
    ASSUME FileInv, Place, writer.at \in {"rename", "retry"}
    PROVE  Contract!Replace
<1> USE DEF FileInv, FileTypeOK, WriterInv
<1>1. CallState = "called"
  BY DEF CallState
<1>2. /\ writer'.at = "returned" /\ ~writer'.error
      /\ writer'.path = writer.path /\ writer'.value = writer.value
  BY DEF Place, WriterAt
<1>3. CallState' = "nil"
  BY <1>2 DEF CallState
<1>4. [p \in Paths |-> disk[p].value]'
        = [[p \in Paths |-> disk[p].value] EXCEPT ![writer.path] = writer.value]
  BY DEF Place
<1>5. QED BY <1>1, <1>2, <1>3, <1>4 DEF Contract!Replace

LEMMA RemoveIsLose ==
    ASSUME FileInv, writer.at = "remove",
           disk' = [disk EXCEPT ![writer.path] = [value |-> Absent, synced |-> TRUE]],
           writer' = [writer EXCEPT !.at = "retry"]
    PROVE  Contract!Lose
<1> USE DEF FileInv, FileTypeOK
<1>1. CallState = "called" /\ CallState' = "called"
  BY DEF CallState
<1>2. writer'.path = writer.path /\ writer'.value = writer.value
  OBVIOUS
<1>3. [p \in Paths |-> disk[p].value]'
        = [[p \in Paths |-> disk[p].value] EXCEPT ![writer.path] = Absent]
  OBVIOUS
<1>4. QED BY <1>1, <1>2, <1>3 DEF Contract!Lose

LEMMA WriterStepRefines ==
    ASSUME FileInv, WriterStep PROVE [Contract!Next]_(Contract!vars)
<1>1. CASE CreateTemp \/ WriteTemp \/ Close
  <2>1. CASE Fails
    BY <1>1, <2>1, FailsIsFail
    DEF CreateTemp, WriteTemp, Close, Fails, Contract!Next
  <2>2. ASSUME NEW at \in {"write", "sync", "rename"}, Continue(at),
               writer.at \notin {"idle", "returned"}
        PROVE  UNCHANGED Contract!vars
    BY <2>2, ContinueStutters DEF Continue, FileInv, FileTypeOK
  <2>3. QED BY <1>1, <2>1, <2>2 DEF CreateTemp, WriteTemp, Close
<1>2. CASE Sync
  <2>1. CASE Fails
    BY <1>2, <2>1, FailsIsFail DEF Sync, Fails, Contract!Next
  <2>2. CASE /\ writer' = [writer EXCEPT !.at = "close", !.synced = Synced]
             /\ UNCHANGED <<disk, faults>>
    BY <1>2, <2>2, ContinueStutters DEF Sync, FileInv, FileTypeOK
  <2>3. QED BY <1>2, <2>1, <2>2 DEF Sync
<1>3. CASE Rename
  <2>1. CASE Place
    BY <1>3, <2>1, PlaceIsReplace DEF Rename, Contract!Next
  <2>2. CASE writer' = [writer EXCEPT !.at = "stat"] /\ UNCHANGED disk
    BY <1>3, <2>2, ContinueStutters DEF Rename, FileInv, FileTypeOK
  <2>3. QED BY <1>3, <2>1, <2>2 DEF Rename
<1>4. CASE Stat
  <2>1. CASE Fails
    BY <1>4, <2>1, FailsIsFail DEF Stat, Fails, Contract!Next
  <2>2. CASE Continue("remove")
    BY <1>4, <2>2, ContinueStutters DEF Stat, Continue, FileInv, FileTypeOK
  <2>3. CASE /\ writer' = [writer EXCEPT !.at = "returned", !.error = TRUE]
             /\ UNCHANGED <<disk, faults>>
    BY <1>4, <2>3, FailsIsFail DEF Stat, Contract!Next
  <2>4. QED BY <1>4, <2>1, <2>2, <2>3 DEF Stat
<1>5. CASE RemoveOld
  <2>1. CASE Fails
    BY <1>5, <2>1, FailsIsFail DEF RemoveOld, Fails, Contract!Next
  <2>2. QED
    BY <1>5, <2>1, RemoveIsLose DEF RemoveOld, Contract!Next
<1>6. CASE RetryRename
  <2>1. CASE Fails
    BY <1>6, <2>1, FailsIsFail DEF RetryRename, Fails, Contract!Next
  <2>2. CASE Place
    BY <1>6, <2>2, PlaceIsReplace DEF RetryRename, Contract!Next
  <2>3. QED BY <1>6, <2>1, <2>2 DEF RetryRename
<1>7. QED BY <1>1, <1>2, <1>3, <1>4, <1>5, <1>6 DEF WriterStep

\* Every step of writeAtomic is a step of its contract or changes nothing
\* that the contract speaks of.
LEMMA FileStepRefines ==
    FileInv /\ [FileNext]_fileVars => [Contract!Next]_(Contract!vars)
<1> SUFFICES ASSUME FileInv, [FileNext]_fileVars
             PROVE  [Contract!Next]_(Contract!vars)
  OBVIOUS
<1>1. ASSUME NEW p \in Paths, NEW v \in Values, Write(p, v)
      PROVE  Contract!Call
  <2>1. CallState = "none" /\ CallState' = "called"
    BY <1>1 DEF CallState, Write, Idle
  <2>2. writer'.path = p /\ writer'.value = v /\ disk' = disk
    BY <1>1 DEF Write, Idle
  <2>3. QED BY <2>1, <2>2 DEF Contract!Call
<1>2. CASE WriterStep
  BY <1>2, WriterStepRefines
<1>3. ASSUME writer' = Idle, disk' = disk
      PROVE  Contract!End
  BY <1>3 DEF Idle, CallState, Contract!End, Contract!NoCall
<1>4. CASE Collect
  BY <1>3, <1>4 DEF Collect, Contract!Next
<1>5. CASE FileCrash
  BY <1>3, <1>5, NothingToTear DEF FileCrash, Contract!Next
<1>6. CASE UNCHANGED fileVars
  BY <1>6 DEF fileVars, Contract!vars, CallState
<1>7. QED
  BY <1>1, <1>2, <1>4, <1>5, <1>6 DEF FileNext, Contract!Next

\* writeAtomic implements its contract: reports are replaced as a whole or not
\* at all, and nil is returned exactly if the new one is in place.
THEOREM WriteAtomicIsAtomic == FileSpec => ImplementsAtomicFile
<1>1. QED
  BY FileInvInit, FileInvNext, ContractInit, FileStepRefines, PTL
  DEF FileSpec, ImplementsAtomicFile, Contract!Spec
=============================================================================
