------------------------------ MODULE RadTools ------------------------------
(***************************************************************************)
(* rastaadd and rastadel, the editors of RASTA description files.          *)
(*                                                                         *)
(* A run of an editor locks the file with a System V semaphore whose key   *)
(* is a hash of the file's name as the user typed it, parses the file,     *)
(* edits the document, validates the result, writes it back in place and   *)
(* removes the semaphore.  Runs interleave; a run may be killed, and the   *)
(* system may refuse its calls.  What an edit does to a document is the    *)
(* parameter Outcomes (RadEdit defines it).                                *)
(***************************************************************************)
EXTENDS Naturals

CONSTANTS
    Runs,               \* invocations of the two editors
    Spellings,          \* file names as typed after --file
    Files,              \* the files they name
    Keys,               \* semaphore keys
    FileOf, KeyOf,      \* what a spelling names, and hashes to
    Deltas,             \* addition and deletion files
    CommandLines,       \* what the runs may have been started with
    Outcomes(_, _),     \* Outcomes(delta, document): what editing may end in
    Valid(_),           \* rasta.dtd accepts the document
    InitialDocs,        \* documents that files hold at the beginning
    Unreadable          \* a file that has been truncated, or written in part

ASSUME SpellingAssumption ==
    FileOf \in [Spellings -> Files] /\ KeyOf \in [Spellings -> Keys]
ASSUME CommandLinesAssumption ==
    CommandLines \subseteq [Runs -> [spelling : Spellings, delta : Deltas]]
\* A file is always named the same way, or at least with the same hash.
ASSUME OneKeyAssumption ==
    \A s, t \in Spellings : FileOf[s] = FileOf[t] => KeyOf[s] = KeyOf[t]
ASSUME ValidAssumption ==
    \A d \in InitialDocs : Valid(d) /\ d # Unreadable
ASSUME UnreadableAssumption == ~Valid(Unreadable)

VARIABLES
    sem,        \* the semaphore of a key: Absent or its value
    disk,       \* what a file holds
    pc,         \* where a run is
    job,        \* the command line: ctxt->main_filename, ctxt->delta_filename
    doc,        \* ctxt->main.doc
    exit        \* the exit status

vars == <<sem, disk, pc, job, doc, exit>>

Absent == 2     \* no value a semaphore ever has
Holding == {"created", "locked", "read", "save", "writing", "drop", "remove"}
Phases  == {"new", "refused", "done", "dead"} \cup Holding

KeyFor(r)  == KeyOf[job[r].spelling]
FileFor(r) == FileOf[job[r].spelling]

Goto(r, label) == pc' = [pc EXCEPT ![r] = label]

Init ==
    /\ sem = [k \in Keys |-> Absent]
    /\ disk \in [Files -> InitialDocs]
    /\ pc = [r \in Runs |-> "new"]
    /\ job \in CommandLines
    /\ doc = [r \in Runs |-> Unreadable]
    /\ exit = [r \in Runs |-> 0]

-----------------------------------------------------------------------------
(* The lock (radcommon.c).                                                 *)

\* Mutant of CreateLock: main does not look at what rad_get_lock returns.
CreateLockUnchecked(r) ==
    /\ pc[r] = "new"
    /\ sem' = [sem EXCEPT ![KeyFor(r)] = 1]
    /\ Goto(r, "locked")
    /\ UNCHANGED <<disk, job, doc, exit>>

\* semget(IPC_CREAT | IPC_EXCL) gives the semaphore of the key ...
CreateLock(r) ==
    /\ pc[r] = "new"
    /\ sem[KeyFor(r)] = Absent
    /\ sem' = [sem EXCEPT ![KeyFor(r)] = 0]
    /\ Goto(r, "created")
    /\ UNCHANGED <<disk, job, doc, exit>>

\* ... or refuses, if there is one: "Unable to acquire lock".
LockRefused(r) ==
    /\ pc[r] = "new"
    /\ sem[KeyFor(r)] # Absent
    /\ Goto(r, "refused")
    /\ exit' = [exit EXCEPT ![r] = 1]
    /\ UNCHANGED <<sem, disk, job, doc>>

\* semop: wait for zero without waiting, then add one with SEM_UNDO.
TakeLock(r) ==
    /\ pc[r] = "created"
    /\ sem[KeyFor(r)] = 0
    /\ sem' = [sem EXCEPT ![KeyFor(r)] = 1]
    /\ Goto(r, "locked")
    /\ UNCHANGED <<disk, job, doc, exit>>

\* semop fails (no undo structure left): the semaphore is removed.
TakeLockFails(r) ==
    /\ pc[r] = "created"
    /\ sem' = [sem EXCEPT ![KeyFor(r)] = Absent]
    /\ Goto(r, "done")
    /\ exit' = [exit EXCEPT ![r] = 1]
    /\ UNCHANGED <<disk, job, doc>>

\* rad_drop_lock: subtract one ...
ReleaseLock(r) ==
    /\ pc[r] = "drop"
    /\ sem' = [sem EXCEPT ![KeyFor(r)] = 0]
    /\ Goto(r, "remove")
    /\ UNCHANGED <<disk, job, doc, exit>>

\* ... and remove the semaphore.  The run ends.
RemoveLock(r) ==
    /\ pc[r] = "remove"
    /\ sem' = [sem EXCEPT ![KeyFor(r)] = Absent]
    /\ Goto(r, "done")
    /\ UNCHANGED <<disk, job, doc, exit>>

\* The end of a process that still holds the lock: SEM_UNDO brings the value
\* back to zero, and the semaphore stays.
Die(r) ==
    /\ sem' = [sem EXCEPT ![KeyFor(r)] = 0]
    /\ Goto(r, "dead")

-----------------------------------------------------------------------------
(* The edit (main of rastaadd.c and of rastadel.c).                        *)

\* Mutant of Fail: return instead of goto out.
FailReturns(r) ==
    /\ Goto(r, "done")
    /\ exit' = [exit EXCEPT ![r] = 1]

\* Every error goes to the label out, with rc set.
Fail(r) ==
    /\ Goto(r, "drop")
    /\ exit' = [exit EXCEPT ![r] = 1]

\* rad_parse_file, rad_validate_doc and rad_validate_file on the main file.
Read(r) ==
    /\ pc[r] = "locked"
    /\ disk[FileFor(r)] # Unreadable
    /\ doc' = [doc EXCEPT ![r] = disk[FileFor(r)]]
    /\ Goto(r, "read")
    /\ UNCHANGED <<sem, disk, job, exit>>

\* The file cannot be parsed, or the system refuses to open it.
ReadFails(r) ==
    /\ pc[r] = "locked"
    /\ Fail(r)
    /\ UNCHANGED <<sem, disk, job, doc>>

\* Mutant of Modify: the result is not validated.
ModifyUnvalidated(r) ==
    /\ pc[r] = "read"
    /\ \E o \in Outcomes(job[r].delta, doc[r]) :
          /\ o.kind = "edited"
          /\ doc' = [doc EXCEPT ![r] = o.doc]
    /\ Goto(r, "save")
    /\ UNCHANGED <<sem, disk, job, exit>>

\* Mutant of Modify: the lock is dropped before the document is saved.
ModifyUnlocks(r) ==
    /\ pc[r] = "read"
    /\ \E o \in Outcomes(job[r].delta, doc[r]) :
          /\ o.kind = "edited" /\ Valid(o.doc)
          /\ doc' = [doc EXCEPT ![r] = o.doc]
    /\ sem' = [sem EXCEPT ![KeyFor(r)] = Absent]
    /\ Goto(r, "save")
    /\ UNCHANGED <<disk, job, exit>>

\* The delta is parsed, validated and applied; the result is validated.
Modify(r) ==
    /\ pc[r] = "read"
    /\ \E o \in Outcomes(job[r].delta, doc[r]) :
          /\ o.kind = "edited" /\ Valid(o.doc)
          /\ doc' = [doc EXCEPT ![r] = o.doc]
    /\ Goto(r, "save")
    /\ UNCHANGED <<sem, disk, job, exit>>

ModifyFails(r) ==
    /\ pc[r] = "read"
    /\ \E o \in Outcomes(job[r].delta, doc[r]) :
          \/ o.kind = "error"
          \/ o.kind = "edited" /\ ~Valid(o.doc)
    /\ Fail(r)
    /\ UNCHANGED <<sem, disk, job, doc>>

\* The edit dereferences a NULL or a freed pointer.
ModifyCrashes(r) ==
    /\ pc[r] = "read"
    /\ \E o \in Outcomes(job[r].delta, doc[r]) : o.kind = "crash"
    /\ Die(r)
    /\ UNCHANGED <<disk, job, doc, exit>>

\* rad_save_file: fopen truncates the file itself ...
Open(r) ==
    /\ pc[r] = "save"
    /\ disk' = [disk EXCEPT ![FileFor(r)] = Unreadable]
    /\ Goto(r, "writing")
    /\ UNCHANGED <<sem, job, doc, exit>>

\* Mutant of OpenFails: the error number itself is returned.
OpenFailsRaw(r) ==
    /\ pc[r] = "save"
    /\ \E errno \in {1, 13} : exit' = [exit EXCEPT ![r] = errno]
    /\ Goto(r, "drop")
    /\ UNCHANGED <<sem, disk, job, doc>>

\* ... or fails with rc = -errno, of which main is told whether it is -1:
\* only EPERM is an error.
OpenFails(r) ==
    /\ pc[r] = "save"
    /\ \E eperm \in BOOLEAN :
          exit' = [exit EXCEPT ![r] = IF eperm THEN 1 ELSE 0]
    /\ Goto(r, "drop")
    /\ UNCHANGED <<sem, disk, job, doc>>

Write(r) ==
    /\ pc[r] = "writing"
    /\ disk' = [disk EXCEPT ![FileFor(r)] = doc[r]]
    /\ Goto(r, "drop")
    /\ UNCHANGED <<sem, job, doc, exit>>

\* xmlDocDump fails, or fclose does, which nobody asks.
WriteFails(r) ==
    /\ pc[r] = "writing"
    /\ \E dumped \in BOOLEAN :
          exit' = [exit EXCEPT ![r] = IF dumped THEN 0 ELSE 1]
    /\ Goto(r, "drop")
    /\ UNCHANGED <<sem, disk, job, doc>>

\* The run is killed.
Kill(r) ==
    /\ pc[r] \in Holding
    /\ Die(r)
    /\ UNCHANGED <<disk, job, doc, exit>>

-----------------------------------------------------------------------------
Step(r) ==
    \/ CreateLock(r) \/ LockRefused(r)
    \/ TakeLock(r) \/ TakeLockFails(r)
    \/ Read(r) \/ ReadFails(r)
    \/ Modify(r) \/ ModifyFails(r) \/ ModifyCrashes(r)
    \/ Open(r) \/ OpenFails(r)
    \/ Write(r) \/ WriteFails(r)
    \/ ReleaseLock(r) \/ RemoveLock(r)

Next == \E r \in Runs : Step(r) \/ Kill(r)

Spec == Init /\ [][Next]_vars

-----------------------------------------------------------------------------
(***************************************************************************)
(* Correctness.                                                            *)
(***************************************************************************)
\* The type of the control state (documents are what Outcomes makes of them).
TypeOK ==
    /\ sem \in [Keys -> {Absent, 0, 1}]
    /\ DOMAIN disk = Files
    /\ pc \in [Runs -> Phases]
    /\ job \in CommandLines
    /\ DOMAIN doc = Runs
    /\ exit \in [Runs -> {0, 1}]

\* Between rad_get_lock and rad_drop_lock a run is alone with its file.
AloneWithFile ==
    \A r, s \in Runs :
        r # s /\ pc[r] \in Holding /\ pc[s] \in Holding => FileFor(r) # FileFor(s)

\* No update is lost: what a run is about to save is an edit of what the file
\* holds at that moment, however long ago the run read it.
EditIsCurrent ==
    \A r \in Runs :
        /\ pc[r] = "read" => doc[r] = disk[FileFor(r)]
        /\ pc[r] = "save" => \E o \in Outcomes(job[r].delta, disk[FileFor(r)]) :
                                o.kind = "edited" /\ o.doc = doc[r]

\* Every way through main drops the lock: a semaphore belongs to a run that
\* is not over, or was left by one that was killed or crashed.
LockHasOwner ==
    \A k \in Keys : sem[k] # Absent =>
        \E r \in Runs : KeyFor(r) = k /\ pc[r] \in Holding \cup {"dead"}

\* A file that can be parsed is one that rasta.dtd accepts.
FilesStayValid ==
    \A f \in Files : disk[f] = Unreadable \/ Valid(disk[f])

\* The files implement RadStore: a save takes effect when the file is
\* truncated, if nothing goes wrong until it is written.
Writes(r, f) == pc[r] = "writing" /\ FileFor(r) = f
Store == INSTANCE RadStore WITH
            store <- [f \in Files |-> IF \E r \in Runs : Writes(r, f)
                                      THEN doc[CHOOSE r \in Runs : Writes(r, f)]
                                      ELSE disk[f]]
ImplementsStore == Store!Spec

\* The manual pages: "If the file is valid, it then saves the new version",
\* and tests/testadddel takes exit status 0 for that.
ExitZeroMeansSaved ==
    [][ \A r \in Runs : RemoveLock(r) /\ exit[r] = 0
            => disk[FileFor(r)] = doc[r] ]_vars

\* rastamodify.dtd and the manual allow an addition file of PATHINSERT
\* elements alone, and validate_addition asks for one of the two only.
AcceptedDeltaIsApplied ==
    [][ \A r \in Runs : ~ModifyCrashes(r) ]_vars
=============================================================================
