--------------------------- MODULE RadTools_proofs ---------------------------
(***************************************************************************)
(* Theorems about RadTools, for every set of runs, every set of files      *)
(* whose spellings agree on the semaphore key, and every edit.             *)
(***************************************************************************)
EXTENDS RadTools, TLAPS

\* Who has a semaphore, and that nobody shares one.
LockInv ==
    /\ \A r \in Runs : pc[r] \in Holding => sem[KeyFor(r)] # Absent
    /\ \A r, s \in Runs : r # s /\ pc[r] \in Holding /\ pc[s] \in Holding
            => KeyFor(r) # KeyFor(s)

\* What a run has in memory, and what it is writing over.
SaveInv ==
    /\ \A r \in Runs : pc[r] \in {"save", "writing"} => Valid(doc[r])
    /\ \A r \in Runs : pc[r] \in {"read", "save"} => disk[FileFor(r)] # Unreadable
    /\ \A r \in Runs : pc[r] = "writing" => disk[FileFor(r)] = Unreadable

IInv == TypeOK /\ LockInv /\ LockHasOwner /\ EditIsCurrent /\ FilesStayValid /\ SaveInv

\* A key for every run, and the same one for runs that name the same file.
LEMMA Naming ==
  ASSUME TypeOK
  PROVE  /\ \A r \in Runs : KeyFor(r) \in Keys /\ FileFor(r) \in Files
                              /\ job[r].delta \in Deltas
         /\ \A r, s \in Runs : FileFor(r) = FileFor(s) => KeyFor(r) = KeyFor(s)
  BY SpellingAssumption, CommandLinesAssumption, OneKeyAssumption
     DEF TypeOK, KeyFor, FileFor

\* Runs with different keys have different files.
LEMMA Alone == TypeOK /\ LockInv => AloneWithFile
  BY Naming DEF LockInv, AloneWithFile

LEMMA InitIInv == Init => IInv
<1> SUFFICES ASSUME Init PROVE IInv
  OBVIOUS
<1>1. \A f \in Files : Valid(disk[f])
  BY ValidAssumption DEF Init
<1>2. QED
  BY <1>1 DEF Init, IInv, TypeOK, LockInv, LockHasOwner, EditIsCurrent,
              FilesStayValid, SaveInv, Holding, Phases

-----------------------------------------------------------------------------
(* One lemma for each part of the invariant.                               *)

LEMMA TypeStep ==
  ASSUME TypeOK, NEW r \in Runs, Step(r) \/ Kill(r)
  PROVE  TypeOK'
  BY DEF TypeOK, Step, Kill, Die, Fail, Goto, Phases, Holding, Absent,
         CreateLock, LockRefused, TakeLock, TakeLockFails, Read, ReadFails,
         Modify, ModifyFails, ModifyCrashes, Open, OpenFails, Write, WriteFails,
         ReleaseLock, RemoveLock

\* The six ways a step changes the lock: it is made, kept by its holder, put
\* back to zero by a dying one, or removed by a run that ends.
LEMMA LockStep ==
  ASSUME TypeOK, LockInv, LockHasOwner, NEW r \in Runs, Step(r) \/ Kill(r)
  PROVE  LockInv' /\ LockHasOwner'
<1>0. /\ \A s \in Runs : KeyFor(s) \in Keys /\ KeyFor(s)' = KeyFor(s)
      /\ DOMAIN pc = Runs /\ DOMAIN sem = Keys
  BY Naming DEF TypeOK, KeyFor, Step, Kill, CreateLock, LockRefused, TakeLock,
     TakeLockFails, Read, ReadFails, Modify, ModifyFails, ModifyCrashes, Open,
     OpenFails, Write, WriteFails, ReleaseLock, RemoveLock
<1>1. CASE CreateLock(r)
  <2>1. /\ sem[KeyFor(r)] = Absent
        /\ sem' = [sem EXCEPT ![KeyFor(r)] = 0]
        /\ pc' = [pc EXCEPT ![r] = "created"]
    BY <1>1 DEF CreateLock, Goto
  <2>2. \A s \in Runs : pc[s] \in Holding => KeyFor(s) # KeyFor(r)
    BY <2>1 DEF LockInv
  <2>3. QED
    BY <1>0, <2>1, <2>2 DEF LockInv, LockHasOwner, Holding, Absent
<1>2. CASE LockRefused(r)
  BY <1>0, <1>2 DEF LockRefused, Goto, LockInv, LockHasOwner, Holding
<1>3. CASE TakeLock(r) \/ ReleaseLock(r)
  BY <1>0, <1>3 DEF TakeLock, ReleaseLock, Goto, LockInv, LockHasOwner, Holding, Absent
<1>4. CASE TakeLockFails(r) \/ RemoveLock(r)
  <2>1. /\ pc[r] \in Holding
        /\ sem' = [sem EXCEPT ![KeyFor(r)] = Absent]
        /\ pc' = [pc EXCEPT ![r] = "done"]
    BY <1>4 DEF TakeLockFails, RemoveLock, Goto, Holding
  <2>2. \A s \in Runs : s # r /\ pc[s] \in Holding => KeyFor(s) # KeyFor(r)
    BY <2>1 DEF LockInv
  <2>3. QED
    BY <1>0, <2>1, <2>2 DEF LockInv, LockHasOwner, Holding
<1>5. CASE Kill(r) \/ ModifyCrashes(r)
  <2>1. /\ sem' = [sem EXCEPT ![KeyFor(r)] = 0]
        /\ pc' = [pc EXCEPT ![r] = "dead"]
    BY <1>5 DEF Kill, ModifyCrashes, Die, Goto
  <2>2. QED
    BY <1>0, <2>1 DEF LockInv, LockHasOwner, Holding, Absent
<1>6. CASE \/ Read(r) \/ ReadFails(r) \/ Modify(r) \/ ModifyFails(r)
           \/ Open(r) \/ OpenFails(r) \/ Write(r) \/ WriteFails(r)
  <2>1. /\ sem' = sem /\ pc[r] \in Holding
        /\ \E l \in Holding : pc' = [pc EXCEPT ![r] = l]
    BY <1>6 DEF Read, ReadFails, Modify, ModifyFails, Open, OpenFails, Write,
                WriteFails, Fail, Goto, Holding
  <2>2. PICK l \in Holding : pc' = [pc EXCEPT ![r] = l]
    BY <2>1
  <2>3. QED
    BY <1>0, <2>1, <2>2 DEF LockInv, LockHasOwner
<1>7. QED
  BY <1>1, <1>2, <1>3, <1>4, <1>5, <1>6 DEF Step

\* Only the run that is alone with a file writes to it.
LEMMA DiskStep ==
  ASSUME TypeOK, AloneWithFile, EditIsCurrent, FilesStayValid, SaveInv,
         NEW r \in Runs, Step(r) \/ Kill(r)
  PROVE  EditIsCurrent' /\ FilesStayValid' /\ SaveInv'
<1>0. /\ \A s \in Runs : FileFor(s) \in Files /\ FileFor(s)' = FileFor(s)
      /\ job' = job
      /\ DOMAIN pc = Runs /\ DOMAIN disk = Files /\ DOMAIN doc = Runs
  BY Naming DEF TypeOK, FileFor, Step, Kill, CreateLock, LockRefused, TakeLock,
     TakeLockFails, Read, ReadFails, Modify, ModifyFails, ModifyCrashes, Open,
     OpenFails, Write, WriteFails, ReleaseLock, RemoveLock
<1>1. CASE Read(r)
  BY <1>0, <1>1 DEF Read, Goto, EditIsCurrent, FilesStayValid, SaveInv
<1>2. CASE Modify(r)
  BY <1>0, <1>2 DEF Modify, Goto, EditIsCurrent, FilesStayValid, SaveInv
<1>3. CASE Open(r)
  <2>1. \A s \in Runs : s # r /\ pc[s] \in Holding => FileFor(s) # FileFor(r)
    BY <1>3 DEF Open, AloneWithFile, Holding
  <2>2. /\ disk' = [disk EXCEPT ![FileFor(r)] = Unreadable]
        /\ pc[r] = "save" /\ pc' = [pc EXCEPT ![r] = "writing"] /\ doc' = doc
    BY <1>3 DEF Open, Goto
  <2>3. QED
    BY <1>0, <2>1, <2>2 DEF EditIsCurrent, FilesStayValid, SaveInv, Holding
<1>4. CASE Write(r)
  <2>1. \A s \in Runs : s # r /\ pc[s] \in Holding => FileFor(s) # FileFor(r)
    BY <1>4 DEF Write, AloneWithFile, Holding
  <2>2. /\ disk' = [disk EXCEPT ![FileFor(r)] = doc[r]]
        /\ pc[r] = "writing" /\ pc' = [pc EXCEPT ![r] = "drop"] /\ doc' = doc
    BY <1>4 DEF Write, Goto
  <2>3. QED
    BY <1>0, <2>1, <2>2 DEF EditIsCurrent, FilesStayValid, SaveInv, Holding
<1>5. CASE \/ Kill(r) \/ CreateLock(r) \/ LockRefused(r) \/ TakeLock(r)
           \/ TakeLockFails(r) \/ ReadFails(r) \/ ModifyFails(r)
           \/ ModifyCrashes(r) \/ OpenFails(r) \/ WriteFails(r)
           \/ ReleaseLock(r) \/ RemoveLock(r)
  <2>1. /\ disk' = disk /\ doc' = doc
        /\ \E l \in {"created", "refused", "locked", "done", "drop", "dead", "remove"} :
              pc' = [pc EXCEPT ![r] = l]
    BY <1>5 DEF Kill, Die, CreateLock, LockRefused, TakeLock, TakeLockFails,
                ReadFails, ModifyFails, ModifyCrashes, OpenFails, WriteFails,
                ReleaseLock, RemoveLock, Fail, Goto
  <2>2. QED
    BY <1>0, <2>1 DEF EditIsCurrent, FilesStayValid, SaveInv
<1>6. QED
  BY <1>1, <1>2, <1>3, <1>4, <1>5 DEF Step

LEMMA NextIInv == IInv /\ [Next]_vars => IInv'
<1> SUFFICES ASSUME IInv, [Next]_vars PROVE IInv'
  OBVIOUS
<1>1. CASE Next
  <2>1. PICK r \in Runs : Step(r) \/ Kill(r)
    BY <1>1 DEF Next
  <2>2. QED
    BY <2>1, TypeStep, LockStep, DiskStep, Alone DEF IInv
<1>2. CASE UNCHANGED vars
  BY <1>2 DEF IInv, TypeOK, LockInv, LockHasOwner, EditIsCurrent,
              FilesStayValid, SaveInv, KeyFor, FileFor, vars
<1>3. QED
  BY <1>1, <1>2

-----------------------------------------------------------------------------
(* The theorems.                                                           *)

\* The inductive invariant holds in every reachable state.
THEOREM Invariance == Spec => []IInv
BY InitIInv, NextIInv, PTL DEF Spec

\* The control state keeps its type.
THEOREM TypeCorrect == Spec => []TypeOK
<1>1. IInv => TypeOK
  BY DEF IInv
<1>2. QED
  BY <1>1, Invariance, PTL

\* The semaphore is a lock: two runs are never at work on one file.
THEOREM Exclusion == Spec => []AloneWithFile
<1>1. IInv => AloneWithFile
  BY Alone DEF IInv
<1>2. QED
  BY <1>1, Invariance, PTL

\* No update is lost, although reading and saving are far apart.
THEOREM NothingStaleIsSaved == Spec => []EditIsCurrent
<1>1. IInv => EditIsCurrent
  BY DEF IInv
<1>2. QED
  BY <1>1, Invariance, PTL

\* No edit, crash or refused call leaves a file that parses and is not valid.
THEOREM FilesAreValid == Spec => []FilesStayValid
<1>1. IInv => FilesStayValid
  BY DEF IInv
<1>2. QED
  BY <1>1, Invariance, PTL

\* No error path of main forgets the semaphore.
THEOREM LocksAreOwned == Spec => []LockHasOwner
<1>1. IInv => LockHasOwner
  BY DEF IInv
<1>2. QED
  BY <1>1, Invariance, PTL

-----------------------------------------------------------------------------
(* RadTools implements RadStore.                                           *)

\* The document of a file, as RadStore sees it.
Held == [f \in Files |-> IF \E r \in Runs : Writes(r, f)
                         THEN doc[CHOOSE r \in Runs : Writes(r, f)]
                         ELSE disk[f]]

\* The run that writes to a file is the only one.
LEMMA WriterIsOne ==
  ASSUME TypeOK, AloneWithFile, NEW r \in Runs, pc[r] = "writing",
         NEW f \in Files, FileFor(r) = f
  PROVE  Held[f] = doc[r]
<1>1. \A s \in Runs : Writes(s, f) <=> s = r
  BY DEF AloneWithFile, Writes, Holding
<1>2. (CHOOSE s \in Runs : Writes(s, f)) = r
  BY <1>1
<1>3. QED
  BY <1>1, <1>2 DEF Held

\* The same of the next state.
LEMMA WriterIsOneNext ==
  ASSUME TypeOK', AloneWithFile', NEW r \in Runs, pc'[r] = "writing", job' = job,
         NEW f \in Files, FileFor(r) = f
  PROVE  Held'[f] = doc'[r]
<1>1. \A s \in Runs : Writes(s, f)' <=> s = r
  BY DEF AloneWithFile, Writes, Holding, FileFor
<1>2. (CHOOSE s \in Runs : Writes(s, f)') = r
  BY <1>1
<1>3. QED
  BY <1>1, <1>2 DEF Held

\* A file keeps what it holds if its writer, if any, goes on writing the
\* same document, and its text on the disk does not change.
LEMMA HeldKept ==
  ASSUME TypeOK, AloneWithFile, TypeOK', AloneWithFile', job' = job, NEW f \in Files,
         \A s \in Runs : Writes(s, f)' <=> Writes(s, f),
         \A s \in Runs : Writes(s, f) => doc'[s] = doc[s],
         disk'[f] = disk[f]
  PROVE  Held'[f] = Held[f]
<1>1. CASE \E s \in Runs : Writes(s, f)
  <2>1. PICK s \in Runs : Writes(s, f)
    BY <1>1
  <2>2. /\ FileFor(s) = f /\ pc[s] = "writing" /\ pc'[s] = "writing"
        /\ doc'[s] = doc[s]
    BY <2>1 DEF Writes, FileFor
  <2>3. QED
    BY <2>2, WriterIsOne, WriterIsOneNext
<1>2. CASE ~ \E s \in Runs : Writes(s, f)
  BY <1>2 DEF Held
<1>3. QED
  BY <1>1, <1>2

\* A step of a run on its own file is an edit, a loss, or nothing to RadStore.
LEMMA StepRefines ==
  ASSUME IInv, IInv', NEW r \in Runs, Step(r) \/ Kill(r)
  PROVE  Store!Next \/ Held' = Held
<1>a. PICK f \in Files : FileFor(r) = f
  BY Naming DEF IInv
<1>0. /\ TypeOK /\ AloneWithFile /\ TypeOK' /\ AloneWithFile'
      /\ EditIsCurrent /\ SaveInv
  <2>1. (TypeOK /\ LockInv => AloneWithFile)'
    BY Alone, PTL
  <2>2. QED
    BY <2>1, Alone DEF IInv
<1>1. /\ job' = job /\ f \in Files /\ job[r].delta \in Deltas
      /\ DOMAIN pc = Runs /\ DOMAIN disk = Files /\ DOMAIN doc = Runs
  BY <1>a, <1>0, Naming DEF TypeOK, Step, Kill, CreateLock, LockRefused, TakeLock,
     TakeLockFails, Read, ReadFails, Modify, ModifyFails, ModifyCrashes, Open,
     OpenFails, Write, WriteFails, ReleaseLock, RemoveLock
<1>2. Held = [g \in Files |-> Held[g]] /\ Held' = [g \in Files |-> Held'[g]]
  BY DEF Held
\* The writers of the other files.
<1>3. \A s \in Runs : s # r => pc'[s] = pc[s] /\ doc'[s] = doc[s]
  BY <1>a, <1>1 DEF Step, Kill, Die, Fail, Goto, CreateLock, LockRefused, TakeLock,
     TakeLockFails, Read, ReadFails, Modify, ModifyFails, ModifyCrashes, Open,
     OpenFails, Write, WriteFails, ReleaseLock, RemoveLock
<1>4. \A g \in Files : g # f => disk'[g] = disk[g]
  BY <1>a, <1>1 DEF Step, Kill, Die, Fail, Goto, CreateLock, LockRefused, TakeLock,
     TakeLockFails, Read, ReadFails, Modify, ModifyFails, ModifyCrashes, Open,
     OpenFails, Write, WriteFails, ReleaseLock, RemoveLock
<1>5. \A g \in Files : g # f => Held'[g] = Held[g]
  <2> SUFFICES ASSUME NEW g \in Files, g # f PROVE Held'[g] = Held[g]
    OBVIOUS
  <2>1. /\ \A s \in Runs : Writes(s, g)' <=> Writes(s, g)
        /\ \A s \in Runs : Writes(s, g) => doc'[s] = doc[s]
    BY <1>a, <1>1, <1>3 DEF Writes, FileFor
  <2>2. QED
    BY <1>a, <1>0, <1>1, <1>4, <2>1, HeldKept
<1>6. CASE Open(r)
  <2>1. /\ pc[r] = "save" /\ pc'[r] = "writing" /\ doc' = doc
    BY <1>a, <1>1, <1>6 DEF Open, Goto
  <2>2. \A s \in Runs : ~Writes(s, f)
    BY <1>a, <1>0, <2>1 DEF AloneWithFile, Writes, Holding
  <2>3. Held[f] = disk[f]
    BY <1>a, <1>1, <2>2 DEF Held
  <2>4. Held'[f] = doc[r]
    BY <1>a, <1>0, <1>1, <2>1, WriterIsOneNext
  <2>5. PICK o \in Outcomes(job[r].delta, Held[f]) : o.kind = "edited" /\ o.doc = doc[r]
    BY <1>a, <1>0, <2>1, <2>3 DEF EditIsCurrent
  <2>6. Held[f] # Unreadable /\ Valid(o.doc)
    BY <1>a, <1>0, <2>1, <2>3, <2>5 DEF SaveInv
  <2>7. Held' = [Held EXCEPT ![f] = o.doc]
    BY <1>a, <1>1, <1>2, <1>5, <2>4, <2>5
  <2>8. Store!Edit(f)
    BY <1>a, <1>1, <2>5, <2>6, <2>7 DEF Store!Edit, Held
  <2>9. QED
    BY <1>a, <1>1, <2>8 DEF Store!Next
<1>7. CASE Write(r)
  <2>1. /\ pc[r] = "writing" /\ pc'[r] = "drop" /\ disk'[f] = doc[r]
    BY <1>a, <1>1, <1>7 DEF Write, Goto
  <2>2. Held[f] = doc[r]
    BY <1>a, <1>0, <2>1, WriterIsOne
  <2>3. \A s \in Runs : ~Writes(s, f)'
    BY <1>a, <1>0, <1>1, <1>3, <2>1 DEF AloneWithFile, Writes, Holding, FileFor
  <2>4. Held'[f] = doc[r]
    BY <1>a, <1>1, <2>1, <2>3 DEF Held
  <2>5. QED
    BY <1>a, <1>2, <1>5, <2>2, <2>4
<1>8. CASE pc[r] = "writing" /\ (WriteFails(r) \/ Kill(r))
  <2>1. pc'[r] \in {"drop", "dead"} /\ disk'[f] = Unreadable
    BY <1>a, <1>0, <1>1, <1>8 DEF WriteFails, Kill, Die, Goto, SaveInv
  <2>2. \A s \in Runs : ~Writes(s, f)'
    BY <1>a, <1>0, <1>1, <1>3, <1>8, <2>1 DEF AloneWithFile, Writes, Holding, FileFor
  <2>3. Held'[f] = Unreadable
    BY <1>a, <1>1, <2>1, <2>2 DEF Held
  <2>4. Held' = [Held EXCEPT ![f] = Unreadable]
    BY <1>a, <1>1, <1>2, <1>5, <2>3
  <2>5. QED
    BY <1>a, <1>1, <2>4 DEF Store!Next, Store!Lose, Held
<1>9. CASE pc[r] # "writing" /\ ~Open(r)
  <2>1. pc'[r] # "writing" /\ disk'[f] = disk[f]
    BY <1>a, <1>1, <1>9 DEF Step, Kill, Die, Fail, Goto, CreateLock, LockRefused,
       TakeLock, TakeLockFails, Read, ReadFails, Modify, ModifyFails,
       ModifyCrashes, OpenFails, Write, WriteFails, ReleaseLock, RemoveLock
  <2>2. /\ \A s \in Runs : Writes(s, f)' <=> Writes(s, f)
        /\ \A s \in Runs : Writes(s, f) => doc'[s] = doc[s]
    BY <1>a, <1>1, <1>3, <1>9, <2>1 DEF Writes, FileFor
  <2>3. Held'[f] = Held[f]
    BY <1>a, <1>0, <1>1, <2>1, <2>2, HeldKept
  <2>4. QED
    BY <1>a, <1>2, <1>5, <2>3
<1>10. pc[r] = "writing" => Write(r) \/ WriteFails(r) \/ Kill(r)
  BY DEF Step, CreateLock, LockRefused, TakeLock, TakeLockFails, Read,
     ReadFails, Modify, ModifyFails, ModifyCrashes, Open, OpenFails,
     ReleaseLock, RemoveLock
<1>11. QED
  BY <1>a, <1>6, <1>7, <1>8, <1>9, <1>10

\* However runs interleave and die, a description file changes only by whole
\* edits of what it holds, each with a valid result, or is lost.
THEOREM StoreImplemented == Spec => ImplementsStore
<1>1. Init => Store!Init
  <2> SUFFICES ASSUME Init PROVE Store!Init
    OBVIOUS
  <2>1. \A r \in Runs, f \in Files : ~Writes(r, f)
    BY DEF Init, Writes
  <2>2. QED
    BY <2>1 DEF Init, Store!Init
<1>2. IInv /\ IInv' /\ [Next]_vars => [Store!Next]_Held
  <2> SUFFICES ASSUME IInv, IInv', [Next]_vars PROVE Store!Next \/ Held' = Held
    OBVIOUS
  <2>1. CASE Next
    BY <2>1, StepRefines DEF Next
  <2>2. CASE UNCHANGED vars
    BY <2>2 DEF vars, Held, Writes, FileFor
  <2>3. QED
    BY <2>1, <2>2
<1>3. QED
  BY <1>1, <1>2, Invariance, PTL DEF Spec, ImplementsStore, Store!Spec, Held
=============================================================================
