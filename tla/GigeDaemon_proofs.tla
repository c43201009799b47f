-------------------------- MODULE GigeDaemon_proofs -------------------------
(***************************************************************************)
(* For any number of daemons and readers: one daemon at a time gets past   *)
(* a lock file until one is stopped, a daemon that starts alone keeps      *)
(* its segment, and a reader gets a list that was written as a whole       *)
(* unless the semaphore was reset.                                         *)
(***************************************************************************)
EXTENDS GigeDaemon, TLAPS

MainPcs == {"start", "create", "open", "lockf", "refused", "registered", "semaphore", "sigwait", "unlock", "remove",
            "join", "destroy", "exit", "crashed"}
WorkPcs == {"none", "wait", "lock", "attach", "entries", "unlock", "end"}
ReadPcs == {"start", "segment", "create", "lock", "lock_library", "count", "count_library", "entries",
            "entries_library", "unlock", "unlock_library", "destroy", "done", "crashed"}

Known == Lists \cup {None}
MainType == [pc : MainPcs, inode : Daemons \cup {None}, shm : Nat, sem : Nat,
             sig : BOOLEAN, early : BOOLEAN, cont : BOOLEAN]
ReadType == [pc : ReadPcs, shm : Nat, sem : Nat, count : Known, entries : Known]

DaemonTypes ==
  /\ gdFile \in Daemons \cup {None}
  /\ gdPid \in [Daemons -> Daemons \cup {None}] /\ gdFlock \in [Daemons -> Daemons \cup {None}]
  /\ gdIds \in Nat /\ gdShm \in [id : Nat, count : Known, entries : Known] /\ gdSem \in [id : Nat, val : Nat]
  /\ gdMain \in [Daemons -> MainType] /\ gdWork \in [Daemons -> [pc : WorkPcs, list : Known]]
  /\ gdRead \in [Readers -> ReadType]
  /\ gdEvents \subseteq {"stop", "removed", "reset", "overlap", "kill"}

(* No id is higher than the last one.                                      *)
IdsGrow ==
  /\ gdShm.id <= gdIds /\ gdSem.id <= gdIds
  /\ \A d \in Daemons : /\ gdMain[d].shm <= gdIds
                        /\ gdMain[d].pc \in {"semaphore", "sigwait", "unlock", "remove", "join"} => gdMain[d].shm # 0
  /\ \A r \in Readers : gdRead[r].shm <= gdIds

(* Until a daemon is stopped whoever got past its lock file has it locked, *)
(* and until a refused start removes it that file is the one of the name.  *)
LockedUntilStop ==
  "stop" \notin gdEvents =>
    \A d \in Daemons :
      /\ ~gdMain[d].sig
      /\ gdMain[d].pc \in {"start", "create", "open", "lockf", "refused", "registered", "semaphore", "sigwait",
                           "exit", "crashed"}
      /\ gdMain[d].pc \in {"lockf", "registered", "semaphore", "sigwait"} => gdMain[d].inode # None
      /\ gdMain[d].pc \in {"registered", "semaphore", "sigwait"} => gdFlock[gdMain[d].inode] = d
      /\ "removed" \notin gdEvents /\ gdMain[d].pc \in {"lockf", "registered", "semaphore", "sigwait"}
           => gdMain[d].inode = gdFile

(* A worker runs only while its main thread waits for a signal or for it.  *)
WorksForMain ==
  \A d \in Daemons : gdWork[d].pc \notin {"none", "end"} => gdMain[d].pc \in {"sigwait", "unlock", "remove", "join"}

(* Without overlapping starts one daemon runs, and its segment is the one  *)
(* behind the key.                                                         *)
AloneWithSegment ==
  "overlap" \notin gdEvents =>
    /\ \A d, e \in Daemons : Alive(d) /\ Alive(e) => d = e
    /\ \A d \in Daemons : /\ gdMain[d].pc # "crashed"
                          /\ gdMain[d].pc \in {"semaphore", "sigwait", "unlock", "remove", "join"}
                               => gdShm.id = gdMain[d].shm

(* As long as nobody resets the semaphore everyone uses the same one, and  *)
(* one is inside.                                                          *)
Uses == {"segment", "lock", "lock_library", "count", "count_library", "entries", "entries_library",
         "unlock", "unlock_library", "destroy"}

OneInside ==
  "reset" \notin gdEvents =>
    /\ \A d \in Daemons : gdMain[d].pc \in {"sigwait", "unlock", "remove", "join", "destroy"}
                            => gdMain[d].sem = gdSem.id /\ gdSem.id # 0
    /\ \A r \in Readers : gdRead[r].pc \in Uses => gdRead[r].sem = gdSem.id /\ gdSem.id # 0
    /\ gdSem.val \in {0, 1}
    /\ \A d \in Daemons : gdWork[d].pc \in Critical => gdSem.val = 0
    /\ \A r \in Readers : gdRead[r].pc \in Critical => gdSem.val = 0
    /\ \A d, e \in Daemons : gdWork[d].pc \in Critical /\ gdWork[e].pc \in Critical => d = e
    /\ \A r, q \in Readers : gdRead[r].pc \in Critical /\ gdRead[q].pc \in Critical => r = q
    /\ \A d \in Daemons, r \in Readers : ~(gdWork[d].pc \in Critical /\ gdRead[r].pc \in Critical)

(* Who has started its worker on the segment behind the key found nobody   *)
(* inside who was using another one.                                       *)
SameSegment ==
  "reset" \notin gdEvents =>
    \A d \in Daemons :
      gdMain[d].pc \in {"sigwait", "unlock", "remove", "join"} /\ gdMain[d].shm = gdShm.id =>
        /\ \A e \in Daemons : gdWork[e].pc = "entries" => gdMain[e].shm = gdShm.id
        /\ \A r \in Readers : gdRead[r].pc \in {"entries", "entries_library"} => gdRead[r].shm = gdShm.id

(* Count and entries differ only while a worker is between them.           *)
Writes(d) == gdWork[d].pc = "entries" /\ gdShm.id \in {0, gdMain[d].shm}

WholeList ==
  "reset" \notin gdEvents =>
    /\ \A d \in Daemons : Writes(d) => gdShm.count = gdWork[d].list
    /\ (\A d \in Daemons : ~Writes(d)) => gdShm.count = gdShm.entries
    /\ \A r \in Readers :
         /\ gdRead[r].pc \in {"start", "segment", "create", "lock", "lock_library", "count", "count_library"}
              => gdRead[r].count = None /\ gdRead[r].entries = None
         /\ gdRead[r].pc \in {"entries", "entries_library"} /\ gdShm.id \in {0, gdRead[r].shm}
              => gdRead[r].count = gdShm.count
         /\ gdRead[r].pc \in {"unlock", "unlock_library", "destroy", "done"} => gdRead[r].entries = gdRead[r].count

DaemonInv == DaemonTypes /\ IdsGrow /\ LockedUntilStop /\ WorksForMain /\ AloneWithSegment /\ OneInside
             /\ SameSegment /\ WholeList

(* A record of the main thread with some fields replaced keeps its fields. *)
LEMMA MainUpdates ==
  ASSUME NEW m \in [Daemons -> MainType], NEW d \in Daemons, NEW p \in MainPcs, NEW i \in Daemons \cup {None},
         NEW s \in Nat, NEW b \in BOOLEAN
  PROVE  /\ [m EXCEPT ![d].pc = p] \in [Daemons -> MainType]
         /\ [m EXCEPT ![d].pc = p, ![d].inode = i] \in [Daemons -> MainType]
         /\ [m EXCEPT ![d].pc = p, ![d].shm = s] \in [Daemons -> MainType]
         /\ [m EXCEPT ![d].pc = p, ![d].sem = s] \in [Daemons -> MainType]
         /\ [m EXCEPT ![d].pc = p, ![d].early = b] \in [Daemons -> MainType]
BY ZenonT(30) DEF MainType

(* The same for the record of a reader.                                    *)
LEMMA ReadUpdates ==
  ASSUME NEW m \in [Readers -> ReadType], NEW r \in Readers, NEW p \in ReadPcs, NEW s \in Nat
  PROVE  /\ [m EXCEPT ![r].pc = p] \in [Readers -> ReadType]
         /\ [m EXCEPT ![r].pc = p, ![r].shm = s] \in [Readers -> ReadType]
         /\ [m EXCEPT ![r].pc = p, ![r].sem = s] \in [Readers -> ReadType]
BY Zenon DEF ReadType

(* Every step of the main thread keeps the types.                          *)
LEMMA MainTypes ==
  ASSUME DaemonTypes, NEW d \in Daemons, gdMainThread(d)
  PROVE  DaemonTypes'
<1>t. /\ gdMain \in [Daemons -> MainType] /\ gdRead \in [Readers -> ReadType] /\ gdIds \in Nat
      /\ gdWork \in [Daemons -> [pc : WorkPcs, list : Known]]
      /\ gdFile \in Daemons \cup {None} /\ gdShm.id \in Nat /\ gdSem.id \in Nat
      /\ gdShm.count \in Known /\ gdShm.entries \in Known
  BY DEF DaemonTypes
<1>m. gdMain \in [Daemons -> MainType]
  BY <1>t
<1>r. gdRead \in [Readers -> ReadType]
  BY <1>t
<1>1. CASE daemonize(d)
  <2>1. gdMain' \in [Daemons -> MainType]
    BY <1>t, <1>1, SMTT(30) DEF MainType, MainPcs, daemonize, MainStep
  <2> QED
    BY <1>1, <2>1 DEF DaemonTypes, Known, None, daemonize, MainStep
<1>2. CASE create_lock_file(d)
  <2>1. gdMain' \in [Daemons -> MainType]
    BY <1>t, <1>2, SMTT(30) DEF MainType, MainPcs, create_lock_file, MainStep
  <2> QED
    BY <1>2, <2>1 DEF DaemonTypes, Known, None, create_lock_file, MainStep
<1>3. CASE OpenLockFile(d)
  <2>0. PICK i \in Daemons \cup {None} : gdMain' = [gdMain EXCEPT ![d].pc = "lockf", ![d].inode = i]
    BY <1>t, <1>3, Zenon DEF MainPcs, OpenLockFile
  <2>p. "lockf" \in MainPcs
    BY DEF MainPcs
  <2>1. gdMain' \in [Daemons -> MainType]
    BY <1>m, <2>0, <2>p, MainUpdates, Zenon
  <2> QED
    BY <1>3, <2>1 DEF DaemonTypes, Known, None, OpenLockFile
<1>4. CASE LockLockFile(d)
  <2>1. gdMain' \in [Daemons -> MainType]
    BY <1>t, <1>4 DEF MainType, MainPcs, LockLockFile, MainStep
  <2>4. gdFlock' \in [Daemons -> Daemons \cup {None}] /\ gdPid' \in [Daemons -> Daemons \cup {None}]
    <3>1. gdFlock \in [Daemons -> Daemons \cup {None}] /\ gdPid \in [Daemons -> Daemons \cup {None}]
      BY DEF DaemonTypes
    <3> QED
      BY <3>1, <1>4 DEF LockLockFile
  <2> QED
    BY <1>4, <2>1, <2>4 DEF DaemonTypes, Known, None, LockLockFile, MainStep
<1>5. CASE CameraListHolder(d)
  <2>s. gdShm'.id \in Nat
    BY <1>t, <1>5 DEF CameraListHolder, GetSegment
  <2>0. \/ \E p \in {"exit", "refused"} : gdMain' = [gdMain EXCEPT ![d].pc = p]
        \/ \E s \in Nat : gdMain' = [gdMain EXCEPT ![d].pc = "semaphore", ![d].shm = s]
    BY <1>t, <1>5, <2>s DEF MainPcs, CameraListHolder
  <2>p. "exit" \in MainPcs /\ "refused" \in MainPcs /\ "semaphore" \in MainPcs
    BY DEF MainPcs
  <2>1. gdMain' \in [Daemons -> MainType]
    <3>1. CASE \E p \in {"exit", "refused"} : gdMain' = [gdMain EXCEPT ![d].pc = p]
      <4>1. PICK p \in MainPcs : gdMain' = [gdMain EXCEPT ![d].pc = p]
        BY <3>1, <2>p
      <4> QED
        BY <1>m, <4>1, MainUpdates, Zenon
    <3>2. CASE \E s \in Nat : gdMain' = [gdMain EXCEPT ![d].pc = "semaphore", ![d].shm = s]
      <4>1. PICK s \in Nat : gdMain' = [gdMain EXCEPT ![d].pc = "semaphore", ![d].shm = s]
        BY <3>2, Zenon
      <4> QED
        BY <1>m, <2>p, <4>1, MainUpdates, Zenon
    <3> QED
      BY <2>0, <3>1, <3>2
  <2>2. gdFlock' \in [Daemons -> Daemons \cup {None}]
    <3>1. gdFlock \in [Daemons -> Daemons \cup {None}]
      BY DEF DaemonTypes
    <3> QED
      BY <3>1, <1>5 DEF CameraListHolder
  <2>3. gdShm' \in [id : Nat, count : Known, entries : Known] /\ gdIds' \in Nat
    BY <1>5, <1>t DEF DaemonTypes, Known, CameraListHolder, GetSegment
  <2>4. UNCHANGED <<gdFile, gdPid, gdSem, gdWork, gdRead, gdEvents>>
    BY <1>5 DEF CameraListHolder
  <2> QED
    BY <2>1, <2>2, <2>3, <2>4 DEF DaemonTypes
<1>6. CASE StartWorker(d)
  <2>s. gdSem'.id \in Nat
    BY <1>t, <1>6 DEF StartWorker, semaphore_create
  <2>0. PICK s \in Nat : gdMain' = [gdMain EXCEPT ![d].pc = "sigwait", ![d].sem = s]
    BY <1>t, <1>6, <2>s, Zenon DEF MainPcs, StartWorker
  <2>p. "sigwait" \in MainPcs
    BY DEF MainPcs
  <2>1. gdMain' \in [Daemons -> MainType]
    BY <1>m, <2>0, <2>p, MainUpdates, Zenon
  <2>2. gdWork' \in [Daemons -> [pc : WorkPcs, list : Known]]
    BY <1>t, <1>6 DEF WorkPcs, Known, StartWorker, semaphore_create
  <2> QED
    BY <1>6, <2>1, <2>2 DEF DaemonTypes, Known, None, StartWorker, semaphore_create
<1>7. CASE stop(d)
  <2>1. gdMain' \in [Daemons -> MainType]
    BY <1>t, <1>7 DEF MainType, MainPcs, stop
  <2>2. gdWork' \in [Daemons -> [pc : WorkPcs, list : Known]]
    BY <1>t, <1>7 DEF WorkPcs, Known, stop
  <2> QED
    BY <1>7, <2>1, <2>2 DEF DaemonTypes, Known, None, stop
<1>8. CASE destroy_lock_file(d)
  <2>1. gdMain' \in [Daemons -> MainType]
    BY <1>t, <1>8 DEF MainType, MainPcs, destroy_lock_file, MainStep
  <2> QED
    BY <1>8, <2>1, Zenon DEF DaemonTypes, Known, None, destroy_lock_file, MainStep
<1>9. CASE RemoveLockFile(d)
  <2>0. PICK p \in MainPcs : gdMain' = [gdMain EXCEPT ![d].pc = p, ![d].early = FALSE]
    BY <1>t, <1>9, Zenon DEF MainPcs, RemoveLockFile
  <2>p. FALSE \in BOOLEAN
    OBVIOUS
  <2>1. gdMain' \in [Daemons -> MainType]
    BY <1>m, <2>0, <2>p, MainUpdates, Zenon
  <2> QED
    BY <1>9, <2>1 DEF DaemonTypes, Known, None, RemoveLockFile
<1>10. CASE DestroyHolder(d)
  <2>1. gdMain' \in [Daemons -> MainType]
    BY <1>t, <1>10, SMTT(30) DEF MainType, MainPcs, DestroyHolder, MainStep
  <2> QED
    BY <1>10, <2>1 DEF DaemonTypes, Known, None, DestroyHolder, MainStep
<1>11. CASE DestroySemaphore(d)
  <2>p. "exit" \in MainPcs
    BY DEF MainPcs
  <2>0. gdMain' = [gdMain EXCEPT ![d].pc = "exit"]
    BY <1>11 DEF DestroySemaphore, MainStep
  <2>1. gdMain' \in [Daemons -> MainType]
    BY <1>m, <2>0, <2>p, MainUpdates, Zenon
  <2> QED
    BY <1>11, <2>1 DEF DaemonTypes, Known, None, DestroySemaphore, MainStep, semaphore_destroy
<1>12. CASE ExitRemovesLockFile(d)
  <2>p. "exit" \in MainPcs
    BY DEF MainPcs
  <2>0. gdMain' = [gdMain EXCEPT ![d].pc = "exit"]
    BY <1>12 DEF ExitRemovesLockFile, MainStep
  <2>1. gdMain' \in [Daemons -> MainType]
    BY <1>m, <2>0, <2>p, MainUpdates, Zenon
  <2> QED
    BY <1>12, <2>1 DEF DaemonTypes, Known, None, ExitRemovesLockFile, MainStep
<1> QED
  BY <1>1, <1>2, <1>3, <1>4, <1>5, <1>6, <1>7, <1>8, <1>9, <1>10, <1>11, <1>12 DEF gdMainThread

(* Every step of the worker keeps the types.                               *)
LEMMA WorkTypes ==
  ASSUME DaemonTypes, NEW d \in Daemons, gdWorker(d)
  PROVE  DaemonTypes'
<1>t. /\ gdMain \in [Daemons -> MainType] /\ gdRead \in [Readers -> ReadType] /\ gdIds \in Nat
      /\ gdWork \in [Daemons -> [pc : WorkPcs, list : Known]]
      /\ gdFile \in Daemons \cup {None} /\ gdShm.id \in Nat /\ gdSem.id \in Nat
      /\ gdShm.count \in Known /\ gdShm.entries \in Known
  BY DEF DaemonTypes
<1>m. gdMain \in [Daemons -> MainType]
  BY <1>t
<1>r. gdRead \in [Readers -> ReadType]
  BY <1>t
<1>1. CASE IndexNetwork(d)
  <2>2. gdWork' \in [Daemons -> [pc : WorkPcs, list : Known]]
    BY <1>t, <1>1 DEF WorkPcs, Known, IndexNetwork, LoopAgain
  <2> QED
    BY <1>1, <2>2 DEF DaemonTypes, Known, None, IndexNetwork, LoopAgain
<1>2. CASE LockList(d)
  <2>2. gdWork' \in [Daemons -> [pc : WorkPcs, list : Known]]
    BY <1>t, <1>2 DEF WorkPcs, Known, LockList, WorkStep, semaphore_lock
  <2> QED
    BY <1>2, <2>2 DEF DaemonTypes, Known, None, LockList, WorkStep, semaphore_lock
<1>3. CASE AttachAndCount(d)
  <2>0. gdMain' = gdMain \/ gdMain' = [gdMain EXCEPT ![d].pc = "crashed"]
    BY <1>t, <1>3 DEF MainPcs, AttachAndCount
  <2>p. "crashed" \in MainPcs
    BY DEF MainPcs
  <2>1. gdMain' \in [Daemons -> MainType]
    <3>1. CASE gdMain' = [gdMain EXCEPT ![d].pc = "crashed"]
      BY <1>m, <2>p, <3>1, MainUpdates, Zenon
    <3> QED
      BY <1>m, <2>0, <3>1
  <2>2. gdWork' \in [Daemons -> [pc : WorkPcs, list : Known]]
    BY <1>t, <1>3 DEF WorkPcs, Known, AttachAndCount
  <2> QED
    BY <1>3, <2>1, <2>2 DEF DaemonTypes, Known, None, AttachAndCount
<1>4. CASE WriteEntries(d)
  <2>2. gdWork' \in [Daemons -> [pc : WorkPcs, list : Known]]
    BY <1>t, <1>4 DEF WorkPcs, Known, WriteEntries, WorkStep
  <2> QED
    BY <1>4, <2>2, Zenon DEF DaemonTypes, Known, None, WriteEntries, WorkStep
<1>5. CASE UnlockList(d)
  <2>2. gdWork' \in [Daemons -> [pc : WorkPcs, list : Known]]
    BY <1>t, <1>5 DEF WorkPcs, Known, UnlockList, WorkStep, semaphore_unlock, LoopAgain
  <2> QED
    BY <1>5, <2>2 DEF DaemonTypes, Known, None, UnlockList, WorkStep, semaphore_unlock, LoopAgain
<1> QED
  BY <1>1, <1>2, <1>3, <1>4, <1>5 DEF gdWorker

(* Every step of a reader keeps the types.                                 *)
LEMMA ReadTypes ==
  ASSUME DaemonTypes, NEW r \in Readers, gdReader(r) \/ KillReader(r)
  PROVE  DaemonTypes'
<1>t. /\ gdMain \in [Daemons -> MainType] /\ gdRead \in [Readers -> ReadType] /\ gdIds \in Nat
      /\ gdWork \in [Daemons -> [pc : WorkPcs, list : Known]]
      /\ gdFile \in Daemons \cup {None} /\ gdShm.id \in Nat /\ gdSem.id \in Nat
      /\ gdShm.count \in Known /\ gdShm.entries \in Known
  BY DEF DaemonTypes
<1>m. gdMain \in [Daemons -> MainType]
  BY <1>t
<1>r. gdRead \in [Readers -> ReadType]
  BY <1>t
<1>1. CASE get_camera_list(r)
  <2>s. gdSem'.id \in Nat
    BY <1>t, <1>1 DEF get_camera_list, semaphore_create
  <2>0. PICK s \in Nat : gdRead' = [gdRead EXCEPT ![r].pc = "segment", ![r].sem = s]
    BY <1>t, <1>1, <2>s, Zenon DEF ReadPcs, get_camera_list
  <2>p. "segment" \in ReadPcs
    BY DEF ReadPcs
  <2>3. gdRead' \in [Readers -> ReadType]
    BY <1>r, <2>0, <2>p, ReadUpdates, Zenon
  <2> QED
    BY <1>1, <2>3 DEF DaemonTypes, Known, None, get_camera_list, semaphore_create
<1>2. CASE GetListSegment(r)
  <2>s. gdShm'.id \in Nat
    BY <1>t, <1>2 DEF GetListSegment, GetSegment
  <2>0. PICK s \in Nat : gdRead' = [gdRead EXCEPT ![r].pc = "lock", ![r].shm = s]
    BY <1>t, <1>2, <2>s, Zenon DEF ReadPcs, GetListSegment
  <2>p. "lock" \in ReadPcs
    BY DEF ReadPcs
  <2>3. gdRead' \in [Readers -> ReadType]
    BY <1>r, <2>0, <2>p, ReadUpdates, Zenon
  <2> QED
    BY <1>2, <2>3 DEF DaemonTypes, Known, None, GetListSegment, GetSegment
<1>3. CASE fetch_gige_daemon_device_list(r)
  <2>0. PICK s \in Nat : gdRead' = [gdRead EXCEPT ![r].pc = "create", ![r].shm = s]
    BY <1>t, <1>3, Zenon DEF ReadPcs, fetch_gige_daemon_device_list
  <2>p. "create" \in ReadPcs
    BY DEF ReadPcs
  <2>3. gdRead' \in [Readers -> ReadType]
    BY <1>r, <2>0, <2>p, ReadUpdates, Zenon
  <2> QED
    BY <1>3, <2>3 DEF DaemonTypes, Known, None, fetch_gige_daemon_device_list
<1>4. CASE CreateReaderSemaphore(r)
  <2>s. gdSem'.id \in Nat
    BY <1>t, <1>4 DEF CreateReaderSemaphore, semaphore_create
  <2>0. PICK s \in Nat : gdRead' = [gdRead EXCEPT ![r].pc = "lock_library", ![r].sem = s]
    BY <1>t, <1>4, <2>s, Zenon DEF ReadPcs, CreateReaderSemaphore
  <2>p. "lock_library" \in ReadPcs
    BY DEF ReadPcs
  <2>3. gdRead' \in [Readers -> ReadType]
    BY <1>r, <2>0, <2>p, ReadUpdates, Zenon
  <2> QED
    BY <1>4, <2>3 DEF DaemonTypes, Known, None, CreateReaderSemaphore, semaphore_create
<1>5. CASE LockForReading(r)
  <2>3. gdRead' \in [Readers -> ReadType]
    BY <1>t, <1>5, SMTT(30) DEF ReadType, ReadPcs, LockForReading, ReadStep, semaphore_lock
  <2> QED
    BY <1>5, <2>3 DEF DaemonTypes, Known, None, LockForReading, ReadStep, semaphore_lock
<1>6. CASE ReadCount(r)
  <2>3. gdRead' \in [Readers -> ReadType]
    BY <1>t, <1>6 DEF ReadType, ReadPcs, ReadCount
  <2> QED
    BY <1>6, <2>3 DEF DaemonTypes, Known, None, ReadCount
<1>7. CASE ReadEntries(r)
  <2>3. gdRead' \in [Readers -> ReadType]
    BY <1>t, <1>7 DEF ReadType, ReadPcs, ReadEntries
  <2> QED
    BY <1>7, <2>3 DEF DaemonTypes, Known, None, ReadEntries
<1>8. CASE UnlockAfterReading(r)
  <2>0. PICK p \in ReadPcs : gdRead' = [gdRead EXCEPT ![r].pc = p]
    BY <1>t, <1>8 DEF ReadPcs, UnlockAfterReading, ReadStep
  <2>3. gdRead' \in [Readers -> ReadType]
    BY <1>r, <2>0, ReadUpdates, Zenon
  <2> QED
    BY <1>8, <2>3 DEF DaemonTypes, Known, None, UnlockAfterReading, ReadStep, semaphore_unlock
<1>9. CASE DestroyReaderSemaphore(r)
  <2>3. gdRead' \in [Readers -> ReadType]
    BY <1>t, <1>9 DEF ReadType, ReadPcs, DestroyReaderSemaphore, ReadStep, semaphore_destroy
  <2> QED
    BY <1>9, <2>3 DEF DaemonTypes, Known, None, DestroyReaderSemaphore, ReadStep, semaphore_destroy
<1>10. CASE KillReader(r)
  <2>3. gdRead' \in [Readers -> ReadType]
    BY <1>t, <1>10 DEF ReadType, ReadPcs, KillReader
  <2> QED
    BY <1>10, <2>3 DEF DaemonTypes, Known, None, KillReader
<1> QED
  BY <1>1, <1>2, <1>3, <1>4, <1>5, <1>6, <1>7, <1>8, <1>9, <1>10 DEF gdReader


(* The fields of the three kinds of record.                                *)
LEMMA DaemonFields ==
  ASSUME DaemonTypes
  PROVE  /\ gdIds \in Nat /\ gdShm.id \in Nat /\ gdSem.id \in Nat /\ gdSem.val \in Nat
         /\ \A d \in Daemons : gdMain[d].shm \in Nat /\ gdMain[d].inode \in Daemons \cup {None}
         /\ \A r \in Readers : gdRead[r].shm \in Nat
         /\ gdFile \in Daemons \cup {None}
         /\ \A i \in Daemons : gdFlock[i] \in Daemons \cup {None}
BY DEF DaemonTypes, MainType, ReadType

(* A reader that stays inside, or gives up there, lets nobody else in.     *)
LEMMA OneInsideKept ==
  ASSUME OneInside, gdEvents' = gdEvents, gdSem' = gdSem, gdMain' = gdMain, gdWork' = gdWork,
         \A q \in Readers : /\ gdRead'[q].pc \in Uses => gdRead[q].pc \in Uses
                            /\ gdRead'[q].pc \in Critical => gdRead[q].pc \in Critical
                            /\ gdRead'[q].sem = gdRead[q].sem
  PROVE  OneInside'
BY ZenonT(30) DEF OneInside

(* Main thread: daemonize ends when there is a lock file.                  *)
LEMMA daemonizeKeeps ==
  ASSUME DaemonInv, NEW d \in Daemons, daemonize(d)
  PROVE  DaemonInv'
<1>i. DaemonTypes /\ IdsGrow /\ LockedUntilStop /\ WorksForMain /\ AloneWithSegment /\ OneInside
      /\ SameSegment /\ WholeList
  BY DEF DaemonInv
<1>0. /\ gdMain[d].pc = "start"
      /\ gdFile' = gdFile /\ gdFlock' = gdFlock /\ gdShm' = gdShm /\ gdSem' = gdSem /\ gdIds' = gdIds /\ gdWork' = gdWork /\ gdRead' = gdRead
      /\ gdEvents' = IF gdFile = None /\ \E o \in Daemons \ {d} : Alive(o) THEN gdEvents \cup {"overlap"} ELSE gdEvents
      /\ \A e \in Daemons : e # d => gdMain'[e] = gdMain[e]
      /\ gdMain'[d].pc = (IF gdFile = None THEN "create" ELSE "exit") /\ gdMain'[d].inode = gdMain[d].inode
      /\ gdMain'[d].shm = gdMain[d].shm /\ gdMain'[d].sem = gdMain[d].sem
      /\ (gdMain'[d].sig <=> gdMain[d].sig)
  BY <1>i DEF DaemonTypes, MainType, ReadType, daemonize, MainStep
<1>t. DaemonTypes'
  BY <1>i, MainTypes DEF gdMainThread
<1>1. IdsGrow'
  BY <1>i, <1>0 DEF IdsGrow
<1>2. LockedUntilStop'
  BY <1>i, <1>0 DEF LockedUntilStop
<1>3. WorksForMain'
  BY <1>i, <1>0 DEF WorksForMain
<1>4. AloneWithSegment'
  BY <1>i, <1>0 DEF AloneWithSegment, Alive
<1>5. OneInside'
  BY <1>i, <1>0 DEF OneInside, Critical, Uses
<1>6. SameSegment'
  BY <1>i, <1>0 DEF SameSegment
<1>7. WholeList'
  BY <1>i, <1>0 DEF WholeList, Writes
<1> QED
  BY <1>t, <1>1, <1>2, <1>3, <1>4, <1>5, <1>6, <1>7 DEF DaemonInv

(* Main thread: create_lock_file, which the file must not exist for.       *)
LEMMA create_lock_fileKeeps ==
  ASSUME DaemonInv, NEW d \in Daemons, create_lock_file(d)
  PROVE  DaemonInv'
<1>i. DaemonTypes /\ IdsGrow /\ LockedUntilStop /\ WorksForMain /\ AloneWithSegment /\ OneInside
      /\ SameSegment /\ WholeList
  BY DEF DaemonInv
<1>0. /\ gdMain[d].pc = "create"
      /\ gdFile' = gdFile /\ gdFlock' = gdFlock /\ gdShm' = gdShm /\ gdSem' = gdSem /\ gdIds' = gdIds /\ gdEvents' = gdEvents /\ gdWork' = gdWork /\ gdRead' = gdRead
      /\ \A e \in Daemons : e # d => gdMain'[e] = gdMain[e]
      /\ gdMain'[d].pc = (IF gdFile = None THEN "open" ELSE "exit") /\ gdMain'[d].inode = gdMain[d].inode
      /\ gdMain'[d].shm = gdMain[d].shm /\ gdMain'[d].sem = gdMain[d].sem
      /\ (gdMain'[d].sig <=> gdMain[d].sig)
  BY <1>i DEF DaemonTypes, MainType, ReadType, create_lock_file, MainStep
<1>t. DaemonTypes'
  BY <1>i, MainTypes DEF gdMainThread
<1>1. IdsGrow'
  BY <1>i, <1>0 DEF IdsGrow
<1>2. LockedUntilStop'
  BY <1>i, <1>0, Zenon DEF LockedUntilStop
<1>3. WorksForMain'
  BY <1>i, <1>0 DEF WorksForMain
<1>4. AloneWithSegment'
  BY <1>i, <1>0, DaemonFields, DaemonAssumption DEF AloneWithSegment, Alive
<1>5. OneInside'
  BY <1>i, <1>0 DEF OneInside, Critical, Uses
<1>6. SameSegment'
  BY <1>i, <1>0, SMTT(30) DEF SameSegment
<1>7. WholeList'
  BY <1>i, <1>0 DEF WholeList, Writes
<1> QED
  BY <1>t, <1>1, <1>2, <1>3, <1>4, <1>5, <1>6, <1>7 DEF DaemonInv

(* Main thread: the lock file is opened or created.                        *)
LEMMA OpenLockFileKeeps ==
  ASSUME DaemonInv, NEW d \in Daemons, OpenLockFile(d)
  PROVE  DaemonInv'
<1>i. DaemonTypes /\ IdsGrow /\ LockedUntilStop /\ WorksForMain /\ AloneWithSegment /\ OneInside
      /\ SameSegment /\ WholeList
  BY DEF DaemonInv
<1>0. /\ gdMain[d].pc = "open"
      /\ gdFlock' = gdFlock /\ gdShm' = gdShm /\ gdSem' = gdSem /\ gdIds' = gdIds /\ gdEvents' = gdEvents /\ gdWork' = gdWork /\ gdRead' = gdRead
      /\ gdFile' = IF gdFile = None THEN d ELSE gdFile
      /\ \A e \in Daemons : e # d => gdMain'[e] = gdMain[e]
      /\ gdMain'[d].pc = "lockf" /\ gdMain'[d].inode = (IF gdFile = None THEN d ELSE gdFile)
      /\ gdMain'[d].shm = gdMain[d].shm /\ gdMain'[d].sem = gdMain[d].sem
      /\ (gdMain'[d].sig <=> gdMain[d].sig)
  BY <1>i DEF DaemonTypes, MainType, ReadType, OpenLockFile
<1>t. DaemonTypes'
  BY <1>i, MainTypes DEF gdMainThread
<1>1. IdsGrow'
  BY <1>i, <1>0, Zenon DEF IdsGrow
<1>2. LockedUntilStop'
  BY <1>i, <1>0, DaemonFields, DaemonAssumption DEF LockedUntilStop, None
<1>3. WorksForMain'
  BY <1>i, <1>0, DaemonFields, DaemonAssumption DEF WorksForMain, None
<1>4. AloneWithSegment'
  BY <1>i, <1>0, DaemonFields, DaemonAssumption DEF AloneWithSegment, Alive, None
<1>5. OneInside'
  BY <1>i, <1>0, DaemonFields, DaemonAssumption DEF OneInside, Critical, Uses, None
<1>6. SameSegment'
  BY <1>i, <1>0, DaemonFields, DaemonAssumption DEF SameSegment, None
<1>7. WholeList'
  BY <1>i, <1>0, DaemonFields, DaemonAssumption DEF WholeList, Writes, None
<1> QED
  BY <1>t, <1>1, <1>2, <1>3, <1>4, <1>5, <1>6, <1>7 DEF DaemonInv

(* Main thread: lockf, and the process id is written.                      *)
LEMMA LockLockFileKeeps ==
  ASSUME DaemonInv, NEW d \in Daemons, LockLockFile(d)
  PROVE  DaemonInv'
<1>i. DaemonTypes /\ IdsGrow /\ LockedUntilStop /\ WorksForMain /\ AloneWithSegment /\ OneInside
      /\ SameSegment /\ WholeList
  BY DEF DaemonInv
<1>0. /\ gdMain[d].pc = "lockf"
      /\ gdFile' = gdFile /\ gdShm' = gdShm /\ gdSem' = gdSem /\ gdIds' = gdIds /\ gdEvents' = gdEvents /\ gdWork' = gdWork /\ gdRead' = gdRead
      /\ \A i \in Daemons : gdFlock'[i] = IF gdFlock[gdMain[d].inode] = None /\ i = gdMain[d].inode THEN d ELSE gdFlock[i]
      /\ \A e \in Daemons : e # d => gdMain'[e] = gdMain[e]
      /\ gdMain'[d].pc = (IF gdFlock[gdMain[d].inode] = None THEN "registered" ELSE "refused") /\ gdMain'[d].inode = gdMain[d].inode
      /\ gdMain'[d].shm = gdMain[d].shm /\ gdMain'[d].sem = gdMain[d].sem
      /\ (gdMain'[d].sig <=> gdMain[d].sig)
  BY <1>i DEF DaemonTypes, MainType, ReadType, LockLockFile, MainStep
<1>t. DaemonTypes'
  BY <1>i, MainTypes DEF gdMainThread
<1>1. IdsGrow'
  BY <1>i, <1>0, DaemonFields, DaemonAssumption DEF IdsGrow, None
<1>2. LockedUntilStop'
  BY <1>i, <1>0, DaemonFields, DaemonAssumption DEF LockedUntilStop, None
<1>3. WorksForMain'
  BY <1>i, <1>0, DaemonFields, DaemonAssumption DEF WorksForMain, None
<1>4. AloneWithSegment'
  BY <1>i, <1>0, DaemonFields, DaemonAssumption DEF AloneWithSegment, Alive, None
<1>5. OneInside'
  BY <1>i, <1>0, SMTT(30) DEF OneInside, Critical, Uses
<1>6. SameSegment'
  BY <1>i, <1>0, DaemonFields, DaemonAssumption DEF SameSegment, None
<1>7. WholeList'
  BY <1>i, <1>0, DaemonFields, DaemonAssumption DEF WholeList, Writes, None
<1> QED
  BY <1>t, <1>1, <1>2, <1>3, <1>4, <1>5, <1>6, <1>7 DEF DaemonInv

(* Main thread: a process that ends with the lock file open removes it.    *)
LEMMA ExitRemovesLockFileKeeps ==
  ASSUME DaemonInv, NEW d \in Daemons, ExitRemovesLockFile(d)
  PROVE  DaemonInv'
<1>i. DaemonTypes /\ IdsGrow /\ LockedUntilStop /\ WorksForMain /\ AloneWithSegment /\ OneInside
      /\ SameSegment /\ WholeList
  BY DEF DaemonInv
<1>0. /\ gdMain[d].pc = "refused"
      /\ gdFlock' = gdFlock /\ gdShm' = gdShm /\ gdSem' = gdSem /\ gdIds' = gdIds /\ gdWork' = gdWork /\ gdRead' = gdRead
      /\ gdFile' = None /\ gdEvents' = gdEvents \cup {"removed"}
      /\ \A e \in Daemons : e # d => gdMain'[e] = gdMain[e]
      /\ gdMain'[d].pc = "exit" /\ gdMain'[d].inode = gdMain[d].inode
      /\ gdMain'[d].shm = gdMain[d].shm /\ gdMain'[d].sem = gdMain[d].sem
      /\ (gdMain'[d].sig <=> gdMain[d].sig)
  BY <1>i DEF DaemonTypes, MainType, ReadType, ExitRemovesLockFile, MainStep
<1>t. DaemonTypes'
  BY <1>i, MainTypes DEF gdMainThread
<1>1. IdsGrow'
  BY <1>i, <1>0 DEF IdsGrow
<1>2. LockedUntilStop'
  BY <1>i, <1>0 DEF LockedUntilStop
<1>3. WorksForMain'
  BY <1>i, <1>0 DEF WorksForMain
<1>4. AloneWithSegment'
  BY <1>i, <1>0 DEF AloneWithSegment, Alive
<1>5. OneInside'
  BY <1>i, <1>0 DEF OneInside, Critical, Uses
<1>6. SameSegment'
  BY <1>i, <1>0 DEF SameSegment
<1>7. WholeList'
  BY <1>i, <1>0 DEF WholeList, Writes
<1> QED
  BY <1>t, <1>1, <1>2, <1>3, <1>4, <1>5, <1>6, <1>7 DEF DaemonInv

(* Main thread: CameraListHolder makes the key and the segment, or ends.   *)
LEMMA CameraListHolderKeeps ==
  ASSUME DaemonInv, NEW d \in Daemons, CameraListHolder(d)
  PROVE  DaemonInv'
<1>i. DaemonTypes /\ IdsGrow /\ LockedUntilStop /\ WorksForMain /\ AloneWithSegment /\ OneInside
      /\ SameSegment /\ WholeList
  BY DEF DaemonInv
<1>0. /\ gdMain[d].pc = "registered"
      /\ gdFile' = gdFile /\ gdSem' = gdSem /\ gdEvents' = gdEvents /\ gdWork' = gdWork /\ gdRead' = gdRead
      /\ gdFile # None => gdFlock' = gdFlock
      /\ gdFile = None => \A i \in Daemons : gdFlock'[i] = IF i = gdMain[d].inode THEN None ELSE gdFlock[i]
      /\ IF gdFile # None /\ gdShm.id = 0 THEN gdShm'.id = gdIds + 1 /\ gdShm'.count = None /\ gdShm'.entries = None ELSE gdShm' = gdShm
      /\ gdIds' = IF gdFile # None /\ gdShm.id = 0 THEN gdIds + 1 ELSE gdIds
      /\ \A e \in Daemons : e # d => gdMain'[e] = gdMain[e]
      /\ IF gdFile = None THEN gdMain'[d].pc \in {"exit", "refused"} ELSE gdMain'[d].pc = "semaphore"
      /\ gdMain'[d].inode = gdMain[d].inode
      /\ gdMain'[d].shm = (IF gdFile = None THEN gdMain[d].shm ELSE IF gdShm.id = 0 THEN gdIds + 1 ELSE gdShm.id) /\ gdMain'[d].sem = gdMain[d].sem
      /\ (gdMain'[d].sig <=> gdMain[d].sig)
  BY <1>i DEF DaemonTypes, MainType, ReadType, CameraListHolder, GetSegment
<1>t. DaemonTypes'
  BY <1>i, MainTypes DEF gdMainThread
<1>1. IdsGrow'
  BY <1>i, <1>0, DaemonFields DEF IdsGrow
<1>2. LockedUntilStop'
  <2>1. SUFFICES ASSUME "stop" \notin gdEvents, NEW e \in Daemons
                 PROVE  LockedUntilStop!2!(e)'
    BY <1>0 DEF LockedUntilStop
  <2>2. LockedUntilStop!2!(e) /\ LockedUntilStop!2!(d)
    BY <1>i, <2>1 DEF LockedUntilStop
  <2>3. gdMain[e].inode \in Daemons \cup {None}
    BY <1>i, DaemonFields
  <2>4. CASE e = d
    BY <1>0, <2>2, <2>4
  <2>5. CASE e # d
    BY <1>0, <2>2, <2>3, <2>5
  <2> QED
    BY <2>4, <2>5
<1>3. WorksForMain'
  BY <1>i, <1>0, Zenon DEF WorksForMain
<1>4. AloneWithSegment'
  BY <1>i, <1>0, DaemonFields, DaemonAssumption DEF AloneWithSegment, Alive, None
<1>5. OneInside'
  BY <1>i, <1>0, Zenon DEF OneInside, Critical, Uses
<1>6. SameSegment'
  BY <1>i, <1>0, DaemonFields, DaemonAssumption DEF SameSegment, IdsGrow, None
<1>7. WholeList'
  BY <1>i, <1>0, DaemonFields, DaemonAssumption DEF WholeList, Writes, IdsGrow, WorksForMain, None
<1> QED
  BY <1>t, <1>1, <1>2, <1>3, <1>4, <1>5, <1>6, <1>7 DEF DaemonInv

(* Main thread: the semaphore, and the worker thread.                      *)
LEMMA StartWorkerKeeps ==
  ASSUME DaemonInv, NEW d \in Daemons, StartWorker(d)
  PROVE  DaemonInv'
<1>i. DaemonTypes /\ IdsGrow /\ LockedUntilStop /\ WorksForMain /\ AloneWithSegment /\ OneInside
      /\ SameSegment /\ WholeList
  BY DEF DaemonInv
<1>0. /\ gdMain[d].pc = "semaphore"
      /\ gdFile' = gdFile /\ gdFlock' = gdFlock /\ gdShm' = gdShm /\ gdRead' = gdRead
      /\ gdSem'.id = (IF gdSem.id = 0 THEN gdIds + 1 ELSE gdSem.id) /\ gdSem'.val = 1
      /\ gdIds' = IF gdSem.id = 0 THEN gdIds + 1 ELSE gdIds
      /\ gdEvents' = IF Inside # {} THEN gdEvents \cup {"reset"} ELSE gdEvents
      /\ \A e \in Daemons : e # d => gdMain'[e] = gdMain[e]
      /\ gdMain'[d].pc = "sigwait" /\ gdMain'[d].inode = gdMain[d].inode
      /\ gdMain'[d].shm = gdMain[d].shm /\ gdMain'[d].sem = (IF gdSem.id = 0 THEN gdIds + 1 ELSE gdSem.id)
      /\ (gdMain'[d].sig <=> gdMain[d].sig)
      /\ \A e \in Daemons : e # d => gdWork'[e] = gdWork[e]
      /\ gdWork'[d].pc = (IF gdMain[d].cont THEN "wait" ELSE "end") /\ gdWork'[d].list = gdWork[d].list
  BY <1>i DEF DaemonTypes, MainType, ReadType, StartWorker, semaphore_create
<1>t. DaemonTypes'
  BY <1>i, MainTypes DEF gdMainThread
<1>1. IdsGrow'
  BY <1>i, <1>0, DaemonFields, DaemonAssumption DEF IdsGrow
<1>2. LockedUntilStop'
  BY <1>i, <1>0, DaemonFields, DaemonAssumption DEF LockedUntilStop
<1>3. WorksForMain'
  BY <1>i, <1>0, DaemonFields, DaemonAssumption DEF WorksForMain
<1>4. AloneWithSegment'
  BY <1>i, <1>0, DaemonFields, DaemonAssumption DEF AloneWithSegment, Alive
<1>5. OneInside'
  BY <1>i, <1>0, DaemonFields, DaemonAssumption DEF OneInside, Critical, Uses, Inside, None
<1>6. SameSegment'
  BY <1>i, <1>0, DaemonFields, DaemonAssumption DEF SameSegment, Inside, Critical, None
<1>7. WholeList'
  BY <1>i, <1>0, DaemonFields, DaemonAssumption DEF WholeList, Writes, WorksForMain, None
<1> QED
  BY <1>t, <1>1, <1>2, <1>3, <1>4, <1>5, <1>6, <1>7 DEF DaemonInv

(* Main thread: sigwait returns, and stop wakes the worker if it waits.    *)
LEMMA stopKeeps ==
  ASSUME DaemonInv, NEW d \in Daemons, stop(d)
  PROVE  DaemonInv'
<1>i. DaemonTypes /\ IdsGrow /\ LockedUntilStop /\ WorksForMain /\ AloneWithSegment /\ OneInside
      /\ SameSegment /\ WholeList
  BY DEF DaemonInv
<1>0. /\ gdMain[d].pc = "sigwait" /\ gdMain[d].sig
      /\ gdFile' = gdFile /\ gdFlock' = gdFlock /\ gdShm' = gdShm /\ gdSem' = gdSem /\ gdIds' = gdIds /\ gdEvents' = gdEvents /\ gdRead' = gdRead
      /\ \A e \in Daemons : e # d => gdMain'[e] = gdMain[e]
      /\ gdMain'[d].pc = "unlock" /\ gdMain'[d].inode = gdMain[d].inode
      /\ gdMain'[d].shm = gdMain[d].shm /\ gdMain'[d].sem = gdMain[d].sem
      /\ ~gdMain'[d].sig
      /\ \A e \in Daemons : e # d => gdWork'[e] = gdWork[e]
      /\ gdWork'[d].pc = (IF gdWork[d].pc = "wait" THEN "end" ELSE gdWork[d].pc) /\ gdWork'[d].list = gdWork[d].list
  BY <1>i DEF DaemonTypes, MainType, ReadType, stop
<1>t. DaemonTypes'
  BY <1>i, MainTypes DEF gdMainThread
<1>1. IdsGrow'
  BY <1>i, <1>0, DaemonFields, DaemonAssumption DEF IdsGrow, None
<1>2. LockedUntilStop'
  BY <1>i, <1>0, DaemonFields, DaemonAssumption DEF LockedUntilStop, None
<1>3. WorksForMain'
  BY <1>i, <1>0, DaemonFields, DaemonAssumption DEF WorksForMain, None
<1>4. AloneWithSegment'
  BY <1>i, <1>0, DaemonFields, DaemonAssumption DEF AloneWithSegment, Alive, None
<1>5. OneInside'
  BY <1>i, <1>0, DaemonFields, DaemonAssumption DEF OneInside, Critical, Uses
<1>6. SameSegment'
  BY <1>i, <1>0, DaemonFields, DaemonAssumption DEF SameSegment, None
<1>7. WholeList'
  BY <1>i, <1>0, DaemonFields, DaemonAssumption DEF WholeList, Writes, None
<1> QED
  BY <1>t, <1>1, <1>2, <1>3, <1>4, <1>5, <1>6, <1>7 DEF DaemonInv

(* Main thread: the lock file is unlocked and closed.                      *)
LEMMA destroy_lock_fileKeeps ==
  ASSUME DaemonInv, NEW d \in Daemons, destroy_lock_file(d)
  PROVE  DaemonInv'
<1>i. DaemonTypes /\ IdsGrow /\ LockedUntilStop /\ WorksForMain /\ AloneWithSegment /\ OneInside
      /\ SameSegment /\ WholeList
  BY DEF DaemonInv
<1>0. /\ gdMain[d].pc = "unlock"
      /\ gdFile' = gdFile /\ gdShm' = gdShm /\ gdSem' = gdSem /\ gdIds' = gdIds /\ gdEvents' = gdEvents /\ gdWork' = gdWork /\ gdRead' = gdRead
      /\ \A e \in Daemons : e # d => gdMain'[e] = gdMain[e]
      /\ gdMain'[d].pc = "remove" /\ gdMain'[d].inode = gdMain[d].inode
      /\ gdMain'[d].shm = gdMain[d].shm /\ gdMain'[d].sem = gdMain[d].sem
      /\ (gdMain'[d].sig <=> gdMain[d].sig)
  BY <1>i DEF DaemonTypes, MainType, ReadType, destroy_lock_file, MainStep
<1>t. DaemonTypes'
  BY <1>i, MainTypes DEF gdMainThread
<1>1. IdsGrow'
  BY <1>i, <1>0, DaemonFields, DaemonAssumption DEF IdsGrow, None
<1>2. LockedUntilStop'
  BY <1>i, <1>0 DEF LockedUntilStop
<1>3. WorksForMain'
  BY <1>i, <1>0 DEF WorksForMain
<1>4. AloneWithSegment'
  BY <1>i, <1>0, DaemonFields, DaemonAssumption DEF AloneWithSegment, Alive, None
<1>5. OneInside'
  BY <1>i, <1>0 DEF OneInside, Critical, Uses
<1>6. SameSegment'
  BY <1>i, <1>0 DEF SameSegment
<1>7. WholeList'
  BY <1>i, <1>0 DEF WholeList, Writes
<1> QED
  BY <1>t, <1>1, <1>2, <1>3, <1>4, <1>5, <1>6, <1>7 DEF DaemonInv

(* Main thread: the lock file is removed.                                  *)
LEMMA RemoveLockFileKeeps ==
  ASSUME DaemonInv, NEW d \in Daemons, RemoveLockFile(d)
  PROVE  DaemonInv'
<1>i. DaemonTypes /\ IdsGrow /\ LockedUntilStop /\ WorksForMain /\ AloneWithSegment /\ OneInside
      /\ SameSegment /\ WholeList
  BY DEF DaemonInv
<1>0. /\ gdMain[d].pc = "remove"
      /\ gdFlock' = gdFlock /\ gdShm' = gdShm /\ gdSem' = gdSem /\ gdIds' = gdIds /\ gdEvents' = gdEvents /\ gdWork' = gdWork /\ gdRead' = gdRead
      /\ gdFile' = None
      /\ \A e \in Daemons : e # d => gdMain'[e] = gdMain[e]
      /\ gdMain'[d].pc = (IF gdMain[d].early THEN "sigwait" ELSE "join") /\ gdMain'[d].inode = gdMain[d].inode
      /\ gdMain'[d].shm = gdMain[d].shm /\ gdMain'[d].sem = gdMain[d].sem
      /\ (gdMain'[d].sig <=> gdMain[d].sig)
  BY <1>i DEF DaemonTypes, MainType, ReadType, RemoveLockFile
<1>t. DaemonTypes'
  BY <1>i, MainTypes DEF gdMainThread
<1>1. IdsGrow'
  BY <1>i, <1>0 DEF IdsGrow
<1>2. LockedUntilStop'
  BY <1>i, <1>0 DEF LockedUntilStop
<1>3. WorksForMain'
  BY <1>i, <1>0 DEF WorksForMain
<1>4. AloneWithSegment'
  BY <1>i, <1>0, DaemonFields, DaemonAssumption DEF AloneWithSegment, Alive, None
<1>5. OneInside'
  BY <1>i, <1>0, DaemonFields, DaemonAssumption DEF OneInside, Critical, Uses, None
<1>6. SameSegment'
  BY <1>i, <1>0 DEF SameSegment
<1>7. WholeList'
  BY <1>i, <1>0 DEF WholeList, Writes
<1> QED
  BY <1>t, <1>1, <1>2, <1>3, <1>4, <1>5, <1>6, <1>7 DEF DaemonInv

(* Main thread: the worker is joined and the segment removed.              *)
LEMMA DestroyHolderKeeps ==
  ASSUME DaemonInv, NEW d \in Daemons, DestroyHolder(d)
  PROVE  DaemonInv'
<1>i. DaemonTypes /\ IdsGrow /\ LockedUntilStop /\ WorksForMain /\ AloneWithSegment /\ OneInside
      /\ SameSegment /\ WholeList
  BY DEF DaemonInv
<1>0. /\ gdMain[d].pc = "join" /\ gdWork[d].pc = "end"
      /\ gdFile' = gdFile /\ gdFlock' = gdFlock /\ gdSem' = gdSem /\ gdIds' = gdIds /\ gdEvents' = gdEvents /\ gdWork' = gdWork /\ gdRead' = gdRead
      /\ IF gdShm.id = gdMain[d].shm THEN gdShm'.id = 0 /\ gdShm'.count = gdShm.count /\ gdShm'.entries = gdShm.entries ELSE gdShm' = gdShm
      /\ \A e \in Daemons : e # d => gdMain'[e] = gdMain[e]
      /\ gdMain'[d].pc = "destroy" /\ gdMain'[d].inode = gdMain[d].inode
      /\ gdMain'[d].shm = gdMain[d].shm /\ gdMain'[d].sem = gdMain[d].sem
      /\ (gdMain'[d].sig <=> gdMain[d].sig)
  BY <1>i DEF DaemonTypes, MainType, ReadType, DestroyHolder, MainStep
<1>t. DaemonTypes'
  BY <1>i, MainTypes DEF gdMainThread
<1>1. IdsGrow'
  BY <1>i, <1>0, DaemonFields, DaemonAssumption DEF IdsGrow, None
<1>2. LockedUntilStop'
  BY <1>i, <1>0, DaemonFields, DaemonAssumption DEF LockedUntilStop, None
<1>3. WorksForMain'
  BY <1>i, <1>0, DaemonFields, DaemonAssumption DEF WorksForMain, None
<1>4. AloneWithSegment'
  BY <1>i, <1>0, DaemonFields, DaemonAssumption DEF AloneWithSegment, Alive, None
<1>5. OneInside'
  BY <1>i, <1>0, Zenon DEF OneInside
<1>6. SameSegment'
  BY <1>i, <1>0, DaemonFields, DaemonAssumption DEF SameSegment, IdsGrow, None
<1>7. WholeList'
  BY <1>i, <1>0, DaemonFields, DaemonAssumption DEF WholeList, Writes, SameSegment, None
<1> QED
  BY <1>t, <1>1, <1>2, <1>3, <1>4, <1>5, <1>6, <1>7 DEF DaemonInv

(* Main thread: the semaphore is removed.                                  *)
LEMMA DestroySemaphoreKeeps ==
  ASSUME DaemonInv, NEW d \in Daemons, DestroySemaphore(d)
  PROVE  DaemonInv'
<1>i. DaemonTypes /\ IdsGrow /\ LockedUntilStop /\ WorksForMain /\ AloneWithSegment /\ OneInside
      /\ SameSegment /\ WholeList
  BY DEF DaemonInv
<1>0. /\ gdMain[d].pc = "destroy"
      /\ gdFile' = gdFile /\ gdFlock' = gdFlock /\ gdShm' = gdShm /\ gdIds' = gdIds /\ gdWork' = gdWork /\ gdRead' = gdRead
      /\ IF gdSem.id = gdMain[d].sem THEN gdSem'.id = 0 /\ gdSem'.val = 0 ELSE gdSem' = gdSem
      /\ gdEvents' = IF gdSem.id = gdMain[d].sem /\ (\/ \E e \in Daemons \ {d} : Alive(e) /\ gdMain[e].sem = gdMain[d].sem
                                                \/ \E q \in Readers \ {d} : gdRead[q].sem = gdMain[d].sem /\ gdRead[q].pc # "done")
                   THEN gdEvents \cup {"reset"} ELSE gdEvents
      /\ \A e \in Daemons : e # d => gdMain'[e] = gdMain[e]
      /\ gdMain'[d].pc = "exit" /\ gdMain'[d].inode = gdMain[d].inode
      /\ gdMain'[d].shm = gdMain[d].shm /\ gdMain'[d].sem = gdMain[d].sem
      /\ (gdMain'[d].sig <=> gdMain[d].sig)
  BY <1>i DEF DaemonTypes, MainType, ReadType, DestroySemaphore, MainStep, semaphore_destroy
<1>t. DaemonTypes'
  BY <1>i, MainTypes DEF gdMainThread
<1>1. IdsGrow'
  BY <1>i, <1>0, DaemonFields, DaemonAssumption DEF IdsGrow, None
<1>2. LockedUntilStop'
  BY <1>i, <1>0, DaemonFields DEF LockedUntilStop
<1>3. WorksForMain'
  BY <1>i, <1>0, DaemonFields, DaemonAssumption DEF WorksForMain, None
<1>4. AloneWithSegment'
  BY <1>i, <1>0, Zenon DEF AloneWithSegment, Alive
<1>5. OneInside'
  <2> SUFFICES ASSUME "reset" \notin gdEvents' PROVE OneInside'
    BY DEF OneInside
  <2>1. "reset" \notin gdEvents
    BY <1>0
  <2>2. gdMain[d].sem = gdSem.id
    BY <1>i, <1>0, <2>1 DEF OneInside
  <2>3. /\ \A e \in Daemons \ {d} : ~(Alive(e) /\ gdMain[e].sem = gdSem.id)
        /\ \A q \in Readers \ {d} : ~(gdRead[q].sem = gdSem.id /\ gdRead[q].pc # "done")
    BY <1>0, <2>1, <2>2
  <2>4. \A e \in Daemons : gdMain'[e].pc \notin {"sigwait", "unlock", "remove", "join", "destroy"}
    BY <1>i, <1>0, <2>1, <2>3 DEF OneInside, Alive
  <2>5. \A q \in Readers : gdRead[q].pc \notin Uses
    BY <1>i, <2>1, <2>3, DaemonAssumption DEF OneInside, Uses
  <2>6. \A e \in Daemons : gdWork[e].pc \notin Critical
    BY <1>3, <1>0, <2>4 DEF WorksForMain, Critical
  <2>7. \A q \in Readers : gdRead[q].pc \notin Critical
    BY <1>i, <2>5 DEF DaemonTypes, ReadType, ReadPcs, Uses, Critical
  <2>8. gdSem'.val = 0 /\ gdRead' = gdRead /\ gdWork' = gdWork
    BY <1>0, <2>2
  <2> QED BY <2>4, <2>5, <2>6, <2>7, <2>8, Zenon DEF OneInside
<1>6. SameSegment'
  BY <1>i, <1>0, DaemonFields, DaemonAssumption DEF SameSegment, None
<1>7. WholeList'
  BY <1>i, <1>0, DaemonFields, DaemonAssumption DEF WholeList, Writes, None
<1> QED
  BY <1>t, <1>1, <1>2, <1>3, <1>4, <1>5, <1>6, <1>7 DEF DaemonInv

(* Worker: the network is searched.                                        *)
LEMMA IndexNetworkKeeps ==
  ASSUME DaemonInv, NEW d \in Daemons, IndexNetwork(d)
  PROVE  DaemonInv'
<1>i. DaemonTypes /\ IdsGrow /\ LockedUntilStop /\ WorksForMain /\ AloneWithSegment /\ OneInside
      /\ SameSegment /\ WholeList
  BY DEF DaemonInv
<1>0. /\ gdWork[d].pc = "wait"
      /\ gdFile' = gdFile /\ gdFlock' = gdFlock /\ gdShm' = gdShm /\ gdSem' = gdSem /\ gdIds' = gdIds /\ gdEvents' = gdEvents /\ gdMain' = gdMain /\ gdRead' = gdRead
      /\ \A e \in Daemons : e # d => gdWork'[e] = gdWork[e]
      /\ gdWork'[d].pc \in {"wait", "end", "lock"}
  BY <1>i DEF DaemonTypes, MainType, ReadType, IndexNetwork, LoopAgain
<1>t. DaemonTypes'
  BY <1>i, WorkTypes DEF gdWorker
<1>1. IdsGrow'
  BY <1>i, <1>0, DaemonFields, DaemonAssumption DEF IdsGrow, None
<1>2. LockedUntilStop'
  BY <1>i, <1>0, DaemonFields, DaemonAssumption DEF LockedUntilStop, None
<1>3. WorksForMain'
  BY <1>i, <1>0, DaemonFields, DaemonAssumption DEF WorksForMain, None
<1>4. AloneWithSegment'
  BY <1>i, <1>0, DaemonFields, DaemonAssumption DEF AloneWithSegment, Alive, None
<1>5. OneInside'
  BY <1>i, <1>0, DaemonFields, DaemonAssumption DEF OneInside, Critical, Uses, None
<1>6. SameSegment'
  BY <1>i, <1>0, DaemonFields, DaemonAssumption DEF SameSegment, None
<1>7. WholeList'
  BY <1>i, <1>0, Zenon DEF WholeList, Writes
<1> QED
  BY <1>t, <1>1, <1>2, <1>3, <1>4, <1>5, <1>6, <1>7 DEF DaemonInv

(* Worker: the semaphore is taken.                                         *)
LEMMA LockListKeeps ==
  ASSUME DaemonInv, NEW d \in Daemons, LockList(d)
  PROVE  DaemonInv'
<1>i. DaemonTypes /\ IdsGrow /\ LockedUntilStop /\ WorksForMain /\ AloneWithSegment /\ OneInside
      /\ SameSegment /\ WholeList
  BY DEF DaemonInv
<1>0. /\ gdWork[d].pc = "lock"
      /\ gdFile' = gdFile /\ gdFlock' = gdFlock /\ gdShm' = gdShm /\ gdIds' = gdIds /\ gdEvents' = gdEvents /\ gdMain' = gdMain /\ gdRead' = gdRead
      /\ IF gdSem.id = gdMain[d].sem THEN gdSem.val > 0 /\ gdSem'.id = gdSem.id /\ gdSem'.val = gdSem.val - 1 ELSE gdSem' = gdSem
      /\ \A e \in Daemons : e # d => gdWork'[e] = gdWork[e]
      /\ gdWork'[d].pc = "attach" /\ gdWork'[d].list = gdWork[d].list
  BY <1>i DEF DaemonTypes, MainType, ReadType, LockList, WorkStep, semaphore_lock
<1>t. DaemonTypes'
  BY <1>i, WorkTypes DEF gdWorker
<1>1. IdsGrow'
  BY <1>i, <1>0, Zenon DEF IdsGrow
<1>2. LockedUntilStop'
  BY <1>i, <1>0, Zenon DEF LockedUntilStop
<1>3. WorksForMain'
  BY <1>i, <1>0, Zenon DEF WorksForMain
<1>4. AloneWithSegment'
  BY <1>i, <1>0, Zenon DEF AloneWithSegment, Alive
<1>5. OneInside'
  <2> SUFFICES ASSUME "reset" \notin gdEvents PROVE OneInside'
    BY <1>0 DEF OneInside
  <2>1. gdMain[d].sem = gdSem.id
    <3>1. gdMain[d].pc \in {"sigwait", "unlock", "remove", "join"}
      BY <1>i, <1>0 DEF WorksForMain
    <3> QED BY <1>i, <3>1 DEF OneInside
  <2>2. gdSem.val = 1 /\ gdSem'.val = 0 /\ gdSem'.id = gdSem.id
    BY <1>i, <1>0, <2>1 DEF OneInside
  <2>3. /\ \A e \in Daemons : e # d => gdWork'[e].pc \notin Critical
        /\ \A r \in Readers : gdRead[r].pc \notin Critical
    BY <1>i, <1>0, <2>2 DEF OneInside
  <2> QED BY <1>i, <1>0, <2>2, <2>3 DEF OneInside
<1>6. SameSegment'
  BY <1>i, <1>0, DaemonFields, DaemonAssumption DEF SameSegment, None
<1>7. WholeList'
  BY <1>i, <1>0, DaemonFields, DaemonAssumption DEF WholeList, Writes, None
<1> QED
  BY <1>t, <1>1, <1>2, <1>3, <1>4, <1>5, <1>6, <1>7 DEF DaemonInv

(* Worker: the segment is attached and the length of the list written.     *)
LEMMA AttachAndCountKeeps ==
  ASSUME DaemonInv, NEW d \in Daemons, AttachAndCount(d)
  PROVE  DaemonInv'
<1>i. DaemonTypes /\ IdsGrow /\ LockedUntilStop /\ WorksForMain /\ AloneWithSegment /\ OneInside
      /\ SameSegment /\ WholeList
  BY DEF DaemonInv
<1>0. /\ gdWork[d].pc = "attach"
      /\ gdFile' = gdFile /\ gdSem' = gdSem /\ gdIds' = gdIds /\ gdEvents' = gdEvents /\ gdRead' = gdRead
      /\ (\A i \in Daemons : gdFlock[i] # d => gdFlock'[i] = gdFlock[i]) /\ (gdShm.id = gdMain[d].shm => gdFlock' = gdFlock)
      /\ IF gdShm.id = gdMain[d].shm THEN gdShm'.id = gdShm.id /\ gdShm'.count = gdWork[d].list /\ gdShm'.entries = gdShm.entries ELSE gdShm' = gdShm
      /\ \A e \in Daemons : e # d => gdMain'[e] = gdMain[e]
      /\ gdMain'[d].pc = (IF gdShm.id = gdMain[d].shm THEN gdMain[d].pc ELSE "crashed") /\ gdMain'[d].inode = gdMain[d].inode
      /\ gdMain'[d].shm = gdMain[d].shm /\ gdMain'[d].sem = gdMain[d].sem
      /\ (gdMain'[d].sig <=> gdMain[d].sig)
      /\ \A e \in Daemons : e # d => gdWork'[e] = gdWork[e]
      /\ gdWork'[d].pc = (IF gdShm.id = gdMain[d].shm THEN "entries" ELSE "end") /\ gdWork'[d].list = gdWork[d].list
  BY <1>i DEF DaemonTypes, MainType, ReadType, AttachAndCount
<1>t. DaemonTypes'
  BY <1>i, WorkTypes DEF gdWorker
<1>1. IdsGrow'
  BY <1>i, <1>0, SMTT(30) DEF IdsGrow
<1>2. LockedUntilStop'
  <2>1. SUFFICES ASSUME "stop" \notin gdEvents, NEW e \in Daemons
                 PROVE  LockedUntilStop!2!(e)'
    BY <1>0 DEF LockedUntilStop
  <2>2. LockedUntilStop!2!(e)
    BY <1>i, <2>1 DEF LockedUntilStop
  <2>3. CASE e = d
    BY <1>0, <2>1, <2>2, <2>3
  <2>4. CASE e # d
    BY <1>0, <2>2, <2>4, DaemonFields, <1>i
  <2> QED
    BY <2>3, <2>4
<1>3. WorksForMain'
  BY <1>i, <1>0, DaemonFields, DaemonAssumption DEF WorksForMain, None
<1>4. AloneWithSegment'
  BY <1>i, <1>0, DaemonFields, DaemonAssumption DEF AloneWithSegment, Alive, WorksForMain, None
<1>5. OneInside'
  BY <1>i, <1>0, DaemonFields, DaemonAssumption DEF OneInside, Critical, Uses, None
<1>a. ASSUME "reset" \notin gdEvents
      PROVE  /\ \A e \in Daemons : e # d => gdWork'[e].pc # "entries" /\ gdWork[e].pc # "entries"
             /\ \A r \in Readers : gdRead[r].pc \notin {"entries", "entries_library"}
  <2>1. gdWork[d].pc \in Critical /\ "entries" \in Critical /\ "entries_library" \in Critical
    BY <1>0 DEF Critical
  <2>2. /\ \A e \in Daemons : gdWork[e].pc \in Critical => e = d
        /\ \A r \in Readers : gdRead[r].pc \notin Critical
    BY <1>i, <1>a, <2>1, Zenon DEF OneInside
  <2>3. \A r \in Readers : gdRead[r].pc \notin {"entries", "entries_library"}
    BY <2>1, <2>2
  <2>4. \A e \in Daemons : e # d => gdWork[e].pc # "entries" /\ gdWork'[e] = gdWork[e]
    BY <1>0, <2>1, <2>2
  <2> QED
    BY <2>3, <2>4
<1>6. SameSegment'
  BY <1>i, <1>0, <1>a DEF SameSegment
<1>7. WholeList'
  BY <1>i, <1>0, <1>a DEF WholeList, Writes
<1> QED
  BY <1>t, <1>1, <1>2, <1>3, <1>4, <1>5, <1>6, <1>7 DEF DaemonInv

(* Worker: the entries are written.                                        *)
LEMMA WriteEntriesKeeps ==
  ASSUME DaemonInv, NEW d \in Daemons, WriteEntries(d)
  PROVE  DaemonInv'
<1>i. DaemonTypes /\ IdsGrow /\ LockedUntilStop /\ WorksForMain /\ AloneWithSegment /\ OneInside
      /\ SameSegment /\ WholeList
  BY DEF DaemonInv
<1>0. /\ gdWork[d].pc = "entries"
      /\ gdFile' = gdFile /\ gdFlock' = gdFlock /\ gdSem' = gdSem /\ gdIds' = gdIds /\ gdEvents' = gdEvents /\ gdMain' = gdMain /\ gdRead' = gdRead
      /\ IF gdShm.id \in {0, gdMain[d].shm} THEN gdShm'.id = gdShm.id /\ gdShm'.count = gdShm.count /\ gdShm'.entries = gdWork[d].list ELSE gdShm' = gdShm
      /\ \A e \in Daemons : e # d => gdWork'[e] = gdWork[e]
      /\ gdWork'[d].pc = "unlock" /\ gdWork'[d].list = gdWork[d].list
  BY <1>i DEF DaemonTypes, MainType, ReadType, WriteEntries, WorkStep
<1>t. DaemonTypes'
  BY <1>i, WorkTypes DEF gdWorker
<1>1. IdsGrow'
  BY <1>i, <1>0 DEF IdsGrow
<1>2. LockedUntilStop'
  BY <1>i, <1>0, Zenon DEF LockedUntilStop
<1>3. WorksForMain'
  BY <1>i, <1>0, Zenon DEF WorksForMain
<1>4. AloneWithSegment'
  BY <1>i, <1>0, Zenon DEF AloneWithSegment, Alive
<1>5. OneInside'
  BY <1>i, <1>0 DEF OneInside, Critical, Uses
<1>6. SameSegment'
  BY <1>i, <1>0 DEF SameSegment
<1>7. WholeList'
  BY <1>i, <1>0, ZenonT(30) DEF WholeList, Writes, OneInside, Critical
<1> QED
  BY <1>t, <1>1, <1>2, <1>3, <1>4, <1>5, <1>6, <1>7 DEF DaemonInv

(* Worker: the semaphore is given back.                                    *)
LEMMA UnlockListKeeps ==
  ASSUME DaemonInv, NEW d \in Daemons, UnlockList(d)
  PROVE  DaemonInv'
<1>i. DaemonTypes /\ IdsGrow /\ LockedUntilStop /\ WorksForMain /\ AloneWithSegment /\ OneInside
      /\ SameSegment /\ WholeList
  BY DEF DaemonInv
<1>0. /\ gdWork[d].pc = "unlock"
      /\ gdFile' = gdFile /\ gdFlock' = gdFlock /\ gdShm' = gdShm /\ gdIds' = gdIds /\ gdEvents' = gdEvents /\ gdMain' = gdMain /\ gdRead' = gdRead
      /\ gdSem'.id = gdSem.id /\ gdSem'.val = IF gdSem.id = gdMain[d].sem THEN gdSem.val + 1 ELSE gdSem.val
      /\ \A e \in Daemons : e # d => gdWork'[e] = gdWork[e]
      /\ gdWork'[d].pc = (IF gdMain[d].cont THEN "wait" ELSE "end") /\ gdWork'[d].list = gdWork[d].list
  BY <1>i DEF DaemonTypes, MainType, ReadType, UnlockList, WorkStep, semaphore_unlock, LoopAgain
<1>t. DaemonTypes'
  BY <1>i, WorkTypes DEF gdWorker
<1>1. IdsGrow'
  BY <1>i, <1>0 DEF IdsGrow
<1>2. LockedUntilStop'
  BY <1>i, <1>0, Zenon DEF LockedUntilStop
<1>3. WorksForMain'
  BY <1>i, <1>0, Zenon DEF WorksForMain
<1>4. AloneWithSegment'
  BY <1>i, <1>0, Zenon DEF AloneWithSegment, Alive
<1>5. OneInside'
  BY <1>i, <1>0 DEF OneInside, Critical, Uses, WorksForMain
<1>6. SameSegment'
  BY <1>i, <1>0 DEF SameSegment
<1>7. WholeList'
  BY <1>i, <1>0 DEF WholeList, Writes
<1> QED
  BY <1>t, <1>1, <1>2, <1>3, <1>4, <1>5, <1>6, <1>7 DEF DaemonInv

(* Reader, the list command: the semaphore is made or opened.              *)
LEMMA get_camera_listKeeps ==
  ASSUME DaemonInv, NEW r \in Readers, get_camera_list(r)
  PROVE  DaemonInv'
<1>i. DaemonTypes /\ IdsGrow /\ LockedUntilStop /\ WorksForMain /\ AloneWithSegment /\ OneInside
      /\ SameSegment /\ WholeList
  BY DEF DaemonInv
<1>0. /\ gdRead[r].pc = "start" /\ gdFile # None
      /\ gdFile' = gdFile /\ gdFlock' = gdFlock /\ gdShm' = gdShm /\ gdMain' = gdMain /\ gdWork' = gdWork
      /\ gdSem'.id = (IF gdSem.id = 0 THEN gdIds + 1 ELSE gdSem.id) /\ gdSem'.val = 1
      /\ gdIds' = IF gdSem.id = 0 THEN gdIds + 1 ELSE gdIds
      /\ gdEvents' = IF Inside # {} THEN gdEvents \cup {"reset"} ELSE gdEvents
      /\ \A q \in Readers : q # r => gdRead'[q] = gdRead[q]
      /\ gdRead'[r].pc = "segment" /\ gdRead'[r].shm = gdRead[r].shm
      /\ gdRead'[r].sem = (IF gdSem.id = 0 THEN gdIds + 1 ELSE gdSem.id) /\ gdRead'[r].count = gdRead[r].count
      /\ gdRead'[r].entries = gdRead[r].entries
  BY <1>i DEF DaemonTypes, MainType, ReadType, get_camera_list, semaphore_create
<1>t. DaemonTypes'
  BY <1>i, ReadTypes DEF gdReader
<1>1. IdsGrow'
  BY <1>i, <1>0, DaemonFields, DaemonAssumption DEF IdsGrow, None
<1>2. LockedUntilStop'
  BY <1>i, <1>0, DaemonFields, DaemonAssumption DEF LockedUntilStop, None
<1>3. WorksForMain'
  BY <1>i, <1>0, DaemonFields, DaemonAssumption DEF WorksForMain, None
<1>4. AloneWithSegment'
  BY <1>i, <1>0, DaemonFields, DaemonAssumption DEF AloneWithSegment, Alive, None
<1>5. OneInside'
  <2> SUFFICES ASSUME "reset" \notin gdEvents' PROVE OneInside'
    BY DEF OneInside
  <2>1. "reset" \notin gdEvents /\ Inside = {}
    BY <1>0
  <2>2. /\ \A e \in Daemons : gdWork'[e].pc \notin Critical
        /\ \A q \in Readers : gdRead'[q].pc \notin Critical
    BY <1>0, <2>1 DEF Inside, Critical
  <2>3. gdSem'.id # 0 /\ gdSem'.val = 1 /\ (gdSem.id # 0 => gdSem'.id = gdSem.id) /\ gdRead'[r].sem = gdSem'.id
    BY <1>i, <1>0, DaemonFields
  <2>4. \A q \in Readers : gdRead'[q].pc \in Uses => gdRead'[q].sem = gdSem'.id
    BY <1>i, <1>0, <2>1, <2>3 DEF OneInside
  <2>5. \A e \in Daemons : gdMain[e].pc \in {"sigwait", "unlock", "remove", "join", "destroy"} => gdMain[e].sem = gdSem'.id
    BY <1>i, <2>1, <2>3 DEF OneInside
  <2> QED BY <1>0, <2>2, <2>3, <2>4, <2>5, Zenon DEF OneInside
<1>6. SameSegment'
  BY <1>i, <1>0, DaemonFields, DaemonAssumption DEF SameSegment, None
<1>7. WholeList'
  BY <1>i, <1>0, DaemonFields, DaemonAssumption DEF WholeList, Writes, None
<1> QED
  BY <1>t, <1>1, <1>2, <1>3, <1>4, <1>5, <1>6, <1>7 DEF DaemonInv

(* Reader, the list command: the segment is made or opened.                *)
LEMMA GetListSegmentKeeps ==
  ASSUME DaemonInv, NEW r \in Readers, GetListSegment(r)
  PROVE  DaemonInv'
<1>i. DaemonTypes /\ IdsGrow /\ LockedUntilStop /\ WorksForMain /\ AloneWithSegment /\ OneInside
      /\ SameSegment /\ WholeList
  BY DEF DaemonInv
<1>0. /\ gdRead[r].pc = "segment"
      /\ gdFile' = gdFile /\ gdFlock' = gdFlock /\ gdSem' = gdSem /\ gdEvents' = gdEvents /\ gdMain' = gdMain /\ gdWork' = gdWork
      /\ IF gdShm.id = 0 THEN gdShm'.id = gdIds + 1 /\ gdShm'.count = None /\ gdShm'.entries = None ELSE gdShm' = gdShm
      /\ gdIds' = IF gdShm.id = 0 THEN gdIds + 1 ELSE gdIds
      /\ \A q \in Readers : q # r => gdRead'[q] = gdRead[q]
      /\ gdRead'[r].pc = "lock" /\ gdRead'[r].shm = (IF gdShm.id = 0 THEN gdIds + 1 ELSE gdShm.id)
      /\ gdRead'[r].sem = gdRead[r].sem /\ gdRead'[r].count = gdRead[r].count
      /\ gdRead'[r].entries = gdRead[r].entries
  BY <1>i DEF DaemonTypes, MainType, ReadType, GetListSegment, GetSegment
<1>t. DaemonTypes'
  BY <1>i, ReadTypes DEF gdReader
<1>1. IdsGrow'
  <2>0. gdIds \in Nat /\ gdIds' \in {gdIds, gdIds + 1}
    <3>1. gdIds \in Nat
      BY <1>i, DaemonFields
    <3>2. gdIds' \in {gdIds, gdIds + 1}
      BY <1>0
    <3> QED
      BY <3>1, <3>2
  <2>1. gdIds \in Nat /\ gdIds' \in Nat /\ gdIds <= gdIds'
    BY <2>0
  <2>2. gdShm'.id <= gdIds' /\ gdSem'.id <= gdIds'
    BY <1>i, <1>0, <2>1, DaemonFields DEF IdsGrow
  <2>3. \A d \in Daemons : gdMain[d].shm <= gdIds'
    BY <1>i, <2>1, DaemonFields DEF IdsGrow
  <2>4. \A q \in Readers : gdRead'[q].shm <= gdIds'
    BY <1>i, <1>0, <2>1, DaemonFields DEF IdsGrow
  <2> QED BY <1>i, <1>0, <2>2, <2>3, <2>4, Zenon DEF IdsGrow
<1>2. LockedUntilStop'
  BY <1>i, <1>0, DaemonFields, DaemonAssumption DEF LockedUntilStop, None
<1>3. WorksForMain'
  BY <1>i, <1>0, Zenon DEF WorksForMain
<1>4. AloneWithSegment'
  BY <1>i, <1>0, Zenon DEF AloneWithSegment, Alive, IdsGrow
<1>5. OneInside'
  BY <1>i, <1>0, Zenon DEF OneInside, Critical, Uses
<1>6. SameSegment'
  BY <1>i, <1>0, DaemonFields, DaemonAssumption DEF SameSegment, IdsGrow, None
<1>7. WholeList'
  BY <1>i, <1>0, DaemonFields, DaemonAssumption DEF WholeList, Writes, IdsGrow, WorksForMain, None
<1> QED
  BY <1>t, <1>1, <1>2, <1>3, <1>4, <1>5, <1>6, <1>7 DEF DaemonInv

(* Reader, the library: file and segment must be there.                    *)
LEMMA fetch_gige_daemon_device_listKeeps ==
  ASSUME DaemonInv, NEW r \in Readers, fetch_gige_daemon_device_list(r)
  PROVE  DaemonInv'
<1>i. DaemonTypes /\ IdsGrow /\ LockedUntilStop /\ WorksForMain /\ AloneWithSegment /\ OneInside
      /\ SameSegment /\ WholeList
  BY DEF DaemonInv
<1>0. /\ gdRead[r].pc = "start" /\ gdShm.id # 0
      /\ gdFile' = gdFile /\ gdFlock' = gdFlock /\ gdShm' = gdShm /\ gdSem' = gdSem /\ gdIds' = gdIds /\ gdEvents' = gdEvents /\ gdMain' = gdMain /\ gdWork' = gdWork
      /\ \A q \in Readers : q # r => gdRead'[q] = gdRead[q]
      /\ gdRead'[r].pc = "create" /\ gdRead'[r].shm = gdShm.id
      /\ gdRead'[r].sem = gdRead[r].sem /\ gdRead'[r].count = gdRead[r].count
      /\ gdRead'[r].entries = gdRead[r].entries
  BY <1>i DEF DaemonTypes, MainType, ReadType, fetch_gige_daemon_device_list
<1>t. DaemonTypes'
  BY <1>i, ReadTypes DEF gdReader
<1>1. IdsGrow'
  BY <1>i, <1>0, Zenon DEF IdsGrow
<1>2. LockedUntilStop'
  BY <1>i, <1>0, Zenon DEF LockedUntilStop
<1>3. WorksForMain'
  BY <1>i, <1>0, Zenon DEF WorksForMain
<1>4. AloneWithSegment'
  BY <1>i, <1>0, Zenon DEF AloneWithSegment, Alive
<1>5. OneInside'
  BY <1>i, <1>0, Zenon DEF OneInside, Critical, Uses
<1>6. SameSegment'
  BY <1>i, <1>0, DaemonFields, DaemonAssumption DEF SameSegment, None
<1>7. WholeList'
  BY <1>i, <1>0 DEF WholeList, Writes
<1> QED
  BY <1>t, <1>1, <1>2, <1>3, <1>4, <1>5, <1>6, <1>7 DEF DaemonInv

(* Reader, the library: the semaphore object is made.                      *)
LEMMA CreateReaderSemaphoreKeeps ==
  ASSUME DaemonInv, NEW r \in Readers, CreateReaderSemaphore(r)
  PROVE  DaemonInv'
<1>i. DaemonTypes /\ IdsGrow /\ LockedUntilStop /\ WorksForMain /\ AloneWithSegment /\ OneInside
      /\ SameSegment /\ WholeList
  BY DEF DaemonInv
<1>0. /\ gdRead[r].pc = "create"
      /\ gdFile' = gdFile /\ gdFlock' = gdFlock /\ gdShm' = gdShm /\ gdMain' = gdMain /\ gdWork' = gdWork
      /\ gdSem'.id = (IF gdSem.id = 0 THEN gdIds + 1 ELSE gdSem.id) /\ gdSem'.val = 1
      /\ gdIds' = IF gdSem.id = 0 THEN gdIds + 1 ELSE gdIds
      /\ gdEvents' = IF Inside # {} THEN gdEvents \cup {"reset"} ELSE gdEvents
      /\ \A q \in Readers : q # r => gdRead'[q] = gdRead[q]
      /\ gdRead'[r].pc = "lock_library" /\ gdRead'[r].shm = gdRead[r].shm
      /\ gdRead'[r].sem = (IF gdSem.id = 0 THEN gdIds + 1 ELSE gdSem.id) /\ gdRead'[r].count = gdRead[r].count
      /\ gdRead'[r].entries = gdRead[r].entries
  BY <1>i DEF DaemonTypes, MainType, ReadType, CreateReaderSemaphore, semaphore_create
<1>t. DaemonTypes'
  BY <1>i, ReadTypes DEF gdReader
<1>1. IdsGrow'
  BY <1>i, <1>0, DaemonFields, DaemonAssumption DEF IdsGrow, None
<1>2. LockedUntilStop'
  BY <1>i, <1>0, DaemonFields, DaemonAssumption DEF LockedUntilStop, None
<1>3. WorksForMain'
  BY <1>i, <1>0, DaemonFields, DaemonAssumption DEF WorksForMain, None
<1>4. AloneWithSegment'
  BY <1>i, <1>0, DaemonFields, DaemonAssumption DEF AloneWithSegment, Alive, None
<1>5. OneInside'
  <2> SUFFICES ASSUME "reset" \notin gdEvents' PROVE OneInside'
    BY DEF OneInside
  <2>1. "reset" \notin gdEvents /\ Inside = {}
    BY <1>0
  <2>2. /\ \A e \in Daemons : gdWork'[e].pc \notin Critical
        /\ \A q \in Readers : gdRead'[q].pc \notin Critical
    BY <1>0, <2>1 DEF Inside, Critical
  <2>3. gdSem'.id # 0 /\ gdSem'.val = 1 /\ (gdSem.id # 0 => gdSem'.id = gdSem.id) /\ gdRead'[r].sem = gdSem'.id
    BY <1>i, <1>0, DaemonFields
  <2>4. \A q \in Readers : gdRead'[q].pc \in Uses => gdRead'[q].sem = gdSem'.id
    BY <1>i, <1>0, <2>1, <2>3 DEF OneInside
  <2>5. \A e \in Daemons : gdMain[e].pc \in {"sigwait", "unlock", "remove", "join", "destroy"} => gdMain[e].sem = gdSem'.id
    BY <1>i, <2>1, <2>3 DEF OneInside
  <2> QED BY <1>0, <2>2, <2>3, <2>4, <2>5, Zenon DEF OneInside
<1>6. SameSegment'
  BY <1>i, <1>0, DaemonFields, DaemonAssumption DEF SameSegment, None
<1>7. WholeList'
  BY <1>i, <1>0, Zenon DEF WholeList, Writes
<1> QED
  BY <1>t, <1>1, <1>2, <1>3, <1>4, <1>5, <1>6, <1>7 DEF DaemonInv

(* Reader: the semaphore is taken.                                         *)
LEMMA LockForReadingKeeps ==
  ASSUME DaemonInv, NEW r \in Readers, LockForReading(r)
  PROVE  DaemonInv'
<1>i. DaemonTypes /\ IdsGrow /\ LockedUntilStop /\ WorksForMain /\ AloneWithSegment /\ OneInside
      /\ SameSegment /\ WholeList
  BY DEF DaemonInv
<1>0. /\ gdRead[r].pc \in {"lock", "lock_library"}
      /\ gdFile' = gdFile /\ gdFlock' = gdFlock /\ gdShm' = gdShm /\ gdIds' = gdIds /\ gdEvents' = gdEvents /\ gdMain' = gdMain /\ gdWork' = gdWork
      /\ IF gdSem.id = gdRead[r].sem THEN gdSem.val > 0 /\ gdSem'.id = gdSem.id /\ gdSem'.val = gdSem.val - 1 ELSE gdSem' = gdSem
      /\ \A q \in Readers : q # r => gdRead'[q] = gdRead[q]
      /\ gdRead'[r].pc = (IF gdRead[r].pc = "lock" THEN "count" ELSE "count_library") /\ gdRead'[r].shm = gdRead[r].shm
      /\ gdRead'[r].sem = gdRead[r].sem /\ gdRead'[r].count = gdRead[r].count
      /\ gdRead'[r].entries = gdRead[r].entries
  BY <1>i DEF DaemonTypes, MainType, ReadType, LockForReading, ReadStep, semaphore_lock
<1>t. DaemonTypes'
  BY <1>i, ReadTypes DEF gdReader
<1>1. IdsGrow'
  BY <1>i, <1>0, Zenon DEF IdsGrow
<1>2. LockedUntilStop'
  BY <1>i, <1>0, Zenon DEF LockedUntilStop
<1>3. WorksForMain'
  BY <1>i, <1>0, Zenon DEF WorksForMain
<1>4. AloneWithSegment'
  BY <1>i, <1>0, Zenon DEF AloneWithSegment, Alive
<1>5. OneInside'
  <2> SUFFICES ASSUME "reset" \notin gdEvents PROVE OneInside'
    BY <1>0 DEF OneInside
  <2>1. OneInside!2
    BY <1>i DEF OneInside
  <2>2. gdRead[r].sem = gdSem.id /\ gdSem.id # 0
    BY <1>0, <2>1 DEF Uses
  <2>3. gdSem.val = 1 /\ gdSem'.val = 0 /\ gdSem'.id = gdSem.id
    BY <1>0, <2>1, <2>2
  <2>4. /\ \A e \in Daemons : gdWork[e].pc \notin Critical
        /\ \A q \in Readers : gdRead[q].pc \notin Critical
    BY <2>1, <2>3
  <2>5. \A q \in Readers : gdRead'[q].pc \in Uses => gdRead'[q].sem = gdSem.id
    BY <1>0, <2>1, <2>2
  <2>6. \A q \in Readers : gdRead'[q].pc \in Critical => q = r
    BY <1>0, <2>4
  <2> QED
    BY <1>0, <2>1, <2>2, <2>3, <2>4, <2>5, <2>6 DEF OneInside
<1>6. SameSegment'
  BY <1>i, <1>0, DaemonFields, DaemonAssumption DEF SameSegment, None
<1>7. WholeList'
  BY <1>i, <1>0 DEF WholeList, Writes
<1> QED
  BY <1>t, <1>1, <1>2, <1>3, <1>4, <1>5, <1>6, <1>7 DEF DaemonInv

(* Reader: the length of the list is read.                                 *)
LEMMA ReadCountKeeps ==
  ASSUME DaemonInv, NEW r \in Readers, ReadCount(r)
  PROVE  DaemonInv'
<1>i. DaemonTypes /\ IdsGrow /\ LockedUntilStop /\ WorksForMain /\ AloneWithSegment /\ OneInside
      /\ SameSegment /\ WholeList
  BY DEF DaemonInv
<1>0. /\ gdRead[r].pc \in {"count", "count_library"}
      /\ gdFile' = gdFile /\ gdFlock' = gdFlock /\ gdShm' = gdShm /\ gdSem' = gdSem /\ gdIds' = gdIds /\ gdEvents' = gdEvents /\ gdMain' = gdMain /\ gdWork' = gdWork
      /\ \A q \in Readers : q # r => gdRead'[q] = gdRead[q]
      /\ gdRead'[r].pc = (IF gdShm.id = gdRead[r].shm THEN (IF gdRead[r].pc = "count" THEN "entries" ELSE "entries_library") ELSE IF gdRead[r].pc = "count" THEN "crashed" ELSE "unlock_library") /\ gdRead'[r].shm = gdRead[r].shm
      /\ gdRead'[r].sem = gdRead[r].sem /\ gdRead'[r].count = (IF gdShm.id = gdRead[r].shm THEN gdShm.count ELSE gdRead[r].count)
      /\ gdRead'[r].entries = gdRead[r].entries
  BY <1>i DEF DaemonTypes, MainType, ReadType, ReadCount
<1>t. DaemonTypes'
  BY <1>i, ReadTypes DEF gdReader
<1>1. IdsGrow'
  BY <1>i, <1>0, Zenon DEF IdsGrow
<1>2. LockedUntilStop'
  BY <1>i, <1>0, Zenon DEF LockedUntilStop
<1>3. WorksForMain'
  BY <1>i, <1>0, Zenon DEF WorksForMain
<1>4. AloneWithSegment'
  BY <1>i, <1>0, Zenon DEF AloneWithSegment, Alive
<1>5. OneInside'
  <2>1. /\ gdRead[r].pc \in Uses /\ gdRead[r].pc \in Critical
        /\ \A q \in Readers : q # r => gdRead'[q] = gdRead[q]
        /\ gdRead'[r].sem = gdRead[r].sem
    BY <1>0 DEF Uses, Critical
  <2>2. \A q \in Readers : /\ gdRead'[q].pc \in Uses => gdRead[q].pc \in Uses
                           /\ gdRead'[q].pc \in Critical => gdRead[q].pc \in Critical
                           /\ gdRead'[q].sem = gdRead[q].sem
    BY <2>1, Zenon
  <2> QED
    BY <1>i, <1>0, <2>2, OneInsideKept, Zenon
<1>6. SameSegment'
  BY <1>i, <1>0, DaemonFields, DaemonAssumption DEF SameSegment, None
<1>7. WholeList'
  <2> SUFFICES ASSUME "reset" \notin gdEvents PROVE WholeList'
    BY <1>0 DEF WholeList
  <2>1. \A d \in Daemons : gdWork[d].pc \notin Critical
    BY <1>i, <1>0 DEF OneInside, Critical
  <2>2. \A d \in Daemons : ~Writes(d) /\ ~Writes(d)'
    BY <1>0, <2>1 DEF Writes, Critical
  <2>3. gdShm.count = gdShm.entries
    BY <1>i, <2>2 DEF WholeList
  <2>4. /\ gdRead'[r].pc \in {"entries", "entries_library"} => gdRead'[r].count = gdShm.count
        /\ gdRead'[r].pc = "unlock_library" => gdRead'[r].entries = gdRead'[r].count
    BY <1>i, <1>0 DEF WholeList
  <2>5. gdRead'[r].pc \in {"entries", "entries_library", "unlock_library", "crashed"}
    BY <1>0
  <2> QED BY <1>i, <1>0, <2>2, <2>3, <2>4, <2>5, ZenonT(30) DEF WholeList
<1> QED
  BY <1>t, <1>1, <1>2, <1>3, <1>4, <1>5, <1>6, <1>7 DEF DaemonInv

(* Reader: the entries are read.                                           *)
LEMMA ReadEntriesKeeps ==
  ASSUME DaemonInv, NEW r \in Readers, ReadEntries(r)
  PROVE  DaemonInv'
<1>i. DaemonTypes /\ IdsGrow /\ LockedUntilStop /\ WorksForMain /\ AloneWithSegment /\ OneInside
      /\ SameSegment /\ WholeList
  BY DEF DaemonInv
<1>0. /\ gdRead[r].pc \in {"entries", "entries_library"}
      /\ gdFile' = gdFile /\ gdFlock' = gdFlock /\ gdShm' = gdShm /\ gdSem' = gdSem /\ gdIds' = gdIds /\ gdEvents' = gdEvents /\ gdMain' = gdMain /\ gdWork' = gdWork
      /\ \A q \in Readers : q # r => gdRead'[q] = gdRead[q]
      /\ gdRead'[r].pc = (IF gdRead[r].pc = "entries" THEN "unlock" ELSE "unlock_library") /\ gdRead'[r].shm = gdRead[r].shm
      /\ gdRead'[r].sem = gdRead[r].sem /\ gdRead'[r].count = gdRead[r].count
      /\ gdRead'[r].entries = (IF gdShm.id \in {0, gdRead[r].shm} THEN gdShm.entries ELSE gdRead[r].count)
  BY <1>i DEF DaemonTypes, MainType, ReadType, ReadEntries
<1>t. DaemonTypes'
  BY <1>i, ReadTypes DEF gdReader
<1>1. IdsGrow'
  BY <1>i, <1>0, Zenon DEF IdsGrow
<1>2. LockedUntilStop'
  BY <1>i, <1>0, Zenon DEF LockedUntilStop
<1>3. WorksForMain'
  BY <1>i, <1>0, Zenon DEF WorksForMain
<1>4. AloneWithSegment'
  BY <1>i, <1>0, Zenon DEF AloneWithSegment, Alive
<1>5. OneInside'
  <2>1. /\ gdRead[r].pc \in Uses /\ gdRead'[r].pc \in Uses
        /\ gdRead[r].pc \in Critical /\ gdRead'[r].pc \in Critical
    BY <1>0 DEF Uses, Critical
  <2>2. \A q \in Readers : /\ gdRead'[q].pc \in Uses => gdRead[q].pc \in Uses
                           /\ gdRead'[q].pc \in Critical => gdRead[q].pc \in Critical
                           /\ gdRead'[q].sem = gdRead[q].sem
    BY <1>0, <2>1, Zenon
  <2> QED
    BY <1>i, <1>0, <2>2, OneInsideKept, Zenon
<1>6. SameSegment'
  BY <1>i, <1>0, DaemonFields, DaemonAssumption DEF SameSegment
<1>7. WholeList'
  <2> SUFFICES ASSUME "reset" \notin gdEvents PROVE WholeList'
    BY <1>0 DEF WholeList
  <2>1. \A d \in Daemons : gdWork[d].pc \notin Critical
    BY <1>i, <1>0 DEF OneInside, Critical
  <2>2. \A d \in Daemons : ~Writes(d) /\ ~Writes(d)'
    BY <1>0, <2>1 DEF Writes, Critical
  <2>3. gdShm.count = gdShm.entries
    BY <1>i, <2>2 DEF WholeList
  <2>4. gdRead'[r].entries = gdRead'[r].count
    BY <1>i, <1>0, <2>3 DEF WholeList
  <2>5. gdRead'[r].pc \in {"unlock", "unlock_library"}
    BY <1>0
  <2> QED BY <1>i, <1>0, <2>2, <2>3, <2>4, <2>5, ZenonT(30) DEF WholeList
<1> QED
  BY <1>t, <1>1, <1>2, <1>3, <1>4, <1>5, <1>6, <1>7 DEF DaemonInv

(* Reader: the semaphore is given back.                                    *)
LEMMA UnlockAfterReadingKeeps ==
  ASSUME DaemonInv, NEW r \in Readers, UnlockAfterReading(r)
  PROVE  DaemonInv'
<1>i. DaemonTypes /\ IdsGrow /\ LockedUntilStop /\ WorksForMain /\ AloneWithSegment /\ OneInside
      /\ SameSegment /\ WholeList
  BY DEF DaemonInv
<1>0. /\ gdRead[r].pc \in {"unlock", "unlock_library"}
      /\ gdFile' = gdFile /\ gdFlock' = gdFlock /\ gdShm' = gdShm /\ gdIds' = gdIds /\ gdEvents' = gdEvents /\ gdMain' = gdMain /\ gdWork' = gdWork
      /\ gdSem'.id = gdSem.id /\ gdSem'.val = IF gdSem.id = gdRead[r].sem THEN gdSem.val + 1 ELSE gdSem.val
      /\ \A q \in Readers : q # r => gdRead'[q] = gdRead[q]
      /\ gdRead'[r].pc = (IF gdRead[r].pc = "unlock" THEN "done" ELSE "destroy") /\ gdRead'[r].shm = gdRead[r].shm
      /\ gdRead'[r].sem = gdRead[r].sem /\ gdRead'[r].count = gdRead[r].count
      /\ gdRead'[r].entries = gdRead[r].entries
  BY <1>i DEF DaemonTypes, MainType, ReadType, UnlockAfterReading, ReadStep, semaphore_unlock
<1>t. DaemonTypes'
  BY <1>i, ReadTypes DEF gdReader
<1>1. IdsGrow'
  BY <1>i, <1>0, DaemonFields, DaemonAssumption DEF IdsGrow
<1>2. LockedUntilStop'
  BY <1>i, <1>0, Zenon DEF LockedUntilStop
<1>3. WorksForMain'
  BY <1>i, <1>0, Zenon DEF WorksForMain
<1>4. AloneWithSegment'
  BY <1>i, <1>0, Zenon DEF AloneWithSegment, Alive
<1>5. OneInside'
  <2> SUFFICES ASSUME "reset" \notin gdEvents PROVE OneInside'
    BY <1>0 DEF OneInside
  <2>1. gdSem'.val = 1 /\ gdSem'.id = gdSem.id
    <3>1. gdRead[r].pc \in Uses /\ gdRead[r].pc \in Critical
      BY <1>0 DEF Uses, Critical
    <3>2. gdSem.val = 0 /\ gdRead[r].sem = gdSem.id
      BY <1>i, <3>1, Zenon DEF OneInside
    <3> QED BY <1>0, <3>2
  <2>2. /\ \A d \in Daemons : gdWork[d].pc \notin Critical
        /\ \A q \in Readers : q # r => gdRead[q].pc \notin Critical
    BY <1>i, <1>0 DEF OneInside, Critical
  <2>3. \A q \in Readers : gdRead'[q].pc \notin Critical
    BY <1>0, <2>2 DEF Critical
  <2>4. \A q \in Readers : gdRead'[q].pc \in Uses => gdRead'[q].sem = gdSem.id /\ gdSem.id # 0
    BY <1>i, <1>0 DEF OneInside, Uses
  <2> QED BY <1>i, <1>0, <2>1, <2>2, <2>3, <2>4, Zenon DEF OneInside
<1>6. SameSegment'
  BY <1>i, <1>0, DaemonFields, DaemonAssumption DEF SameSegment, None
<1>7. WholeList'
  <2>1. \A d \in Daemons : Writes(d)' <=> Writes(d)
    BY <1>0, Zenon DEF Writes
  <2>2. "reset" \notin gdEvents' => "reset" \notin gdEvents
    BY <1>0
  <2>3. "reset" \notin gdEvents => gdRead'[r].entries = gdRead'[r].count
    BY <1>i, <1>0 DEF WholeList
  <2>4. gdRead'[r].pc \in {"done", "destroy"}
    BY <1>0
  <2> QED BY <1>i, <1>0, <2>1, <2>2, <2>3, <2>4, ZenonT(30) DEF WholeList
<1> QED
  BY <1>t, <1>1, <1>2, <1>3, <1>4, <1>5, <1>6, <1>7 DEF DaemonInv

(* Reader, the library: the semaphore is destroyed with its object.        *)
LEMMA DestroyReaderSemaphoreKeeps ==
  ASSUME DaemonInv, NEW r \in Readers, DestroyReaderSemaphore(r)
  PROVE  DaemonInv'
<1>i. DaemonTypes /\ IdsGrow /\ LockedUntilStop /\ WorksForMain /\ AloneWithSegment /\ OneInside
      /\ SameSegment /\ WholeList
  BY DEF DaemonInv
<1>0. /\ gdRead[r].pc = "destroy"
      /\ gdFile' = gdFile /\ gdFlock' = gdFlock /\ gdShm' = gdShm /\ gdIds' = gdIds /\ gdMain' = gdMain /\ gdWork' = gdWork
      /\ IF gdSem.id = gdRead[r].sem THEN gdSem'.id = 0 /\ gdSem'.val = 0 ELSE gdSem' = gdSem
      /\ gdEvents' = IF gdSem.id = gdRead[r].sem /\ (\/ \E e \in Daemons \ {r} : Alive(e) /\ gdMain[e].sem = gdRead[r].sem
                                                \/ \E q \in Readers \ {r} : gdRead[q].sem = gdRead[r].sem /\ gdRead[q].pc # "done")
                   THEN gdEvents \cup {"reset"} ELSE gdEvents
      /\ \A q \in Readers : q # r => gdRead'[q] = gdRead[q]
      /\ gdRead'[r].pc = "done" /\ gdRead'[r].shm = gdRead[r].shm
      /\ gdRead'[r].sem = gdRead[r].sem /\ gdRead'[r].count = gdRead[r].count
      /\ gdRead'[r].entries = gdRead[r].entries
  BY <1>i DEF DaemonTypes, MainType, ReadType, DestroyReaderSemaphore, ReadStep, semaphore_destroy
<1>t. DaemonTypes'
  BY <1>i, ReadTypes DEF gdReader
<1>1. IdsGrow'
  <2>1. gdShm' = gdShm /\ gdIds' = gdIds /\ gdMain' = gdMain /\ gdSem'.id \in {0, gdSem.id}
    BY <1>0
  <2>2. \A q \in Readers : gdRead'[q].shm = gdRead[q].shm
    BY <1>0, Zenon
  <2>3. gdSem'.id <= gdIds
    BY <1>i, <2>1, DaemonFields DEF IdsGrow
  <2> QED BY <1>i, <2>1, <2>2, <2>3, Zenon DEF IdsGrow
<1>2. LockedUntilStop'
  BY <1>i, <1>0, DaemonFields, DaemonAssumption DEF LockedUntilStop, None
<1>3. WorksForMain'
  BY <1>i, <1>0, DaemonFields, DaemonAssumption DEF WorksForMain, None
<1>4. AloneWithSegment'
  BY <1>i, <1>0, Zenon DEF AloneWithSegment, Alive
<1>5. OneInside'
  <2> SUFFICES ASSUME "reset" \notin gdEvents' PROVE OneInside'
    BY DEF OneInside
  <2>1. "reset" \notin gdEvents
    BY <1>0
  <2>2. gdRead[r].sem = gdSem.id
    BY <1>i, <1>0, <2>1 DEF OneInside, Uses
  <2>3. /\ \A e \in Daemons \ {r} : ~(Alive(e) /\ gdMain[e].sem = gdSem.id)
        /\ \A q \in Readers \ {r} : ~(gdRead[q].sem = gdSem.id /\ gdRead[q].pc # "done")
    BY <1>0, <2>2
  <2>4. \A d \in Daemons : gdMain[d].pc \notin {"sigwait", "unlock", "remove", "join", "destroy"}
    BY <1>i, <2>1, <2>3, DaemonAssumption DEF OneInside, Alive
  <2>5. \A q \in Readers : gdRead'[q].pc \notin Uses
    BY <1>i, <1>0, <2>1, <2>3 DEF OneInside, Uses
  <2>6. \A d \in Daemons : gdWork[d].pc \notin Critical
    BY <1>i, <2>4 DEF WorksForMain, Critical
  <2>7. \A q \in Readers : gdRead'[q].pc \notin Critical
    BY <1>t, <2>5 DEF DaemonTypes, ReadType, ReadPcs, Uses, Critical
  <2>8. gdSem'.val = 0 /\ gdMain' = gdMain /\ gdWork' = gdWork
    BY <1>0, <2>2
  <2> QED BY <2>4, <2>5, <2>6, <2>7, <2>8, Zenon DEF OneInside
<1>6. SameSegment'
  BY <1>i, <1>0, DaemonFields, DaemonAssumption DEF SameSegment, None
<1>7. WholeList'
  <2>1. \A d \in Daemons : Writes(d)' <=> Writes(d)
    BY <1>0, Zenon DEF Writes
  <2>2. "reset" \notin gdEvents' => "reset" \notin gdEvents
    BY <1>0
  <2>3. "reset" \notin gdEvents => gdRead'[r].entries = gdRead'[r].count
    BY <1>i, <1>0 DEF WholeList
  <2>4. gdRead'[r].pc \in {"done", "destroy"}
    BY <1>0
  <2> QED BY <1>i, <1>0, <2>1, <2>2, <2>3, <2>4, ZenonT(30) DEF WholeList
<1> QED
  BY <1>t, <1>1, <1>2, <1>3, <1>4, <1>5, <1>6, <1>7 DEF DaemonInv

(* A reader is killed wherever it is.                                      *)
LEMMA KillReaderKeeps ==
  ASSUME DaemonInv, NEW r \in Readers, KillReader(r)
  PROVE  DaemonInv'
<1>i. DaemonTypes /\ IdsGrow /\ LockedUntilStop /\ WorksForMain /\ AloneWithSegment /\ OneInside
      /\ SameSegment /\ WholeList
  BY DEF DaemonInv
<1>0. /\ gdRead[r].pc = "entries"
      /\ gdFile' = gdFile /\ gdFlock' = gdFlock /\ gdShm' = gdShm /\ gdSem' = gdSem /\ gdIds' = gdIds /\ gdMain' = gdMain /\ gdWork' = gdWork
      /\ gdEvents' = gdEvents \cup {"kill"}
      /\ \A q \in Readers : q # r => gdRead'[q] = gdRead[q]
      /\ gdRead'[r].pc = "crashed" /\ gdRead'[r].shm = gdRead[r].shm
      /\ gdRead'[r].sem = gdRead[r].sem /\ gdRead'[r].count = gdRead[r].count
      /\ gdRead'[r].entries = gdRead[r].entries
  BY <1>i DEF DaemonTypes, MainType, ReadType, KillReader
<1>t. DaemonTypes'
  BY <1>i, ReadTypes DEF gdReader
<1>1. IdsGrow'
  BY <1>i, <1>0, DaemonFields, DaemonAssumption DEF IdsGrow, None
<1>2. LockedUntilStop'
  BY <1>i, <1>0, DaemonFields, DaemonAssumption DEF LockedUntilStop, None
<1>3. WorksForMain'
  BY <1>i, <1>0, DaemonFields, DaemonAssumption DEF WorksForMain, None
<1>4. AloneWithSegment'
  BY <1>i, <1>0, DaemonFields, DaemonAssumption DEF AloneWithSegment, Alive, None
<1>5. OneInside'
  BY <1>i, <1>0, Zenon DEF OneInside, Critical, Uses
<1>6. SameSegment'
  BY <1>i, <1>0, DaemonFields, DaemonAssumption DEF SameSegment, None
<1>7. WholeList'
  BY <1>i, <1>0 DEF WholeList, Writes
<1> QED
  BY <1>t, <1>1, <1>2, <1>3, <1>4, <1>5, <1>6, <1>7 DEF DaemonInv

(* The stop command sends the signal, which may be handled early.          *)
LEMMA undaemonizeKeeps ==
  ASSUME DaemonInv, undaemonize
  PROVE  DaemonInv'
<1>i. DaemonTypes /\ IdsGrow /\ LockedUntilStop /\ WorksForMain /\ AloneWithSegment /\ OneInside
      /\ SameSegment /\ WholeList
  BY DEF DaemonInv
<1>d. PICK d \in Daemons, b \in BOOLEAN : gdMain' = [gdMain EXCEPT ![d].sig = TRUE, ![d].early = b]
  BY <1>i, Zenon DEF undaemonize, DaemonTypes
<1>m. gdMain \in [Daemons -> MainType]
  BY <1>i DEF DaemonTypes
<1>0. /\ gdFile' = gdFile /\ gdFlock' = gdFlock /\ gdShm' = gdShm /\ gdSem' = gdSem /\ gdIds' = gdIds
      /\ gdWork' = gdWork /\ gdRead' = gdRead /\ gdPid' = gdPid /\ gdEvents' = gdEvents \cup {"stop"}
  BY DEF undaemonize
<1>1. \A e \in Daemons : /\ gdMain'[e].pc = gdMain[e].pc /\ gdMain'[e].shm = gdMain[e].shm
                         /\ gdMain'[e].sem = gdMain[e].sem
  BY <1>m, <1>d DEF MainType
<1>2. gdMain' \in [Daemons -> MainType]
  BY <1>m, <1>d, Zenon DEF MainType
<1>t. DaemonTypes'
  BY <1>i, <1>0, <1>2 DEF DaemonTypes
<1>3. IdsGrow' /\ WorksForMain'
  BY <1>i, <1>0, <1>1 DEF IdsGrow, WorksForMain
<1>6. LockedUntilStop'
  BY <1>0 DEF LockedUntilStop
<1>4. AloneWithSegment' /\ OneInside'
  BY <1>i, <1>0, <1>1 DEF AloneWithSegment, Alive, OneInside
<1>5. SameSegment' /\ WholeList'
  BY <1>i, <1>0, <1>1 DEF SameSegment, WholeList, Writes
<1> QED
  BY <1>t, <1>3, <1>4, <1>5, <1>6 DEF DaemonInv

(* A step that changes nothing.                                            *)
LEMMA DaemonUnchanged ==
  ASSUME DaemonInv, UNCHANGED gdVars
  PROVE  DaemonInv'
<1>0. /\ gdFile' = gdFile /\ gdPid' = gdPid /\ gdFlock' = gdFlock /\ gdShm' = gdShm /\ gdSem' = gdSem
      /\ gdIds' = gdIds /\ gdMain' = gdMain /\ gdWork' = gdWork /\ gdRead' = gdRead /\ gdEvents' = gdEvents
  BY DEF gdVars
<1>i. /\ DaemonTypes /\ IdsGrow /\ LockedUntilStop /\ WorksForMain /\ AloneWithSegment /\ OneInside
      /\ SameSegment /\ WholeList
  BY DEF DaemonInv
<1>1. DaemonTypes'
  BY <1>0, <1>i, Zenon DEF DaemonTypes
<1>2. IdsGrow' /\ LockedUntilStop' /\ WorksForMain'
  BY <1>0, <1>i, Zenon DEF IdsGrow, LockedUntilStop, WorksForMain
<1>3. AloneWithSegment' /\ OneInside'
  BY <1>0, <1>i, Zenon DEF AloneWithSegment, Alive, OneInside
<1>4. SameSegment' /\ WholeList'
  BY <1>0, <1>i, Zenon DEF SameSegment, WholeList, Writes
<1> QED
  BY <1>1, <1>2, <1>3, <1>4 DEF DaemonInv

(* No daemon runs and no reader reads: the invariant holds.                *)
LEMMA DaemonInitially == ASSUME NEW active, gdInit(active) PROVE DaemonInv
<1>1. /\ \A d \in Daemons : /\ gdMain[d].pc \in {"start", "exit"} /\ ~gdMain[d].sig /\ gdMain[d].shm = 0
                            /\ gdWork[d].pc = "none"
      /\ \A r \in Readers : /\ gdRead[r].pc \in {"start", "done"} /\ gdRead[r].shm = 0
                            /\ gdRead[r].count = None /\ gdRead[r].entries = None
      /\ gdIds = 0 /\ gdShm.id = 0 /\ gdSem.id = 0 /\ gdSem.val = 0 /\ gdShm.count = gdShm.entries
  BY DEF gdInit
<1>2. DaemonTypes
  BY DEF gdInit, DaemonTypes, MainType, MainPcs, WorkPcs, ReadType, ReadPcs, Known
<1>3. IdsGrow /\ WorksForMain
  BY <1>1 DEF IdsGrow, WorksForMain
<1>6. LockedUntilStop
  BY <1>1 DEF LockedUntilStop
<1>4. AloneWithSegment /\ OneInside
  BY <1>1 DEF AloneWithSegment, Alive, OneInside, Critical, Uses
<1>5. SameSegment /\ WholeList
  BY <1>1 DEF SameSegment, WholeList, Writes
<1> QED
  BY <1>2, <1>3, <1>4, <1>5, <1>6 DEF DaemonInv

(* Every step of every process preserves the invariant.                    *)
LEMMA DaemonNext == ASSUME DaemonInv, [gdNext]_gdVars PROVE DaemonInv'
<1>1. CASE undaemonize
  BY <1>1, undaemonizeKeeps
<1>2. CASE \E d \in Daemons : gdMainThread(d)
  <2>1. PICK d \in Daemons : gdMainThread(d)
    BY <1>2
  <2> QED
    BY <2>1, daemonizeKeeps, create_lock_fileKeeps, OpenLockFileKeeps, LockLockFileKeeps, ExitRemovesLockFileKeeps,
       CameraListHolderKeeps, StartWorkerKeeps, stopKeeps, destroy_lock_fileKeeps, RemoveLockFileKeeps, DestroyHolderKeeps,
       DestroySemaphoreKeeps DEF gdMainThread
<1>3. CASE \E d \in Daemons : gdWorker(d)
  <2>1. PICK d \in Daemons : gdWorker(d)
    BY <1>3
  <2> QED
    BY <2>1, IndexNetworkKeeps, LockListKeeps, AttachAndCountKeeps, WriteEntriesKeeps, UnlockListKeeps DEF gdWorker
<1>4. CASE \E r \in Readers : gdReader(r) \/ KillReader(r)
  <2>1. PICK r \in Readers : gdReader(r) \/ KillReader(r)
    BY <1>4
  <2> QED
    BY <2>1, get_camera_listKeeps, GetListSegmentKeeps, fetch_gige_daemon_device_listKeeps,
       CreateReaderSemaphoreKeeps, LockForReadingKeeps, ReadCountKeeps, ReadEntriesKeeps,
       UnlockAfterReadingKeeps, DestroyReaderSemaphoreKeeps, KillReaderKeeps DEF gdReader
<1>5. CASE UNCHANGED gdVars
  BY <1>5, DaemonUnchanged
<1> QED
  BY <1>1, <1>2, <1>3, <1>4, <1>5 DEF gdNext

(* Whoever serves before the first stop has locked its file, a file is      *)
(* locked by one process, and until one is removed there is one file.       *)
LEMMA OneServes == ASSUME DaemonInv PROVE OneDaemonUntilStop
<1> SUFFICES ASSUME "stop" \notin gdEvents, NEW d \in Serving, NEW e \in Serving
             PROVE  d = e \/ ("removed" \in gdEvents /\ gdMain[d].inode # gdMain[e].inode)
  BY DEF OneDaemonUntilStop
<1>1. \A f \in Serving : /\ gdFlock[gdMain[f].inode] = f
                         /\ "removed" \notin gdEvents => gdMain[f].inode = gdFile
  <2>1. \A f \in Daemons : LockedUntilStop!2!(f)
    BY Zenon DEF DaemonInv, LockedUntilStop
  <2> QED
    BY <2>1, Zenon DEF Serving, Alive
<1>2. gdFlock[gdMain[d].inode] = d /\ gdFlock[gdMain[e].inode] = e
  BY <1>1
<1>3. gdMain[d].inode = gdMain[e].inode => d = e
  BY <1>2
<1>4. "removed" \notin gdEvents => gdMain[d].inode = gdMain[e].inode
  BY <1>1
<1> QED
  BY <1>3, <1>4

(* The invariant implies what the run checks.                              *)
LEMMA DaemonInvHolds == ASSUME DaemonInv PROVE DaemonHolds
<1>1. DaemonTypes /\ IdsGrow
  BY DEF DaemonInv
<1>2. gdTypeOK
  BY <1>1 DEF DaemonTypes, IdsGrow, gdTypeOK, MainType, Known
<1>3. NoCrashWithoutOverlap
  BY Zenon DEF DaemonInv, AloneWithSegment, NoCrashWithoutOverlap
<1>4. WholeUnlessReset
  BY DEF DaemonInv, WholeList, WholeUnlessReset
<1> QED
  BY <1>2, <1>3, <1>4, OneServes DEF DaemonHolds

(* For every set of daemons, readers and lists, however daemons start, stop *)
(* and write and readers read or are killed: until one is stopped one       *)
(* daemon gets past each lock file, and one at all until a start that was   *)
(* refused removes the file; a daemon that starts alone keeps its segment,  *)
(* and a list that is read is one that was written unless the semaphore was *)
(* reset (gige-daemon, CameraListHolder, get_camera_list).                  *)
THEOREM DaemonCorrect == gdSpec => []DaemonHolds
<1>1. gdInit(Daemons \cup Readers) => DaemonInv
  BY DaemonInitially
<1>2. DaemonInv /\ [gdNext]_gdVars => DaemonInv'
  BY DaemonNext
<1>3. DaemonInv => DaemonHolds
  BY DaemonInvHolds
<1> QED
  BY <1>1, <1>2, <1>3, PTL DEF gdSpec
=============================================================================
