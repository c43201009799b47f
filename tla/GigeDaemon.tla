----------------------------- MODULE GigeDaemon -----------------------------
(***************************************************************************)
(* tcam-gige-daemon and its readers: the lock file that admits one daemon,  *)
(* the shared memory segment with the device list, the System V semaphore   *)
(* around it (tcam-semaphores.h), the daemon's worker thread, and the       *)
(* clients: the tool's list command and the library's indexer               *)
(* (aravis_utils.cpp).                                                      *)
(***************************************************************************)
EXTENDS Naturals

CONSTANTS
    Daemons,    \* processes of "tcam-gige-daemon start"
    Readers,    \* processes that read the list once
    Lists       \* device lists of the network, more than ListMax is too many

ASSUME DaemonAssumption == Daemons \cap Readers = {} /\ "none" \notin Daemons

None == "none"
TooMany == "too many"   \* a list longer than TCAM_DEVICE_LIST_MAX

VARIABLES
    gdFile,     \* inode of the lock file, None when it does not exist
    gdPid,      \* [inode -> the process whose pid is written in it]
    gdFlock,    \* [inode -> the process that has locked it]
    gdShm,      \* [id, count, entries]: the segment behind the key, id 0: none
    gdSem,      \* [id, val]: the semaphore behind the key, id 0: none
    gdIds,      \* last id of segments and semaphores
    gdMain,     \* [daemon -> main thread: pc, inode, shm, sem, sig, early, cont]
    gdWork,     \* [daemon -> worker thread: pc, list]
    gdRead,     \* [reader -> pc, shm, sem, count, entries]
    gdEvents    \* what happened: "stop", "removed", "reset", "overlap", "kill"

gdVars == <<gdFile, gdPid, gdFlock, gdShm, gdSem, gdIds, gdMain, gdWork, gdRead, gdEvents>>

(* the processes that are started are those of active *)
gdInit(active) ==
    /\ gdFile = None
    /\ gdPid = [d \in Daemons |-> None] /\ gdFlock = [d \in Daemons |-> None]
    /\ gdShm = [id |-> 0, count |-> None, entries |-> None]
    /\ gdSem = [id |-> 0, val |-> 0] /\ gdIds = 0
    /\ gdMain = [d \in Daemons |-> [pc |-> IF d \in active THEN "start" ELSE "exit", inode |-> None,
                                    shm |-> 0, sem |-> 0, sig |-> FALSE, early |-> FALSE, cont |-> TRUE]]
    /\ gdWork = [d \in Daemons |-> [pc |-> "none", list |-> None]]
    /\ gdRead = [r \in Readers |-> [pc |-> IF r \in active THEN "start" ELSE "done", shm |-> 0, sem |-> 0,
                                    count |-> None, entries |-> None]]
    /\ gdEvents = {}

-----------------------------------------------------------------------------
(* System V calls *)

Critical == {"attach", "entries", "unlock", "count",
             "count_library", "entries_library", "unlock_library"}
Inside == {p \in Daemons : gdWork[p].pc \in Critical} \cup {p \in Readers : gdRead[p].pc \in Critical}

Alive(d) == gdMain[d].pc \notin {"start", "exit", "crashed"}

(* semaphore_create: the set of the key, made when it is missing, with its  *)
(* value set to 1 in any case                                               *)
semaphore_create ==
    /\ gdSem' = [id |-> IF gdSem.id = 0 THEN gdIds + 1 ELSE gdSem.id, val |-> 1]
    /\ gdIds' = IF gdSem.id = 0 THEN gdIds + 1 ELSE gdIds
    /\ gdEvents' = IF Inside # {} THEN gdEvents \cup {"reset"} ELSE gdEvents

(* Mutant: nothing is waited for.                                           *)
semaphore_lockNothing(id) == UNCHANGED gdSem

(* semop on a set that is gone, or goes while it waits, returns an error    *)
(* nobody looks at                                                          *)
semaphore_lock(id) ==
    IF gdSem.id = id THEN gdSem.val > 0 /\ gdSem' = [gdSem EXCEPT !.val = @ - 1]
    ELSE UNCHANGED gdSem

semaphore_unlock(id) ==
    gdSem' = IF gdSem.id = id THEN [gdSem EXCEPT !.val = @ + 1] ELSE gdSem

semaphore_destroy(p, id) ==
    /\ gdSem' = IF gdSem.id = id THEN [id |-> 0, val |-> 0] ELSE gdSem
    /\ gdEvents' = IF gdSem.id = id /\ (\/ \E d \in Daemons \ {p} : Alive(d) /\ gdMain[d].sem = id
                                       \/ \E r \in Readers \ {p} : gdRead[r].sem = id /\ gdRead[r].pc # "done")
                   THEN gdEvents \cup {"reset"} ELSE gdEvents

(* shmget with IPC_CREAT *)
GetSegment ==
    /\ gdShm' = IF gdShm.id = 0 THEN [id |-> gdIds + 1, count |-> None, entries |-> None] ELSE gdShm
    /\ gdIds' = IF gdShm.id = 0 THEN gdIds + 1 ELSE gdIds

-----------------------------------------------------------------------------
(* The daemon's main thread *)

MainStep(d, from, to) ==
    /\ gdMain[d].pc = from
    /\ gdMain' = [gdMain EXCEPT ![d].pc = to]

(* daemonize, up to the lock file: another daemon is running *)
daemonize(d) ==
    /\ MainStep(d, "start", IF gdFile = None THEN "create" ELSE "exit")
    /\ gdEvents' = IF gdFile = None /\ \E o \in Daemons \ {d} : Alive(o)
                   THEN gdEvents \cup {"overlap"} ELSE gdEvents
    /\ UNCHANGED <<gdFile, gdPid, gdFlock, gdShm, gdSem, gdIds, gdWork, gdRead>>

(* create_lock_file: the file must not exist, *)
create_lock_file(d) ==
    /\ MainStep(d, "create", IF gdFile = None THEN "open" ELSE "exit")
    /\ UNCHANGED <<gdFile, gdPid, gdFlock, gdShm, gdSem, gdIds, gdWork, gdRead, gdEvents>>

(* is opened or created, *)
OpenLockFile(d) ==
    /\ gdMain[d].pc = "open"
    /\ LET inode == IF gdFile = None THEN d ELSE gdFile IN
         /\ gdFile' = inode
         /\ gdMain' = [gdMain EXCEPT ![d].pc = "lockf", ![d].inode = inode]
    /\ UNCHANGED <<gdPid, gdFlock, gdShm, gdSem, gdIds, gdWork, gdRead, gdEvents>>

(* locked, or the process exits, and gets the pid *)
LockLockFile(d) ==
    LET inode == gdMain[d].inode IN
    /\ MainStep(d, "lockf", IF gdFlock[inode] = None THEN "registered" ELSE "refused")
    /\ IF gdFlock[inode] = None
       THEN gdFlock' = [gdFlock EXCEPT ![inode] = d] /\ gdPid' = [gdPid EXCEPT ![inode] = d]
       ELSE UNCHANGED <<gdFlock, gdPid>>
    /\ UNCHANGED <<gdFile, gdShm, gdSem, gdIds, gdWork, gdRead, gdEvents>>

(* a process that ends with the file open destroys daemon_instance, whose   *)
(* LockFile removes the file by name, also when another daemon has locked it *)
ExitRemovesLockFile(d) ==
    /\ MainStep(d, "refused", "exit")
    /\ gdFile' = None
    /\ gdEvents' = gdEvents \cup {"removed"}
    /\ UNCHANGED <<gdPid, gdFlock, gdShm, gdSem, gdIds, gdWork, gdRead>>

(* CameraListHolder(): keys, segment, semaphore, worker thread.  Without    *)
(* the file there is no key: main returns and its lock is released, or the  *)
(* exception leaves the signal handler and the process is aborted.          *)
CameraListHolder(d) ==
    /\ gdMain[d].pc = "registered"
    /\ IF gdFile = None
       THEN /\ gdMain' = [gdMain EXCEPT ![d].pc = IF gdMain[d].early THEN "exit" ELSE "refused"]
            /\ gdFlock' = [gdFlock EXCEPT ![gdMain[d].inode] = None]
            /\ UNCHANGED <<gdShm, gdIds>>
       ELSE /\ GetSegment
            /\ gdMain' = [gdMain EXCEPT ![d].pc = "semaphore", ![d].shm = gdShm'.id]
            /\ UNCHANGED gdFlock
    /\ UNCHANGED <<gdFile, gdPid, gdSem, gdWork, gdRead, gdEvents>>

StartWorker(d) ==
    /\ gdMain[d].pc = "semaphore"
    /\ semaphore_create
    /\ gdMain' = [gdMain EXCEPT ![d].pc = "sigwait", ![d].sem = gdSem'.id]
    /\ gdWork' = [gdWork EXCEPT ![d].pc = IF gdMain[d].cont THEN "wait" ELSE "end"]
    /\ UNCHANGED <<gdFile, gdPid, gdFlock, gdShm, gdRead>>

(* sigwait returns; stop(): the loop is to end, a waiting worker is woken.  *)
(* The mutex is not taken: a worker that is not waiting misses the wakeup.  *)
stop(d) ==
    /\ gdMain[d].pc = "sigwait" /\ gdMain[d].sig
    /\ gdMain' = [gdMain EXCEPT ![d].pc = "unlock", ![d].cont = FALSE, ![d].sig = FALSE]
    /\ gdWork' = [gdWork EXCEPT ![d].pc = IF @ = "wait" THEN "end" ELSE @]
    /\ UNCHANGED <<gdFile, gdPid, gdFlock, gdShm, gdSem, gdIds, gdRead, gdEvents>>

(* stop_daemon, destroy_lock_file: unlocked and closed, *)
destroy_lock_file(d) ==
    /\ MainStep(d, "unlock", "remove")
    /\ gdFlock' = [gdFlock EXCEPT ![gdMain[d].inode] = None]
    /\ UNCHANGED <<gdFile, gdPid, gdShm, gdSem, gdIds, gdWork, gdRead, gdEvents>>

(* and removed by name; a handler that ran early returns to main *)
RemoveLockFile(d) ==
    /\ gdMain[d].pc = "remove"
    /\ gdMain' = [gdMain EXCEPT ![d].pc = IF gdMain[d].early THEN "sigwait" ELSE "join", ![d].early = FALSE]
    /\ gdFile' = None
    /\ UNCHANGED <<gdPid, gdFlock, gdShm, gdSem, gdIds, gdWork, gdRead, gdEvents>>

(* ~CameraListHolder: the worker is joined, the segment removed, *)
DestroyHolder(d) ==
    /\ MainStep(d, "join", "destroy")
    /\ gdWork[d].pc = "end"
    /\ gdShm' = IF gdShm.id = gdMain[d].shm
                THEN [gdShm EXCEPT !.id = 0] ELSE gdShm
    /\ UNCHANGED <<gdFile, gdPid, gdFlock, gdSem, gdIds, gdWork, gdRead, gdEvents>>

(* and, with the member semaphore_id, the semaphore *)
DestroySemaphore(d) ==
    /\ MainStep(d, "destroy", "exit")
    /\ semaphore_destroy(d, gdMain[d].sem)
    /\ UNCHANGED <<gdFile, gdPid, gdFlock, gdShm, gdIds, gdWork, gdRead>>

(* "tcam-gige-daemon stop": SIGTERM for the pid in the file.  Before main   *)
(* has blocked the signal its handler runs at once: it makes the list       *)
(* holder, stops it and removes the lock file, and main goes on to wait for *)
(* a signal.                                                                *)
undaemonize ==
    /\ gdFile # None /\ gdPid[gdFile] # None
    /\ LET d == gdPid[gdFile] IN
         /\ Alive(d) /\ ~gdMain[d].sig
         /\ \E early \in BOOLEAN :
              /\ early => gdMain[d].pc = "registered"
              /\ gdMain' = [gdMain EXCEPT ![d].sig = TRUE, ![d].early = early]
    /\ gdEvents' = gdEvents \cup {"stop"}
    /\ UNCHANGED <<gdFile, gdPid, gdFlock, gdShm, gdSem, gdIds, gdWork, gdRead>>

gdMainThread(d) ==
    \/ daemonize(d) \/ create_lock_file(d) \/ OpenLockFile(d) \/ LockLockFile(d) \/ ExitRemovesLockFile(d)
    \/ CameraListHolder(d) \/ StartWorker(d) \/ stop(d) \/ destroy_lock_file(d) \/ RemoveLockFile(d) \/ DestroyHolder(d)
    \/ DestroySemaphore(d)

-----------------------------------------------------------------------------
(* The worker thread: index_loop and loop_function *)

WorkStep(d, from, to) ==
    /\ gdWork[d].pc = from
    /\ gdWork' = [gdWork EXCEPT ![d].pc = to]

LoopAgain(d) == IF gdMain[d].cont THEN "wait" ELSE "end"

(* two seconds have passed, the network is indexed; a list that does not    *)
(* fit is dropped                                                           *)
IndexNetwork(d) ==
    /\ gdWork[d].pc = "wait"
    /\ \E l \in Lists \ {gdWork[d].list} :
         gdWork' = [gdWork EXCEPT ![d] = IF l = TooMany THEN [@ EXCEPT !.pc = LoopAgain(d)]
                                         ELSE [pc |-> "lock", list |-> l]]
    /\ UNCHANGED <<gdFile, gdPid, gdFlock, gdShm, gdSem, gdIds, gdMain, gdRead, gdEvents>>

LockList(d) ==
    /\ WorkStep(d, "lock", "attach")
    /\ semaphore_lock(gdMain[d].sem)
    /\ UNCHANGED <<gdFile, gdPid, gdFlock, gdShm, gdIds, gdMain, gdRead, gdEvents>>

(* shmat of a removed segment returns -1, which is written to *)
AttachAndCount(d) ==
    /\ gdWork[d].pc = "attach"
    /\ IF gdShm.id = gdMain[d].shm
       THEN /\ gdShm' = [gdShm EXCEPT !.count = gdWork[d].list]
            /\ gdWork' = [gdWork EXCEPT ![d].pc = "entries"]
            /\ UNCHANGED <<gdMain, gdFlock>>
       ELSE /\ gdMain' = [gdMain EXCEPT ![d].pc = "crashed"]
            /\ gdWork' = [gdWork EXCEPT ![d].pc = "end"]
            /\ gdFlock' = [i \in Daemons |-> IF gdFlock[i] = d THEN None ELSE gdFlock[i]]
            /\ UNCHANGED gdShm
    /\ UNCHANGED <<gdFile, gdPid, gdSem, gdIds, gdRead, gdEvents>>

(* the segment stays as long as it is attached, but a removed one is nobody *)
(* else's any more                                                          *)
WriteEntries(d) ==
    /\ WorkStep(d, "entries", "unlock")
    /\ gdShm' = IF gdShm.id \in {0, gdMain[d].shm} THEN [gdShm EXCEPT !.entries = gdWork[d].list] ELSE gdShm
    /\ UNCHANGED <<gdFile, gdPid, gdFlock, gdSem, gdIds, gdMain, gdRead, gdEvents>>

(* Mutant: the semaphore is not given back.                                 *)
UnlockListForgotten(d) ==
    /\ WorkStep(d, "unlock", LoopAgain(d))
    /\ UNCHANGED <<gdFile, gdPid, gdFlock, gdShm, gdSem, gdIds, gdMain, gdRead, gdEvents>>

UnlockList(d) ==
    /\ WorkStep(d, "unlock", LoopAgain(d))
    /\ semaphore_unlock(gdMain[d].sem)
    /\ UNCHANGED <<gdFile, gdPid, gdFlock, gdShm, gdIds, gdMain, gdRead, gdEvents>>

gdWorker(d) ==
    \/ IndexNetwork(d) \/ LockList(d) \/ AttachAndCount(d) \/ WriteEntries(d) \/ UnlockList(d)

-----------------------------------------------------------------------------
(* Readers *)

ReadStep(r, from, to) ==
    /\ gdRead[r].pc = from
    /\ gdRead' = [gdRead EXCEPT ![r].pc = to]

(* the list command makes semaphore and segment when there are none; all    *)
(* it needs is the file                                                     *)
get_camera_list(r) ==
    /\ gdRead[r].pc = "start" /\ gdFile # None
    /\ semaphore_create
    /\ gdRead' = [gdRead EXCEPT ![r].pc = "segment", ![r].sem = gdSem'.id]
    /\ UNCHANGED <<gdFile, gdPid, gdFlock, gdShm, gdMain, gdWork>>

GetListSegment(r) ==
    /\ gdRead[r].pc = "segment"
    /\ GetSegment
    /\ gdRead' = [gdRead EXCEPT ![r].pc = "lock", ![r].shm = gdShm'.id]
    /\ UNCHANGED <<gdFile, gdPid, gdFlock, gdSem, gdMain, gdWork, gdEvents>>

(* the library needs the segment and makes a semaphore object, which        *)
(* destroys the semaphore at its end                                        *)
fetch_gige_daemon_device_list(r) ==
    /\ gdRead[r].pc = "start" /\ gdFile # None /\ gdShm.id # 0
    /\ gdRead' = [gdRead EXCEPT ![r].pc = "create", ![r].shm = gdShm.id]
    /\ UNCHANGED <<gdFile, gdPid, gdFlock, gdShm, gdSem, gdIds, gdMain, gdWork, gdEvents>>

CreateReaderSemaphore(r) ==
    /\ gdRead[r].pc = "create"
    /\ semaphore_create
    /\ gdRead' = [gdRead EXCEPT ![r].pc = "lock_library", ![r].sem = gdSem'.id]
    /\ UNCHANGED <<gdFile, gdPid, gdFlock, gdShm, gdMain, gdWork>>

LockForReading(r) ==
    /\ \/ ReadStep(r, "lock", "count")
       \/ ReadStep(r, "lock_library", "count_library")
    /\ semaphore_lock(gdRead[r].sem)
    /\ UNCHANGED <<gdFile, gdPid, gdFlock, gdShm, gdIds, gdMain, gdWork, gdEvents>>

ReadCount(r) ==
    /\ gdRead[r].pc \in {"count", "count_library"}
    /\ gdRead' = [gdRead EXCEPT
         ![r].count = IF gdShm.id = gdRead[r].shm THEN gdShm.count ELSE @,
         ![r].pc = IF gdShm.id = gdRead[r].shm THEN (IF @ = "count" THEN "entries" ELSE "entries_library")
                   ELSE IF @ = "count" THEN "crashed" ELSE "unlock_library"]
    /\ UNCHANGED <<gdFile, gdPid, gdFlock, gdShm, gdSem, gdIds, gdMain, gdWork, gdEvents>>

ReadEntries(r) ==
    /\ gdRead[r].pc \in {"entries", "entries_library"}
    /\ gdRead' = [gdRead EXCEPT
         ![r].entries = IF gdShm.id \in {0, gdRead[r].shm} THEN gdShm.entries ELSE gdRead[r].count,
         ![r].pc = IF @ = "entries" THEN "unlock" ELSE "unlock_library"]
    /\ UNCHANGED <<gdFile, gdPid, gdFlock, gdShm, gdSem, gdIds, gdMain, gdWork, gdEvents>>

UnlockAfterReading(r) ==
    /\ \/ ReadStep(r, "unlock", "done")
       \/ ReadStep(r, "unlock_library", "destroy")
    /\ semaphore_unlock(gdRead[r].sem)
    /\ UNCHANGED <<gdFile, gdPid, gdFlock, gdShm, gdIds, gdMain, gdWork, gdEvents>>

DestroyReaderSemaphore(r) ==
    /\ ReadStep(r, "destroy", "done")
    /\ semaphore_destroy(r, gdRead[r].sem)
    /\ UNCHANGED <<gdFile, gdPid, gdFlock, gdShm, gdIds, gdMain, gdWork>>

gdReader(r) ==
    \/ get_camera_list(r) \/ GetListSegment(r) \/ fetch_gige_daemon_device_list(r)
    \/ CreateReaderSemaphore(r) \/ LockForReading(r) \/ ReadCount(r) \/ ReadEntries(r)
    \/ UnlockAfterReading(r) \/ DestroyReaderSemaphore(r)

(* a reader is killed while it holds the semaphore: nothing undoes its lock *)
KillReader(r) ==
    /\ gdRead[r].pc = "entries"
    /\ gdRead' = [gdRead EXCEPT ![r].pc = "crashed"]
    /\ gdEvents' = gdEvents \cup {"kill"}
    /\ UNCHANGED <<gdFile, gdPid, gdFlock, gdShm, gdSem, gdIds, gdMain, gdWork>>

gdNext ==
    \/ undaemonize
    \/ \E d \in Daemons : gdMainThread(d) \/ gdWorker(d)
    \/ \E r \in Readers : gdReader(r) \/ KillReader(r)

(* every thread runs on, and the waiters of a semaphore are served in turn; *)
(* a reader need not start                                                  *)
gdFairness ==
    /\ \A d \in Daemons : /\ WF_gdVars(gdMainThread(d)) /\ WF_gdVars(gdWorker(d))
                          /\ SF_gdVars(LockList(d))
    /\ \A r \in Readers : WF_gdVars(gdReader(r) /\ gdRead[r].pc # "start")

gdSpec == gdInit(Daemons \cup Readers) /\ [][gdNext]_gdVars /\ gdFairness

-----------------------------------------------------------------------------
gdTypeOK ==
    /\ gdFile \in Daemons \cup {None}
    /\ gdPid \in [Daemons -> Daemons \cup {None}] /\ gdFlock \in [Daemons -> Daemons \cup {None}]
    /\ gdShm.id \in 0..gdIds /\ gdSem.id \in 0..gdIds
    /\ \A d \in Daemons : gdMain[d].inode \in Daemons \cup {None} /\ gdMain[d].shm \in 0..gdIds
    /\ \A d \in Daemons : gdWork[d].list \in Lists \cup {None}
    /\ gdEvents \subseteq {"stop", "removed", "reset", "overlap", "kill"}

Serving == {d \in Daemons : Alive(d) /\ gdMain[d].pc \notin {"create", "open", "lockf", "refused"}}

(* Until a daemon is stopped at most one gets past each lock file (lockf    *)
(* decides when several have found none), and at most one at all until a    *)
(* start that found the file locked has ended: its LockFile removes the     *)
(* file of the daemon that runs, and the next start makes another one.      *)
OneDaemonUntilStop ==
    "stop" \notin gdEvents =>
      \A d, e \in Serving : d = e \/ ("removed" \in gdEvents /\ gdMain[d].inode # gdMain[e].inode)

(* A daemon that runs alone keeps its segment: its worker never writes to a *)
(* segment that was removed, unless a daemon started without a lock file    *)
(* while another one was alive: not yet locked, stopping or robbed of it.   *)
NoCrashWithoutOverlap ==
    "overlap" \notin gdEvents => \A d \in Daemons : gdMain[d].pc # "crashed"

(* The list a reader gets is one the daemon wrote, not the count of one and *)
(* the entries of another, unless the semaphore was made anew while         *)
(* somebody was inside, or destroyed while others still use it.             *)
WholeUnlessReset ==
    \A r \in Readers : gdRead[r].pc = "done" /\ "reset" \notin gdEvents
                       => gdRead[r].entries = gdRead[r].count

(* What the daemon promises to its readers and to other daemons: one per    *)
(* lock file, no crash unless starts overlap, and whole lists as long as    *)
(* nobody resets the semaphore.                                             *)
DaemonHolds == gdTypeOK /\ OneDaemonUntilStop /\ NoCrashWithoutOverlap /\ WholeUnlessReset

(* A daemon that gets its signal in sigwait ends, although the wakeup of    *)
(* its worker may be missed, unless a reader was killed inside.             *)
StopEnds ==
    \A d \in Daemons : (gdMain[d].pc = "sigwait" /\ gdMain[d].sig /\ ~gdMain[d].early)
                         ~> (gdMain[d].pc \in {"exit", "crashed"} \/ "kill" \in gdEvents)
=============================================================================
