---------------------------- MODULE DocumentStore ----------------------------
(***************************************************************************)
(* One JSON document behind an in-memory map, as AlertStore keeps it:      *)
(* every transaction is a link of a FIFO promise chain; a link makes sure  *)
(* the document is loaded, applies a synchronous operation to the map,     *)
(* and rewrites the whole file (tmp file + rename) when something changed. *)
(* A failed write is logged and swallowed; a crash loses the memory.       *)
(*                                                                         *)
(* A record of the document is abstracted to its revision: 0 is "absent",  *)
(* an insert writes 1 and every later save of it one more.                 *)
(***************************************************************************)
EXTENDS Integers, Sequences, FiniteSets

CONSTANTS
    Entries,            \* record ids of the document
    Clients,            \* concurrent callers of transact()
    MaxRevision,        \* bound on the saves of one record
    MaxCrashes,         \* bound on the crashes of the process
    MaxWriteFailures,   \* bound on the file writes that fail
    MaxReadFailures,    \* bound on the loads that find the file unreadable
    Boots               \* how the stores of the instance are loaded, see boot

ASSUME DocumentStoreAssumption ==
    /\ MaxRevision \in Nat \ {0}
    /\ MaxCrashes \in Nat
    /\ MaxWriteFailures \in Nat
    /\ MaxReadFailures \in Nat
    /\ Boots \subseteq {"before", "beside", "lazy"}

VARIABLES
    memory,     \* the in-memory map
    disk,       \* the file
    loaded,     \* the flag ensureLoaded() tests
    reader,     \* who is inside load(): nobody, the boot hook or a link
    contents,   \* what readFile() returned to that reader
    links,      \* queued links, the head is the running one
    link,       \* progress of the head of the chain
    request,    \* request[c]: the transaction caller c awaits
    acked,      \* acked[k]: newest revision whose caller has resumed
    boot,       \* who loads it: main.ts "before" it serves anybody, a module
                \* hook "beside" the poller that already serves, or nobody
                \* at boot ("lazy": the first link does)
    crashes, writeFailures, readFailures

storeVars == <<memory, disk, loaded, reader, contents, links, link, request,
               acked, boot, crashes, writeFailures, readFailures>>
bounds == <<boot, crashes, writeFailures, readFailures>>

Revision == 0..MaxRevision
Document == [Entries -> Revision]
Empty == [k \in Entries |-> 0]

NoRequest == [kind |-> "none"]
\* "insert" saves a new record, "update" an existing one, "read" changes
\* nothing and "throw" rejects.
Request == [kind : {"insert", "update"}, key : Entries]
             \cup [kind : {"read", "throw"}]

LinkPhases == {"idle", "loading", "writing"}

StoreTypeOK ==
    /\ memory \in Document
    /\ disk \in Document
    /\ loaded \in BOOLEAN
    /\ reader \in {"nobody", "boot", "link"}
    /\ contents \in Document
    /\ links \in Seq(Clients)
    /\ link \in LinkPhases
    /\ request \in [Clients -> Request \cup {NoRequest}]
    /\ acked \in Document
    /\ boot \in Boots
    /\ crashes \in 0..MaxCrashes
    /\ writeFailures \in 0..MaxWriteFailures
    /\ readFailures \in 0..MaxReadFailures

StoreInit ==
    /\ memory = Empty
    /\ disk = Empty
    /\ loaded = FALSE
    /\ reader = "nobody"
    /\ contents = Empty
    /\ links = <<>>
    /\ link = "idle"
    /\ request = [c \in Clients |-> NoRequest]
    /\ acked = Empty
    /\ boot \in Boots
    /\ crashes = 0
    /\ writeFailures = 0
    /\ readFailures = 0

-----------------------------------------------------------------------------
\* load(): the flag is raised first, the file is read afterwards.

BeginLoad(who) ==
    /\ loaded' = TRUE
    /\ reader' = who
    /\ contents' = disk

\* main.ts or onModuleInit: ensureLoaded() outside the chain.
BootLoad ==
    /\ boot # "lazy"
    /\ ~loaded
    /\ BeginLoad("boot")
    /\ UNCHANGED <<memory, disk, links, link, request, acked, bounds>>

\* The reader goes on: the boot hook is done, or the link turns to its operation.
EndLoad ==
    /\ reader # "nobody"
    /\ reader' = "nobody"
    /\ link' = IF reader = "link" THEN "idle" ELSE link
    /\ UNCHANGED <<disk, loaded, contents, links, request, acked, boot, crashes,
                   writeFailures>>

\* Mutant: the file is read, its records are dropped.
LoadForgetsRecords ==
    /\ EndLoad
    /\ UNCHANGED <<memory, readFailures>>

\* The file has been read: its records are put into the map.
LoadSucceeds ==
    /\ EndLoad
    /\ memory' = [k \in Entries |->
                    IF contents[k] # 0 THEN contents[k] ELSE memory[k]]
    /\ UNCHANGED readFailures

\* An unreadable file is logged, and the store starts empty.
LoadFails ==
    /\ readFailures < MaxReadFailures
    /\ readFailures' = readFailures + 1
    /\ EndLoad
    /\ UNCHANGED memory

FinishLoad == LoadSucceeds \/ LoadFails

-----------------------------------------------------------------------------
\* transact(): the link is queued in the caller's own step.

Transact(c, r) ==
    /\ request[c] = NoRequest
    /\ boot = "before" => loaded /\ reader = "nobody"
    /\ request' = [request EXCEPT ![c] = r]
    /\ links' = Append(links, c)
    /\ UNCHANGED <<memory, disk, loaded, reader, contents, link, acked, bounds>>

HeadRequest == request[links[1]]
LinkIsDue == links # <<>> /\ link = "idle"

\* ensureLoaded() inside the link, when it is the first user of the store.
LinkLoads ==
    /\ LinkIsDue
    /\ ~loaded
    /\ link' = "loading"
    /\ BeginLoad("link")
    /\ UNCHANGED <<memory, disk, links, request, acked, bounds>>

\* The operation of an accepted change; ids are fresh, so an insert never
\* meets a record that memory or the file already has.
Changes(r) ==
    \/ r.kind = "insert" /\ memory[r.key] = 0 /\ disk[r.key] = 0
    \/ r.kind = "update" /\ memory[r.key] \in 1..(MaxRevision - 1)

LinkApplies ==
    /\ LinkIsDue
    /\ loaded
    /\ Changes(HeadRequest)
    /\ memory' = [memory EXCEPT ![HeadRequest.key] = @ + 1]
    /\ link' = "writing"
    /\ UNCHANGED <<disk, loaded, reader, contents, links, request, acked, bounds>>

\* The caller resumes and the next link becomes due.
Resume ==
    /\ links' = Tail(links)
    /\ request' = [request EXCEPT ![links[1]] = NoRequest]

\* Mutant: a rejected operation breaks the chain.
LinkDiesOfThrow ==
    /\ LinkIsDue
    /\ loaded
    /\ ~Changes(HeadRequest)
    /\ HeadRequest.kind # "throw"
    /\ Resume
    /\ UNCHANGED <<memory, disk, loaded, reader, contents, link, acked, bounds>>

\* Nothing changed, or the operation threw: no write, and the chain goes on.
LinkLeaves ==
    /\ LinkIsDue
    /\ loaded
    /\ ~Changes(HeadRequest)
    /\ Resume
    /\ UNCHANGED <<memory, disk, loaded, reader, contents, link, acked, bounds>>

\* Mutants of what LinkWrites stores: the changed record alone, and a snapshot
\* taken before the operation.
WritesOneRecord == [k \in Entries |-> IF k = HeadRequest.key THEN memory[k] ELSE 0]
WritesOldSnapshot == [memory EXCEPT ![HeadRequest.key] = @ - 1]
SnapshotToWrite == memory

\* The file is replaced by the snapshot of the whole map.
LinkWrites ==
    /\ link = "writing"
    /\ disk' = SnapshotToWrite
    /\ link' = "idle"
    /\ acked' = [acked EXCEPT ![HeadRequest.key] = memory[HeadRequest.key]]
    /\ Resume
    /\ UNCHANGED <<memory, loaded, reader, contents, bounds>>

\* writeFile() swallows the error: the caller resumes as if it were durable.
LinkWriteFails ==
    /\ link = "writing"
    /\ writeFailures < MaxWriteFailures
    /\ writeFailures' = writeFailures + 1
    /\ link' = "idle"
    /\ acked' = [acked EXCEPT ![HeadRequest.key] = memory[HeadRequest.key]]
    /\ Resume
    /\ UNCHANGED <<memory, disk, loaded, reader, contents, boot, crashes,
                   readFailures>>

\* The process dies and is started again: only the file survives.
StoreCrash ==
    /\ crashes < MaxCrashes
    /\ crashes' = crashes + 1
    /\ memory' = Empty
    /\ loaded' = FALSE
    /\ reader' = "nobody"
    /\ contents' = Empty
    /\ links' = <<>>
    /\ link' = "idle"
    /\ request' = [c \in Clients |-> NoRequest]
    /\ UNCHANGED <<disk, acked, boot, writeFailures, readFailures>>

LinkStep == LinkLoads \/ LinkApplies \/ LinkLeaves \/ LinkWrites \/ LinkWriteFails

StoreNext ==
    \/ BootLoad
    \/ FinishLoad
    \/ \E c \in Clients, r \in Request : Transact(c, r)
    \/ LinkStep
    \/ StoreCrash

StoreSpec == StoreInit /\ [][StoreNext]_storeVars

\* The runtime runs every ready promise job and every file operation settles.
FairSpec ==
    /\ StoreSpec
    /\ WF_storeVars(FinishLoad)
    /\ WF_storeVars(LinkStep)

-----------------------------------------------------------------------------
(* Properties *)

\* While nobody is still reading the file, the map is never behind it: no
\* operation works on a map that misses a saved record (transact, load).
MemoryCoversDisk ==
    (readFailures = 0 /\ loaded /\ reader = "nobody") =>
        \A k \in Entries : disk[k] <= memory[k]

\* Records are deleted softly only, so a record that reached the file stays in
\* it and never goes back to an older revision, through writes, swallowed write
\* failures, crashes and reloads, as long as the file can be read (writeFile,
\* snapshot, load).
SavedRecordsSurvive ==
    [][readFailures' = 0 => \A k \in Entries : disk[k] <= disk'[k]]_storeVars

\* A caller that resumed from a successful transaction finds its change in the
\* file, unless a write or a read has failed since (transact awaits writeFile).
ResumedMeansSaved ==
    (writeFailures = 0 /\ readFailures = 0) => \A k \in Entries : acked[k] <= disk[k]

\* Every caller of transact() is eventually resumed, even when operations
\* before it throw or their writes fail (the chain survives a rejection).
EveryCallerResumes ==
    \A c \in Clients : request[c] # NoRequest ~> request[c] = NoRequest
=============================================================================
