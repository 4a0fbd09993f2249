------------------------------ MODULE Uploads ------------------------------
(***************************************************************************)
(* The life of uploaded evidence (uploads/uploads.service.ts): the row of  *)
(* an asset, its object in the store, the charge for its storage and the   *)
(* job that deletes the object (object-lifecycle/object-deletion).         *)
(*                                                                         *)
(* Requests, workers and rounds of the cleanup run the same methods; when  *)
(* the queue is on, a round is itself a job of a worker.  A method reads   *)
(* the row, checks its status, talks to the store or the scanner and then  *)
(* writes by the row's id, so a runner remembers only the statement it is  *)
(* about to execute.  What happens to an asset in the meantime, methods do *)
(* not notice; alone records whether it has happened.                      *)
(*                                                                         *)
(* Contents are the facts a verification looks at; the row keeps none of   *)
(* them here, so any acceptable payload may be the one it was created      *)
(* with, and a scan may end either way.  Left out: metadata, the quota's   *)
(* refusal.  Of the ledger, module Quota, the usage record of an asset is  *)
(* kept.  Of the age a row must have before cleanup looks at it, only the  *)
(* expiry of the upload is kept.                                           *)
(***************************************************************************)
EXTENDS Naturals

CONSTANTS
  Assets,
  Requests, Workers, Cleaners,  \* what runs at the same time
  Modes,        \* configurations, the same in all processes: [production, direct,
                \* async : BOOLEAN]; direct: the store takes objects from clients,
                \* async: UPLOAD_SCAN_ASYNC
  Payloads,     \* what a client may ask an upload for
  Objects,      \* what may be found in the store, compared with the asset's row
  MaxSize,      \* MAX_UPLOAD_SIZE_BYTES
  ScanTries,    \* cleanup scans again below so many attempts
  EraseTries,   \* cleanup deletes an object again below so many attempts
  MaxFaults     \* bound: deaths of a runner, failures of the store's delete

\* A fact that may be missing.
Claim == {"none", "same", "other"}

ASSUME UploadsAssumption ==
  /\ Requests \cap (Workers \cup Cleaners) = {}
  /\ Modes \subseteq [production : BOOLEAN, direct : BOOLEAN, async : BOOLEAN]
  /\ Payloads \subseteq [goal : {"none", "own", "foreign"}, url : BOOLEAN, named : BOOLEAN,
                         type : {"image", "pdf", "other"}, size : Nat,
                         sum : {"none", "sha256", "other"}]
  /\ Objects \subseteq [sized : BOOLEAN, header : Claim, kind : Claim, sum : {"same", "other"},
                        stated : Claim, fits : BOOLEAN]
  /\ MaxSize \in Nat
  /\ ScanTries \in Nat /\ EraseTries \in Nat /\ MaxFaults \in Nat

Runners == Requests \cup Workers \cup Cleaners
Kinds == {"scan", "delete", "erase"}

VARIABLES
  status,   \* [Assets -> Status]; "NONE": no row yet, "CASCADED": gone with its goal
  expired,  \* [Assets -> BOOLEAN]: uploadExpiresAt has passed
  scans,    \* [Assets -> 0..ScanTries]: scanAttempts, as far as it is compared
  stored,   \* [Assets -> BOOLEAN]: the object is in the store
  usage,    \* [Assets -> {"none", "held", "released"}]: its usage record
  erasure,  \* [Assets -> [status : ErasureStatus, tries : 0..EraseTries, key : BOOLEAN]]
  queue,    \* [Assets \X Kinds -> {"none", "waiting", "active"}]
  run,      \* [Runners -> Run]
  alone,    \* [Assets -> BOOLEAN]: no two runners have overlapped on it so far
  faults,
  mode      \* Modes: the configuration in force

asset == <<status, expired, scans, usage>>
state == <<asset, stored, erasure, queue, run, alone, faults>>
vars == <<state, mode>>

\* Scans and deletions are left to workers.
async == mode.async
-----------------------------------------------------------------------------
Status == {"NONE", "PENDING_UPLOAD", "UPLOADED", "SCANNING", "READY", "QUARANTINED",
           "SCAN_FAILED", "REJECTED", "EXPIRED", "DELETION_PENDING", "DELETE_FAILED",
           "DELETED", "CASCADED"}
Rowless == {"NONE", "CASCADED"}
ErasureStatus == {"NONE", "QUEUED", "RUNNING", "SUCCEEDED", "FAILED"}
Step == {"idle", "put", "complete", "verify", "verified", "reject", "rejected", "queue",
         "scan", "mark", "look", "clean", "infected", "failed",
         "delete", "remove", "schedule", "erase", "start", "erasing", "keyless", "record",
         "erased"}
\* What a runner deletes an object for: the asset's deletion, the expiry of the
\* upload, or the deletion job itself.
Purposes == {"asset", "expiry", "object"}
Run == [at : Step \ {"idle"}, asset : Assets, for : Purposes, entry : Kinds \cup {"none"}]
       \cup [at : {"idle"}]
Idle == [at |-> "idle"]

TypeOK ==
  /\ status \in [Assets -> Status]
  /\ expired \in [Assets -> BOOLEAN]
  /\ scans \in [Assets -> 0..ScanTries]
  /\ stored \in [Assets -> BOOLEAN]
  /\ usage \in [Assets -> {"none", "held", "released"}]
  /\ erasure \in [Assets -> [status : ErasureStatus, tries : 0..EraseTries, key : BOOLEAN]]
  /\ queue \in [Assets \X Kinds -> {"none", "waiting", "active"}]
  /\ run \in [Runners -> Run]
  /\ alone \in [Assets -> BOOLEAN]
  /\ faults \in 0..MaxFaults
  /\ mode \in Modes

\* onModuleInit: production does not start without a direct store and workers;
\* the cleanup it asks for too runs in every mode here.
Starts(m) == m.production => m.direct /\ m.async

Init ==
  /\ status = [a \in Assets |-> "NONE"]
  /\ expired = [a \in Assets |-> FALSE]
  /\ scans = [a \in Assets |-> 0]
  /\ stored = [a \in Assets |-> FALSE]
  /\ usage = [a \in Assets |-> "none"]
  /\ erasure = [a \in Assets |-> [status |-> "NONE", tries |-> 0, key |-> TRUE]]
  /\ queue = [e \in Assets \X Kinds |-> "none"]
  /\ run = [r \in Runners |-> Idle]
  /\ alone = [a \in Assets |-> TRUE]
  /\ faults = 0
  /\ mode \in {m \in Modes : Starts(m)}
-----------------------------------------------------------------------------
(* How runners move.                                                        *)

\* An idle runner starts on the asset a; entry is the queue's entry it serves.
Begins(r, a, at, for, entry) ==
  /\ run[r] = Idle
  /\ run' = [run EXCEPT ![r] = [at |-> at, asset |-> a, for |-> for, entry |-> entry]]
  /\ alone' = [alone EXCEPT ![a] =
       @ /\ \A q \in Runners \ {r} : run[q] = Idle \/ run[q].asset # a]

\* The runner r is before the statement at, of the asset a.
At(r, at, a) == run[r].at = at /\ a = run[r].asset

GoesTo(r, to) ==
  /\ run' = [run EXCEPT ![r] = [at |-> to, asset |-> @.asset, for |-> @.for, entry |-> @.entry]]
  /\ UNCHANGED alone

\* The method returns; after an error the queue may try the entry again.
Ends(r, entryStates) ==
  /\ run' = [run EXCEPT ![r] = Idle]
  /\ IF run[r].entry = "none" THEN UNCHANGED queue
     ELSE \E q \in entryStates : queue' = [queue EXCEPT ![<<run[r].asset, run[r].entry>>] = q]
  /\ UNCHANGED alone
Returns(r) == Ends(r, {"none"})
Throws(r) == Ends(r, {"waiting", "none"})

Becomes(a, s) == status' = [status EXCEPT ![a] = s]

\* QueueService.enqueue: an entry that waits or is processed is kept, one that
\* is through is as good as none.
Enqueued(a, kind) ==
  [queue EXCEPT ![<<a, kind>>] = IF @ = "none" THEN "waiting" ELSE @]
-----------------------------------------------------------------------------
(* createEvidenceUpload, storeEvidenceContent, completeEvidenceUpload.      *)

\* parseUploadPayload, and what is looked up of a payload before the row is
\* created: an object the client puts itself needs a checksum.
Accepted(p) ==
  /\ ~p.url /\ p.named
  /\ p.type \in {"image", "pdf"}
  /\ p.size \in 1..MaxSize
  /\ p.sum # "other" /\ (mode.direct => p.sum = "sha256")
  /\ p.goal # "foreign"

\* The row and its charge, in a transaction.
Create(a) ==
  /\ status[a] = "NONE"
  /\ \E p \in Payloads : Accepted(p)
  /\ Becomes(a, "PENDING_UPLOAD")
  /\ usage' = [usage EXCEPT ![a] = "held"]
  /\ UNCHANGED <<expired, scans, stored, erasure, queue, run, alone, faults>>

Expire(a) ==
  /\ status[a] # "NONE" /\ ~expired[a]
  /\ expired' = [expired EXCEPT ![a] = TRUE]
  /\ UNCHANGED <<status, scans, usage, stored, erasure, queue, run, alone, faults>>

\* buildUploadRequest: the address given out is the store's own, or a route of
\* the API with a signature; both live as long as the upload may.
Presigned(a) == mode.direct /\ ~expired[a]
SignatureHolds(a) == ~mode.direct /\ ~expired[a]

\* A client puts the object into the store by the presigned address, which is
\* valid as long as the upload is, whatever becomes of the asset.
ClientPuts(a) ==
  /\ status[a] # "NONE" /\ Presigned(a) /\ ~stored[a]
  /\ stored' = [stored EXCEPT ![a] = TRUE]
  /\ UNCHANGED <<asset, erasure, queue, run, alone, faults>>

StoreRead(r, a) ==
  /\ status[a] = "PENDING_UPLOAD" /\ SignatureHolds(a)
  /\ Begins(r, a, "put", "object", "none")
  /\ UNCHANGED <<asset, stored, erasure, queue, faults>>

StorePut(r, a) ==
  /\ At(r, "put", a)
  /\ stored' = [stored EXCEPT ![a] = TRUE]
  /\ GoesTo(r, "complete")
  /\ UNCHANGED <<asset, erasure, queue, faults>>

CompleteCall(r, a) ==
  /\ status[a] \notin Rowless \cup {"DELETED"}
  /\ Begins(r, a, "complete", "object", "none")
  /\ UNCHANGED <<asset, stored, erasure, queue, faults>>

\* The row is read: a pending upload is verified, one that is to be scanned
\* goes on, anything else is returned or refused.
CompleteRead(r, a) ==
  /\ At(r, "complete", a)
  /\ \/ /\ status[a] = "PENDING_UPLOAD" /\ ~expired[a]
        /\ GoesTo(r, "verify") /\ UNCHANGED queue
     \/ /\ status[a] \in {"UPLOADED", "SCAN_FAILED"}
        /\ GoesTo(r, "queue") /\ UNCHANGED queue
     \/ /\ status[a] \notin {"UPLOADED", "SCAN_FAILED"}
        /\ status[a] = "PENDING_UPLOAD" => expired[a]
        /\ Returns(r)
  /\ UNCHANGED <<asset, stored, erasure, faults>>

\* verifyUploadedContent: the object o is what the payload p declared, by its
\* size, the type and the checksum the store states, its first bytes and its own
\* checksum, and is no image or document beyond the limits.
Verified(p, o) ==
  /\ o.sized
  /\ o.header # "other" /\ o.kind = "same"
  /\ p.sum = "none" \/ o.sum = "same"
  /\ o.stated # "other"
  /\ o.fits

\* The object is fetched and checked; one that is not there leaves the row.
Verify(r, a) ==
  /\ At(r, "verify", a)
  /\ IF stored[a]
     THEN /\ \E p \in Payloads, o \in Objects :
               Accepted(p) /\ GoesTo(r, IF Verified(p, o) THEN "verified" ELSE "reject")
          /\ UNCHANGED queue
     ELSE Returns(r)
  /\ UNCHANGED <<asset, stored, erasure, faults>>

Uploaded(r, a) ==
  /\ At(r, "verified", a)
  /\ Becomes(a, "UPLOADED")
  /\ GoesTo(r, "queue")
  /\ UNCHANGED <<expired, scans, usage, stored, erasure, queue, faults>>

\* rejectAsset: the object, if the store lets it, and then row and charge.
RejectDelete(r, a) ==
  /\ At(r, "reject", a)
  /\ \E gone \in BOOLEAN : stored' = [stored EXCEPT ![a] = @ /\ ~gone]
  /\ GoesTo(r, "rejected")
  /\ UNCHANGED <<asset, erasure, queue, faults>>

Reject(r, a) ==
  /\ At(r, "rejected", a)
  /\ Becomes(a, "REJECTED")
  /\ usage' = [usage EXCEPT ![a] = "released"]
  /\ Returns(r)
  /\ UNCHANGED <<expired, scans, stored, erasure, faults>>

\* Queued, refused by a queue that is switched off, or scanned by the request.
QueueScan(r, a) ==
  /\ At(r, "queue", a)
  /\ \/ /\ async
        /\ queue' = Enqueued(a, "scan")
        /\ run' = [run EXCEPT ![r] = Idle]
        /\ UNCHANGED <<status, alone>>
     \/ async /\ status[a] \notin Rowless /\ Becomes(a, "SCAN_FAILED") /\ Returns(r)
     \/ ~async /\ GoesTo(r, "scan") /\ UNCHANGED <<status, queue>>
  /\ UNCHANGED <<expired, scans, usage, stored, erasure, faults>>
-----------------------------------------------------------------------------
(* processUploadScan.                                                       *)

\* Mutant of ScanRead: any status may be scanned.
ScanReadAny(r, a) ==
  /\ At(r, "scan", a)
  /\ IF status[a] \in {"READY", "QUARANTINED"} THEN Returns(r)
     ELSE GoesTo(r, "mark") /\ UNCHANGED queue
  /\ UNCHANGED <<asset, stored, erasure, faults>>

ScanRead(r, a) ==
  /\ At(r, "scan", a)
  /\ CASE status[a] \in {"UPLOADED", "SCAN_FAILED"} -> GoesTo(r, "mark") /\ UNCHANGED queue
       [] status[a] \in {"READY", "QUARANTINED"} -> Returns(r)
       [] OTHER -> Throws(r)
  /\ UNCHANGED <<asset, stored, erasure, faults>>

ScanMark(r, a) ==
  /\ At(r, "mark", a)
  /\ Becomes(a, "SCANNING")
  /\ scans' = [scans EXCEPT ![a] = IF @ < ScanTries THEN @ + 1 ELSE @]
  /\ GoesTo(r, "look")
  /\ UNCHANGED <<expired, usage, stored, erasure, queue, faults>>

\* The object is fetched and the scanner answers or fails.
ScanLook(r, a) ==
  /\ At(r, "look", a)
  /\ \E to \in IF stored[a] THEN {"clean", "infected", "failed"} ELSE {"failed"} : GoesTo(r, to)
  /\ UNCHANGED <<asset, stored, erasure, queue, faults>>

ScanWrite(r, a) ==
  /\ \/ At(r, "clean", a) /\ Becomes(a, "READY") /\ Returns(r)
     \/ At(r, "infected", a) /\ Becomes(a, "QUARANTINED") /\ Returns(r)
     \/ At(r, "failed", a) /\ Becomes(a, "SCAN_FAILED") /\ Throws(r)
  /\ UNCHANGED <<expired, scans, usage, stored, erasure, faults>>
-----------------------------------------------------------------------------
(* deleteEvidenceUpload, processAssetDeletion, processObjectDeletionJob.    *)

DeleteCall(r, a) ==
  /\ status[a] \notin Rowless \cup {"DELETED"}
  /\ Begins(r, a, "delete", "asset", "none")
  /\ UNCHANGED <<asset, stored, erasure, queue, faults>>

\* Also what cleanup does to an asset that has been in quarantine for long.
\* The entry may be lost when a request asks for it; cleanup does not ask.
Delete(r, a) ==
  /\ At(r, "delete", a)
  /\ Becomes(a, "DELETION_PENDING")
  /\ \/ /\ r \in Requests /\ async
        /\ queue' \in {queue, Enqueued(a, "delete")}
        /\ run' = [run EXCEPT ![r] = Idle]
        /\ UNCHANGED alone
     \/ /\ r \in Requests => ~async
        /\ GoesTo(r, "remove") /\ UNCHANGED queue
  /\ UNCHANGED <<expired, scans, usage, stored, erasure, faults>>

RemoveRead(r, a) ==
  /\ At(r, "remove", a)
  /\ CASE status[a] \in {"DELETED", "EXPIRED"} -> Returns(r)
       [] status[a] \in Rowless -> Throws(r)
       [] OTHER -> GoesTo(r, "schedule") /\ UNCHANGED queue
  /\ UNCHANGED <<asset, stored, erasure, faults>>

\* ObjectDeletionService.schedule: one job per object, an old one is kept.
Scheduled(a) ==
  [erasure EXCEPT ![a] =
    IF @.status = "NONE" THEN [status |-> "QUEUED", tries |-> @.tries, key |-> @.key] ELSE @]

Schedule(r, a) ==
  /\ At(r, "schedule", a)
  /\ erasure' = Scheduled(a)
  /\ GoesTo(r, "erase")
  /\ UNCHANGED <<asset, stored, queue, faults>>

\* The object's deletion has ended.  The deletion of an asset goes on or fails
\* with it, expiry goes on in any case, the job's own runner is through.
AfterErasure(r, a, done) ==
  CASE run[r].for = "object" -> (IF done THEN Returns(r) ELSE Throws(r)) /\ UNCHANGED status
    [] run[r].for = "asset" /\ ~done ->
         IF status[a] \in Rowless THEN Throws(r) /\ UNCHANGED status
         ELSE Throws(r) /\ Becomes(a, "DELETE_FAILED")
    [] OTHER -> GoesTo(r, "erased") /\ UNCHANGED <<status, queue>>

\* The job is read: one that has SUCCEEDED is through, one without the key of
\* its object cannot be run.
EraseRead(r, a) ==
  /\ At(r, "erase", a)
  /\ CASE erasure[a].status = "SUCCEEDED" -> AfterErasure(r, a, TRUE)
       [] erasure[a].status # "SUCCEEDED" /\ ~erasure[a].key -> AfterErasure(r, a, FALSE)
       [] OTHER -> GoesTo(r, "start") /\ UNCHANGED <<status, queue>>
  /\ UNCHANGED <<expired, scans, usage, stored, erasure, faults>>

\* The key is read again with the write: another runner may have taken it.
EraseStart(r, a) ==
  /\ At(r, "start", a)
  /\ erasure' = [erasure EXCEPT ![a] = [status |-> "RUNNING", key |-> @.key,
                   tries |-> IF @.tries < EraseTries THEN @.tries + 1 ELSE @.tries]]
  /\ GoesTo(r, IF erasure[a].key THEN "erasing" ELSE "keyless")
  /\ UNCHANGED <<asset, stored, queue, faults>>

Erase(r, a) ==
  /\ At(r, "erasing", a)
  /\ stored' = [stored EXCEPT ![a] = FALSE]
  /\ GoesTo(r, "record")
  /\ UNCHANGED <<asset, erasure, queue, faults>>

\* The job gives up the key of the object it has deleted.
EraseRecord(r, a) ==
  /\ At(r, "record", a)
  /\ erasure' = [erasure EXCEPT ![a] = [status |-> "SUCCEEDED", tries |-> @.tries, key |-> FALSE]]
  /\ AfterErasure(r, a, TRUE)
  /\ UNCHANGED <<expired, scans, usage, stored, faults>>

\* The store or the record fails, or there is no key.
EraseFails(r, a) ==
  /\ \/ At(r, "keyless", a) /\ UNCHANGED faults
     \/ /\ At(r, "erasing", a) \/ At(r, "record", a)
        /\ faults < MaxFaults /\ faults' = faults + 1
  /\ erasure' = [erasure EXCEPT ![a] = [status |-> "FAILED", tries |-> @.tries, key |-> @.key]]
  /\ AfterErasure(r, a, FALSE)
  /\ UNCHANGED <<expired, scans, usage, stored>>

\* Mutant of Remove: the charge stays.
RemoveCharged(r, a) ==
  /\ At(r, "erased", a)
  /\ Becomes(a, IF run[r].for = "expiry" THEN "EXPIRED" ELSE "DELETED")
  /\ Returns(r)
  /\ UNCHANGED <<expired, scans, usage, stored, erasure, faults>>

\* The row and the charge, in a transaction.
Remove(r, a) ==
  /\ At(r, "erased", a)
  /\ Becomes(a, IF run[r].for = "expiry" THEN "EXPIRED" ELSE "DELETED")
  /\ usage' = [usage EXCEPT ![a] = "released"]
  /\ Returns(r)
  /\ UNCHANGED <<expired, scans, stored, erasure, faults>>

\* GoalsService.deleteGoal, for an asset of the goal: its object's deletion is
\* scheduled and its row deleted, in a transaction.
DeleteGoal(a) ==
  /\ status[a] \notin Rowless
  /\ Becomes(a, "CASCADED")
  /\ erasure' = Scheduled(a)
  /\ UNCHANGED <<expired, scans, usage, stored, queue, run, alone, faults>>

\* A statement finds no row to update: an upload that was verified is rejected,
\* anything else has failed.
RowIsGone(r, a) ==
  /\ run[r] # Idle /\ a = run[r].asset
  /\ status[a] \in Rowless
  /\ \/ run[r].at = "verified" /\ GoesTo(r, "reject") /\ UNCHANGED queue
     \/ /\ run[r].at \in {"rejected", "mark", "clean", "infected", "failed", "delete", "erased"}
        /\ Throws(r)
     \/ run[r].at = "queue" /\ async /\ Throws(r)
  /\ UNCHANGED <<asset, stored, erasure, faults>>
-----------------------------------------------------------------------------
(* Workers and cleanupUploadAssets.  A round reads lists of rows and comes  *)
(* to each row some time after.                                             *)

WorkerTakes(r, a, kind) ==
  /\ queue[<<a, kind>>] = "waiting"
  /\ LET at == CASE kind = "scan" -> "scan" [] kind = "delete" -> "remove" [] OTHER -> "erase"
     IN  Begins(r, a, at, IF kind = "delete" THEN "asset" ELSE "object", kind)
  /\ queue' = [queue EXCEPT ![<<a, kind>>] = "active"]
  /\ UNCHANGED <<asset, stored, erasure, faults>>

CleanExpired(r, a) ==
  /\ status[a] = "PENDING_UPLOAD" /\ expired[a]
  /\ Begins(r, a, "schedule", "expiry", "none")
  /\ UNCHANGED <<asset, stored, erasure, queue, faults>>

CleanDeletion(r, a) ==
  /\ status[a] \in {"DELETION_PENDING", "DELETE_FAILED"}
  /\ Begins(r, a, "remove", "asset", "none")
  /\ UNCHANGED <<asset, stored, erasure, queue, faults>>

CleanQuarantine(r, a) ==
  /\ status[a] = "QUARANTINED"
  /\ Begins(r, a, "delete", "asset", "none")
  /\ UNCHANGED <<asset, stored, erasure, queue, faults>>

CleanScan(r, a) ==
  /\ status[a] \in {"UPLOADED", "SCAN_FAILED"} /\ scans[a] < ScanTries
  /\ \/ async /\ queue' = Enqueued(a, "scan") /\ UNCHANGED <<run, alone>>
     \/ ~async /\ Begins(r, a, "scan", "object", "none") /\ UNCHANGED queue
  /\ UNCHANGED <<asset, stored, erasure, faults>>

\* A scan that has run for long is given up, also if it still runs.
CleanStale(a) ==
  /\ status[a] = "SCANNING"
  /\ Becomes(a, "SCAN_FAILED")
  /\ alone' = [alone EXCEPT ![a] = @ /\ \A r \in Runners : run[r] = Idle \/ run[r].asset # a]
  /\ UNCHANGED <<expired, scans, usage, stored, erasure, queue, run, faults>>

Erasable(a) == erasure[a].status \in {"QUEUED", "FAILED"} /\ erasure[a].tries < EraseTries

CleanErasure(r, a) ==
  /\ Erasable(a)
  /\ Begins(r, a, "erase", "object", "none")
  /\ UNCHANGED <<asset, stored, erasure, queue, faults>>

\* Mutant of CleanOrphan: an object that has a job is left to the job.
CleanOrphanNew(r, a) ==
  /\ stored[a] /\ status[a] = "CASCADED" /\ erasure[a].status = "NONE"
  /\ Begins(r, a, "schedule", "object", "none")
  /\ UNCHANGED <<asset, stored, erasure, queue, faults>>

\* An object of which no row is known.
CleanOrphan(r, a) ==
  /\ stored[a] /\ status[a] = "CASCADED"
  /\ Begins(r, a, "schedule", "object", "none")
  /\ UNCHANGED <<asset, stored, erasure, queue, faults>>

\* QueueReconciliationService, for object deletions.
Reconcile(a) ==
  /\ Erasable(a)
  /\ queue' = Enqueued(a, "erase") /\ queue' # queue
  /\ UNCHANGED <<asset, stored, erasure, run, alone, faults>>

\* A process dies, or a statement fails outside of a try block.
Dies(r) ==
  /\ run[r] # Idle
  /\ faults < MaxFaults
  /\ faults' = faults + 1
  /\ Throws(r)
  /\ UNCHANGED <<asset, stored, erasure>>

RunnerStep(r, a) ==
  \/ StorePut(r, a) \/ CompleteRead(r, a) \/ Verify(r, a)
  \/ RejectDelete(r, a) \/ QueueScan(r, a) \/ ScanRead(r, a) \/ ScanLook(r, a)
  \/ RemoveRead(r, a) \/ Schedule(r, a) \/ EraseRead(r, a) \/ EraseStart(r, a)
  \/ Erase(r, a) \/ EraseRecord(r, a) \/ EraseFails(r, a)
  \/ /\ status[a] \notin Rowless
     /\ \/ Uploaded(r, a) \/ Reject(r, a) \/ ScanMark(r, a) \/ ScanWrite(r, a)
        \/ Delete(r, a) \/ Remove(r, a)
  \/ RowIsGone(r, a)

Handler ==
  \/ \E a \in Assets : Create(a) \/ Expire(a) \/ ClientPuts(a) \/ DeleteGoal(a)
                       \/ CleanStale(a) \/ Reconcile(a)
  \/ \E r \in Runners, a \in Assets : RunnerStep(r, a)
  \/ \E r \in Requests, a \in Assets : StoreRead(r, a) \/ CompleteCall(r, a) \/ DeleteCall(r, a)
  \/ \E r \in Workers, a \in Assets, k \in Kinds : WorkerTakes(r, a, k)
  \/ \E r \in Cleaners, a \in Assets :
       \/ CleanExpired(r, a) \/ CleanDeletion(r, a) \/ CleanQuarantine(r, a)
       \/ CleanScan(r, a) \/ CleanErasure(r, a) \/ CleanOrphan(r, a)
  \/ \E r \in Runners : Dies(r)

Next == Handler /\ UNCHANGED mode

Spec == Init /\ [][Next]_vars

\* Methods go on, workers take what waits and every round of the cleanup reads
\* all its lists; requests and clients owe nothing.
Fairness ==
  /\ \A r \in Runners : WF_state(\E a \in Assets : RunnerStep(r, a))
  /\ \A w \in Workers, a \in Assets, k \in Kinds : SF_state(WorkerTakes(w, a, k))
  /\ \A k \in Cleaners, a \in Assets :
       /\ SF_state(CleanDeletion(k, a)) /\ SF_state(CleanScan(k, a)) /\ SF_state(CleanOrphan(k, a))
  /\ \A a \in Assets : WF_state(CleanStale(a))

FairSpec == Spec /\ Fairness
-----------------------------------------------------------------------------
(* Properties.                                                              *)

\* An asset that was rejected, that expired or that was deleted is not charged
\* for any more, whatever ran at the same time, failed or died.
GoneIsReleased ==
  \A a \in Assets : status[a] \in {"REJECTED", "EXPIRED", "DELETED"} => usage[a] = "released"

\* readEvidenceContent, and what every answer's download asks for.
Downloadable(a) == status[a] = "READY"

\* What can be downloaded was scanned clean, is in the store and is charged for,
\* as long as nothing has overlapped on it.
ReadyIsHeld ==
  \A a \in Assets : alone[a] /\ Downloadable(a) => stored[a] /\ usage[a] = "held"

Doomed == {"DELETION_PENDING", "DELETE_FAILED", "DELETED", "CASCADED"}
\* A user who has asked for a deletion does not see the asset again: repeated
\* calls, entries left in the queue, retries and deaths do not bring it back,
\* unless two of them overlap.
DeletionIsFinal ==
  [][\A a \in Assets : status[a] \in Doomed /\ alone'[a] => status'[a] \in Doomed]_vars

\* Something is begun on an asset and not through: its deletion, the scan of its
\* object, or, when its row went with its goal, the deletion of the object.
Open(a) ==
  \/ status[a] \in {"DELETION_PENDING", "DELETE_FAILED"} /\ alone[a]
  \/ status[a] \in {"UPLOADED", "SCANNING"}
  \/ status[a] = "CASCADED" /\ stored[a] /\ erasure[a].key

\* What is begun on an asset ends, though the entry is lost, the store fails or a
\* runner dies: it is deleted, it is scanned or the scan has failed and can be tried
\* again, and no object is left of which no row tells.
WorkEnds == \A a \in Assets : Open(a) ~> ~Open(a)

\* What is gone is not charged for, and what is offered for download is there and is.
ChargesAgree == TypeOK /\ GoneIsReleased /\ ReadyIsHeld
=============================================================================
