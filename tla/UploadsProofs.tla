--------------------------- MODULE UploadsProofs ---------------------------
(***************************************************************************)
(* Proofs about uploaded evidence, for any number of assets, requests,     *)
(* workers and rounds of the cleanup, in every configuration.              *)
(***************************************************************************)
EXTENDS Uploads, TLAPS

\* The runner r is at work on the asset a.
On(r, a) == run[r] # Idle /\ run[r].asset = a

\* Its object may be deleted: its deletion was asked for, or it came too late.
Finished(a) ==
  \/ status[a] \in Doomed \cup {"EXPIRED"}
  \/ status[a] = "PENDING_UPLOAD" /\ expired[a]

Arrived == {"UPLOADED", "SCANNING", "READY", "QUARANTINED", "SCAN_FAILED"}
Removing == {"remove", "schedule", "erase", "start", "erasing", "keyless", "record", "erased"}

\* Before an asset has a row, nothing knows of it.
Unborn(a) == status[a] = "NONE" =>
  /\ \A r \in Runners : ~On(r, a)
  /\ \A k \in Kinds : queue[<<a, k>>] = "none"
  /\ erasure[a].status = "NONE"

\* What alone says: one runner at a time.
Sole(a) == alone[a] => \A r, q \in Runners : On(r, a) /\ On(q, a) => r = q

\* An object that has been verified is there and charged for.
Kept(a) == alone[a] =>
  /\ status[a] \in Arrived => stored[a]
  /\ status[a] \in Arrived \cup {"PENDING_UPLOAD"} => usage[a] = "held"

\* Only of an asset that is finished is the object to be deleted.
Due(a) == alone[a] =>
  /\ erasure[a].status # "NONE" => Finished(a)
  /\ queue[<<a, "erase">>] # "none" => erasure[a].status # "NONE"
  /\ queue[<<a, "delete">>] # "none" => status[a] \in Doomed

\* What a runner before the statement at has found out and may rely on.
Fact(at, for, entry, a) ==
  /\ at \in {"verify", "verified", "reject", "rejected"} =>
       status[a] = "CASCADED" \/ (status[a] = "PENDING_UPLOAD" /\ erasure[a].status = "NONE")
  /\ at = "verified" => stored[a] \/ status[a] = "CASCADED"
  /\ at \in {"queue", "mark"} => status[a] \in {"UPLOADED", "SCAN_FAILED", "CASCADED"}
  /\ at \in {"look", "clean", "infected", "failed"} => status[a] \in {"SCANNING", "CASCADED"}
  /\ at = "delete" => for = "asset"
  /\ at \in {"remove", "erased"} => for # "object"
  /\ at \in Removing =>
       /\ Finished(a)
       /\ for = "asset" => status[a] \in Doomed
       /\ for = "expiry" => status[a] \in {"PENDING_UPLOAD", "CASCADED"}
  /\ entry = "delete" => status[a] \in Doomed
  /\ entry = "erase" => erasure[a].status # "NONE"
Knows(r, a) == Fact(run[r].at, run[r].for, run[r].entry, a)
Informed(a) == alone[a] => \A r \in Runners : On(r, a) => Knows(r, a)

Released(a) == status[a] \in {"REJECTED", "EXPIRED", "DELETED"} => usage[a] = "released"

AssetInv(a) == Unborn(a) /\ Sole(a) /\ Kept(a) /\ Due(a) /\ Informed(a) /\ Released(a)
UploadInv == \A a \in Assets : AssetInv(a)

\* A deletion that was asked for stays so.
Final(a) == status[a] \in Doomed /\ alone'[a] => status'[a] \in Doomed

(***************************************************************************)
(* How runners move: r moves on a, the others stay where they are.         *)
(***************************************************************************)
Runs(f) == f \in [Runners -> Run]
Others(r) == \A q \in Runners : q # r => run'[q] = run[q]

\* A step on a: runners stay with their assets, rows of other assets are kept.
Stays(a) == \A q \in Runners :
  \/ run'[q] = run[q]
  \/ /\ run[q] = Idle \/ run[q].asset = a
     /\ run'[q] = Idle \/ run'[q].asset = a
Same(b) ==
  /\ status'[b] = status[b] /\ expired'[b] = expired[b] /\ stored'[b] = stored[b]
  /\ usage'[b] = usage[b] /\ erasure'[b] = erasure[b] /\ alone'[b] = alone[b]
  /\ \A k \in Kinds : queue'[<<b, k>>] = queue[<<b, k>>]
Before == TypeOK /\ UploadInv /\ mode' = mode
After(a) ==
  /\ TypeOK' /\ AssetInv(a)' /\ Final(a)
  /\ Stays(a) /\ \A b \in Assets : b # a => Same(b)

\* What the proofs use of the assumption on the constants.
LEMMA Bounds == MaxFaults \in Nat /\ ScanTries \in Nat /\ EraseTries \in Nat
BY UploadsAssumption

\* Being before a statement is being at work.
LEMMA AtIsOn ==
  ASSUME Runs(run), NEW r \in Runners, NEW a \in Assets, NEW at, at # "idle", At(r, at, a)
  PROVE  On(r, a) /\ run[r].at = at
BY DEF Runs, Run, At, On, Idle

\* A runner goes on to the next statement of its asset.
LEMMA MoveStep ==
  ASSUME Runs(run), NEW r \in Runners, NEW a \in Assets, On(r, a),
         NEW to \in Step \ {"idle"}, GoesTo(r, to)
  PROVE  /\ Runs(run')
         /\ run'[r] # Idle /\ run'[r].asset = a
         /\ run'[r].at = to /\ run'[r].for = run[r].for /\ run'[r].entry = run[r].entry
         /\ Others(r)
         /\ alone' = alone
<1> DEFINE val == [at |-> to, asset |-> run[r].asset, for |-> run[r].for, entry |-> run[r].entry]
<1>1. val \in Run /\ val # Idle
  BY DEF Runs, Run, On, Idle
<1>2. run' = [run EXCEPT ![r] = val]
  BY DEF GoesTo, Runs
<1>3. val.asset = a /\ val.at = to /\ val.for = run[r].for /\ val.entry = run[r].entry
  BY DEF On
<1> HIDE DEF val
<1>4. Runs(run') /\ run'[r] = val /\ Others(r)
  BY <1>1, <1>2 DEF Runs, Others
<1> QED
  BY <1>1, <1>3, <1>4 DEF GoesTo

\* An idle runner begins on an asset; it stays alone only if nobody else is on it.
LEMMA BeginStep ==
  ASSUME Runs(run), alone \in [Assets -> BOOLEAN], NEW r \in Runners, NEW a \in Assets,
         NEW at \in Step \ {"idle"}, NEW for \in Purposes, NEW entry \in Kinds \cup {"none"},
         Begins(r, a, at, for, entry)
  PROVE  /\ Runs(run')
         /\ run[r] = Idle
         /\ run'[r] # Idle /\ run'[r].asset = a
         /\ run'[r].at = at /\ run'[r].for = for /\ run'[r].entry = entry
         /\ Others(r)
         /\ alone' \in [Assets -> BOOLEAN]
         /\ \A b \in Assets : b # a => alone'[b] = alone[b]
         /\ alone'[a] => alone[a] /\ \A q \in Runners : q # r => ~On(q, a)
<1> DEFINE val == [at |-> at, asset |-> a, for |-> for, entry |-> entry]
<1>1. val \in Run /\ val # Idle
  BY DEF Run, Idle
<1>2. run[r] = Idle /\ run' = [run EXCEPT ![r] = val]
  BY DEF Begins
<1>3. val.asset = a /\ val.at = at /\ val.for = for /\ val.entry = entry
  OBVIOUS
<1> HIDE DEF val
<1>4. Runs(run') /\ run'[r] = val /\ Others(r)
  BY <1>1, <1>2 DEF Runs, Others
<1> DEFINE free == \A q \in Runners \ {r} : run[q] = Idle \/ run[q].asset # a
<1>5. alone' = [alone EXCEPT ![a] = alone[a] /\ free]
  BY DEF Begins
<1>6. free => \A q \in Runners : q # r => ~On(q, a)
  BY DEF On
<1>7. (alone[a] /\ free) \in BOOLEAN
  OBVIOUS
<1> HIDE DEF free
<1>8. /\ alone' \in [Assets -> BOOLEAN]
      /\ \A b \in Assets : b # a => alone'[b] = alone[b]
      /\ alone'[a] = (alone[a] /\ free)
  BY <1>5, <1>7
<1> QED
  BY <1>1, <1>2, <1>3, <1>4, <1>6, <1>8

\* What the end of a method leaves in the queue.
LEMMA EndStep ==
  ASSUME Runs(run), queue \in [Assets \X Kinds -> {"none", "waiting", "active"}],
         NEW r \in Runners, NEW a \in Assets, On(r, a),
         NEW S \in SUBSET {"none", "waiting"}, Ends(r, S)
  PROVE  /\ Runs(run')
         /\ run'[r] = Idle
         /\ Others(r)
         /\ alone' = alone
         /\ queue' \in [Assets \X Kinds -> {"none", "waiting", "active"}]
         /\ \A b \in Assets, k \in Kinds :
              b # a \/ k # run[r].entry => queue'[<<b, k>>] = queue[<<b, k>>]
<1>1. Runs(run') /\ run'[r] = Idle /\ Others(r) /\ alone' = alone
  BY DEF Ends, Runs, Others, Run, Idle
<1>2. CASE run[r].entry = "none"
  BY <1>1, <1>2 DEF Ends
<1>3. CASE run[r].entry # "none"
  <2>1. PICK q \in S : queue' = [queue EXCEPT ![<<run[r].asset, run[r].entry>>] = q]
    BY <1>3 DEF Ends
  <2>2. run[r].asset = a /\ run[r].entry \in Kinds
    BY <1>3 DEF On, Runs, Run, Idle
  <2> QED
    BY <1>1, <2>1, <2>2
<1> QED
  BY <1>2, <1>3

(***************************************************************************)
(* A step on a leaves the invariant of the other assets alone.             *)
(***************************************************************************)
LEMMA Elsewhere ==
  ASSUME NEW a \in Assets, NEW b \in Assets, b # a, AssetInv(b), Stays(a), Same(b)
  PROVE  AssetInv(b)' /\ Final(b)
<1>1. \A q \in Runners : On(q, b)' => On(q, b) /\ run'[q] = run[q]
  BY DEF Stays, On
<1>2. Unborn(b)'
  BY <1>1 DEF AssetInv, Unborn, Same
<1>3. Sole(b)'
  BY <1>1 DEF AssetInv, Sole, Same
<1>4. Kept(b)' /\ Released(b)'
  BY DEF AssetInv, Kept, Released, Same
<1>5. Finished(b)' <=> Finished(b)
  BY DEF Finished, Same
<1>6. Due(b)'
  BY <1>5 DEF AssetInv, Due, Same, Kinds
<1>7. ASSUME NEW q \in Runners, run'[q] = run[q], Knows(q, b)
      PROVE  Knows(q, b)'
  BY <1>5, <1>7 DEF Knows, Fact, Same
<1>8. Informed(b)'
  BY <1>1, <1>7 DEF AssetInv, Informed, Same
<1> QED
  BY <1>2, <1>3, <1>4, <1>6, <1>8 DEF AssetInv, Final, Same

(***************************************************************************)
(* What a step of the runner r on a does to the parts about runners: as    *)
(* long as the asset is alone, r is its only runner.                       *)
(***************************************************************************)
LEMMA RunnerStays ==
  ASSUME NEW r \in Runners, NEW a \in Assets, AssetInv(a), On(r, a), Others(r), alone' = alone,
         status'[a] # "NONE",
         \/ run'[r] = Idle
         \/ run'[r] # Idle /\ run'[r].asset = a /\ (alone[a] => Knows(r, a)')
  PROVE  Unborn(a)' /\ Sole(a)' /\ Informed(a)' /\ Stays(a)
<1>1. \A q \in Runners : On(q, a)' => On(q, a)
  BY DEF On, Others
<1>2. Sole(a)' /\ Unborn(a)'
  BY <1>1 DEF Sole, Unborn, AssetInv
<1>3. ASSUME NEW q \in Runners, alone'[a], On(q, a)'
      PROVE  Knows(q, a)'
  <2>1. q = r /\ run'[r] # Idle
    BY <1>1, <1>3 DEF Sole, AssetInv, On
  <2> QED
    BY <1>3, <2>1
<1>4. Informed(a)'
  BY <1>3 DEF Informed
<1>5. Stays(a)
  BY DEF Stays, Others, On
<1> QED
  BY <1>2, <1>4, <1>5

\* Who is at work on an asset, or finds an entry or a deletion of it, has a row.
LEMMA HasRow ==
  ASSUME NEW a \in Assets, AssetInv(a),
         \/ \E r \in Runners : On(r, a)
         \/ \E k \in Kinds : queue[<<a, k>>] # "none"
         \/ erasure[a].status # "NONE"
  PROVE  status[a] # "NONE"
BY DEF AssetInv, Unborn

(***************************************************************************)
(* The steps that write no row: a runner moves, ends or begins.            *)
(***************************************************************************)
LEMMA MoveOnly ==
  ASSUME Before, NEW r \in Runners, NEW a \in Assets, On(r, a),
         NEW to \in Step \ {"idle"}, GoesTo(r, to),
         UNCHANGED <<asset, stored, erasure, queue, faults>>,
         alone[a] => Fact(to, run[r].for, run[r].entry, a)
  PROVE  After(a)
<1>1. /\ Runs(run')
      /\ run'[r] # Idle /\ run'[r].asset = a
      /\ run'[r].at = to /\ run'[r].for = run[r].for /\ run'[r].entry = run[r].entry
      /\ Others(r)
      /\ alone' = alone
  BY MoveStep DEF Before, TypeOK, Runs
<1>2. AssetInv(a)
  BY DEF Before, UploadInv
<1>3. TypeOK'
  BY <1>1 DEF Before, TypeOK, Runs, asset
<1>4. \A b \in Assets : b # a => Same(b)
  BY <1>1 DEF Same, asset
<1>5. alone[a] => Knows(r, a)'
  BY <1>1 DEF Knows, Fact, Finished, asset
<1>6. Unborn(a)' /\ Sole(a)' /\ Informed(a)' /\ Stays(a)
  BY <1>1, <1>2, <1>5, RunnerStays, HasRow DEF asset
<1>7. Kept(a)' /\ Due(a)' /\ Released(a)'
  BY <1>1, <1>2 DEF AssetInv, Kept, Due, Released, Finished, asset
<1> QED
  BY <1>3, <1>4, <1>6, <1>7 DEF After, AssetInv, Final, asset

\* A runner that ends its method and writes no row keeps the invariant.
LEMMA EndOnly ==
  ASSUME Before, NEW r \in Runners, NEW a \in Assets, On(r, a),
         NEW S \in SUBSET {"none", "waiting"}, Ends(r, S),
         UNCHANGED <<asset, stored, erasure>>, faults' \in 0..MaxFaults
  PROVE  After(a)
<1>1. /\ Runs(run')
      /\ run'[r] = Idle
      /\ Others(r)
      /\ alone' = alone
      /\ queue' \in [Assets \X Kinds -> {"none", "waiting", "active"}]
      /\ \A b \in Assets, k \in Kinds :
           b # a \/ k # run[r].entry => queue'[<<b, k>>] = queue[<<b, k>>]
  BY EndStep DEF Before, TypeOK, Runs
<1>2. AssetInv(a)
  BY DEF Before, UploadInv
<1>3. TypeOK'
  BY <1>1 DEF Before, TypeOK, Runs, asset
<1>4. \A b \in Assets : b # a => Same(b)
  BY <1>1 DEF Same, asset
<1>5. Unborn(a)' /\ Sole(a)' /\ Informed(a)' /\ Stays(a)
  BY <1>1, <1>2, RunnerStays, HasRow DEF asset
<1>6. Kept(a)' /\ Released(a)'
  BY <1>1, <1>2 DEF AssetInv, Kept, Released, asset
<1>7. alone[a] => Knows(r, a)
  BY <1>2 DEF AssetInv, Informed
<1>8. Due(a)'
  BY <1>1, <1>2, <1>7 DEF AssetInv, Due, Finished, Knows, Fact, Kinds, asset
<1> QED
  BY <1>3, <1>4, <1>5, <1>6, <1>8 DEF After, AssetInv, Final, asset

\* A runner that begins on an asset keeps it if what it must know is so.
LEMMA BeginOnly ==
  ASSUME Before, NEW r \in Runners, NEW a \in Assets,
         NEW at \in Step \ {"idle"}, NEW for \in Purposes, NEW entry \in Kinds \cup {"none"},
         Begins(r, a, at, for, entry),
         UNCHANGED <<asset, stored, erasure, faults>>,
         \/ queue' = queue
         \/ entry # "none" /\ queue[<<a, entry>>] # "none"
            /\ queue' = [queue EXCEPT ![<<a, entry>>] = "active"],
         status[a] # "NONE",
         alone[a] => Fact(at, for, entry, a)
  PROVE  After(a)
<1>1. /\ Runs(run')
      /\ run[r] = Idle
      /\ run'[r] # Idle /\ run'[r].asset = a
      /\ run'[r].at = at /\ run'[r].for = for /\ run'[r].entry = entry
      /\ Others(r)
      /\ alone' \in [Assets -> BOOLEAN]
      /\ \A b \in Assets : b # a => alone'[b] = alone[b]
      /\ alone'[a] => alone[a] /\ \A q \in Runners : q # r => ~On(q, a)
  BY BeginStep DEF Before, TypeOK, Runs
<1>2. AssetInv(a)
  BY DEF Before, UploadInv
<1>3. /\ queue' \in [Assets \X Kinds -> {"none", "waiting", "active"}]
      /\ \A b \in Assets, k \in Kinds : b # a => queue'[<<b, k>>] = queue[<<b, k>>]
      /\ \A k \in Kinds : queue'[<<a, k>>] # "none" => queue[<<a, k>>] # "none"
  BY DEF Before, TypeOK
<1>4. TypeOK'
  BY <1>1, <1>3 DEF Before, TypeOK, Runs, asset
<1>5. \A b \in Assets : b # a => Same(b)
  BY <1>1, <1>3 DEF Same, asset
<1>6. Stays(a)
  BY <1>1 DEF Stays, Others
<1>7. Unborn(a)'
  BY DEF Unborn, asset
<1>8. \A q \in Runners : alone'[a] /\ On(q, a)' => q = r
  BY <1>1 DEF On, Others
<1>9. Sole(a)'
  BY <1>8 DEF Sole
<1>10. alone[a] => Knows(r, a)'
  BY <1>1 DEF Knows, Fact, Finished, asset
<1>11. Informed(a)'
  BY <1>1, <1>8, <1>10 DEF Informed
<1>12. Kept(a)' /\ Released(a)'
  BY <1>1, <1>2 DEF AssetInv, Kept, Released, asset
<1>13. Due(a)'
  BY <1>1, <1>2, <1>3 DEF AssetInv, Due, Finished, Kinds, asset
<1> QED
  BY <1>4, <1>5, <1>6, <1>7, <1>9, <1>11, <1>12, <1>13 DEF After, AssetInv, Final, asset

\* Method Returns and Throws are ends.
LEMMA EndsAre ==
  ASSUME NEW r \in Runners
  PROVE  /\ Returns(r) => \E S \in SUBSET {"none", "waiting"} : Ends(r, S)
         /\ Throws(r) => \E S \in SUBSET {"none", "waiting"} : Ends(r, S)
BY DEF Returns, Throws

\* A request reads the row before it stores the content.
LEMMA StoreReadKeeps ==
  ASSUME Before, NEW r \in Requests, NEW a \in Assets, StoreRead(r, a)
  PROVE  After(a)
<1>1. Fact("put", "object", "none", a)
  BY DEF Fact, Removing
<1> QED
  BY <1>1, BeginOnly DEF StoreRead, Step, Purposes, Runners

\* A request is asked to complete an upload.
LEMMA CompleteCallKeeps ==
  ASSUME Before, NEW r \in Requests, NEW a \in Assets, CompleteCall(r, a)
  PROVE  After(a)
<1>1. Fact("complete", "object", "none", a)
  BY DEF Fact, Removing
<1> QED
  BY <1>1, BeginOnly DEF CompleteCall, Step, Purposes, Runners, Rowless

\* A request is asked to delete an asset.
LEMMA DeleteCallKeeps ==
  ASSUME Before, NEW r \in Requests, NEW a \in Assets, DeleteCall(r, a)
  PROVE  After(a)
<1>1. Fact("delete", "asset", "none", a)
  BY DEF Fact, Removing
<1> QED
  BY <1>1, BeginOnly DEF DeleteCall, Step, Purposes, Runners, Rowless

\* What a runner knows of its entry stays true while nothing is written.
LEMMA KnowsEntry ==
  ASSUME Before, NEW r \in Runners, NEW a \in Assets, On(r, a), alone[a]
  PROVE  /\ Knows(r, a)
         /\ run[r].entry = "delete" => status[a] \in Doomed
         /\ run[r].entry = "erase" => erasure[a].status # "NONE"
BY DEF Before, UploadInv, AssetInv, Informed, Knows, Fact

\* The row is pending, to be scanned or nothing to complete.
LEMMA CompleteReadKeeps ==
  ASSUME Before, NEW r \in Runners, NEW a \in Assets, CompleteRead(r, a)
  PROVE  After(a)
<1>1. On(r, a)
  BY AtIsOn DEF CompleteRead, Before, TypeOK, Runs
<1>2. CASE status[a] = "PENDING_UPLOAD" /\ ~expired[a] /\ GoesTo(r, "verify") /\ UNCHANGED queue
  <2>1. alone[a] => Fact("verify", run[r].for, run[r].entry, a)
    BY <1>1, <1>2, KnowsEntry
    DEF Before, UploadInv, AssetInv, Due, Fact, Finished, Doomed, Removing
  <2> QED
    BY <1>1, <1>2, <2>1, MoveOnly DEF CompleteRead, Step
<1>3. CASE status[a] \in {"UPLOADED", "SCAN_FAILED"} /\ GoesTo(r, "queue") /\ UNCHANGED queue
  <2>1. alone[a] => Fact("queue", run[r].for, run[r].entry, a)
    BY <1>1, <1>3, KnowsEntry DEF Fact, Removing
  <2> QED
    BY <1>1, <1>3, <2>1, MoveOnly DEF CompleteRead, Step
<1>4. CASE Returns(r)
  BY <1>1, <1>4, EndsAre, EndOnly DEF CompleteRead, Before, TypeOK
<1> QED
  BY <1>2, <1>3, <1>4 DEF CompleteRead

\* The object that is there is verified, and has been seen in the store.
LEMMA VerifyKeeps ==
  ASSUME Before, NEW r \in Runners, NEW a \in Assets, Verify(r, a)
  PROVE  After(a)
<1>1. On(r, a) /\ run[r].at = "verify"
  BY AtIsOn DEF Verify, Before, TypeOK, Runs
<1>2. CASE stored[a] /\ UNCHANGED queue
  <2>1. PICK to \in {"verified", "reject"} : GoesTo(r, to)
    BY <1>2 DEF Verify
  <2>2. alone[a] => Fact(to, run[r].for, run[r].entry, a)
    BY <1>1, <1>2, KnowsEntry DEF Knows, Fact, Removing
  <2> QED
    BY <1>1, <1>2, <2>1, <2>2, MoveOnly DEF Verify, Step
<1>3. CASE Returns(r)
  BY <1>1, <1>3, EndsAre, EndOnly DEF Verify, Before, TypeOK
<1> QED
  BY <1>2, <1>3 DEF Verify

\* The row is read before a scan.
LEMMA ScanReadKeeps ==
  ASSUME Before, NEW r \in Runners, NEW a \in Assets, ScanRead(r, a)
  PROVE  After(a)
<1>1. On(r, a)
  BY AtIsOn DEF ScanRead, Before, TypeOK, Runs
<1>2. CASE status[a] \in {"UPLOADED", "SCAN_FAILED"} /\ GoesTo(r, "mark") /\ UNCHANGED queue
  <2>1. alone[a] => Fact("mark", run[r].for, run[r].entry, a)
    BY <1>1, <1>2, KnowsEntry DEF Fact, Removing
  <2> QED
    BY <1>1, <1>2, <2>1, MoveOnly DEF ScanRead, Step
<1>3. CASE Returns(r) \/ Throws(r)
  BY <1>1, <1>3, EndsAre, EndOnly DEF ScanRead, Before, TypeOK
<1> QED
  BY <1>2, <1>3 DEF ScanRead

\* The scanner answers.
LEMMA ScanLookKeeps ==
  ASSUME Before, NEW r \in Runners, NEW a \in Assets, ScanLook(r, a)
  PROVE  After(a)
<1>1. On(r, a) /\ run[r].at = "look"
  BY AtIsOn DEF ScanLook, Before, TypeOK, Runs
<1>2. PICK to \in {"clean", "infected", "failed"} : GoesTo(r, to)
  BY DEF ScanLook
<1>3. alone[a] => Fact(to, run[r].for, run[r].entry, a)
  BY <1>1, <1>2, KnowsEntry DEF Knows, Fact, Removing
<1> QED
  BY <1>1, <1>2, <1>3, MoveOnly DEF ScanLook, Step

\* The row is read before its object is deleted.
LEMMA RemoveReadKeeps ==
  ASSUME Before, NEW r \in Runners, NEW a \in Assets, RemoveRead(r, a)
  PROVE  After(a)
<1>1. On(r, a) /\ run[r].at = "remove"
  BY AtIsOn DEF RemoveRead, Before, TypeOK, Runs
<1>2. CASE GoesTo(r, "schedule") /\ UNCHANGED queue
  <2>1. alone[a] => Fact("schedule", run[r].for, run[r].entry, a)
    BY <1>1, <1>2, KnowsEntry DEF Knows, Fact, Removing
  <2> QED
    BY <1>1, <1>2, <2>1, MoveOnly DEF RemoveRead, Step
<1>3. CASE Returns(r) \/ Throws(r)
  BY <1>1, <1>3, EndsAre, EndOnly DEF RemoveRead, Before, TypeOK
<1> QED
  BY <1>2, <1>3 DEF RemoveRead

\* A statement that finds no row writes none.
LEMMA RowIsGoneKeeps ==
  ASSUME Before, NEW r \in Runners, NEW a \in Assets, RowIsGone(r, a)
  PROVE  After(a)
<1>1. On(r, a)
  BY DEF RowIsGone, On
<1>2. CASE run[r].at = "verified" /\ GoesTo(r, "reject") /\ UNCHANGED queue
  <2>1. alone[a] => Fact("reject", run[r].for, run[r].entry, a)
    BY <1>1, <1>2, KnowsEntry DEF Knows, Fact, Removing
  <2> QED
    BY <1>1, <1>2, <2>1, MoveOnly DEF RowIsGone, Step
<1>3. CASE Throws(r)
  BY <1>1, <1>3, EndsAre, EndOnly DEF RowIsGone, Before, TypeOK
<1> QED
  BY <1>2, <1>3 DEF RowIsGone

\* What an entry in the queue was put there for is still so when it is taken.
LEMMA WorkerTakesKeeps ==
  ASSUME Before, NEW r \in Workers, NEW a \in Assets, NEW k \in Kinds, WorkerTakes(r, a, k)
  PROVE  After(a)
<1> DEFINE at == CASE k = "scan" -> "scan" [] k = "delete" -> "remove" [] OTHER -> "erase"
           for == IF k = "delete" THEN "asset" ELSE "object"
<1>1. Begins(r, a, at, for, k)
  BY DEF WorkerTakes
<1>2. /\ AssetInv(a)
      /\ queue[<<a, k>>] # "none"
  BY DEF WorkerTakes, Before, UploadInv
<1>3. alone[a] => Fact(at, for, k, a)
  BY <1>2 DEF AssetInv, Due, Fact, Finished, Removing, Kinds
<1>4. at \in Step \ {"idle"} /\ for \in Purposes
  BY DEF Step, Purposes
<1>5. status[a] # "NONE"
  BY <1>2, HasRow
<1>6. r \in Runners /\ k # "none"
  BY DEF Runners, Kinds
<1> HIDE DEF at, for
<1> QED
  BY <1>1, <1>2, <1>3, <1>4, <1>5, <1>6, BeginOnly DEF WorkerTakes

\* A round comes to an upload that expired.
LEMMA CleanExpiredKeeps ==
  ASSUME Before, NEW r \in Cleaners, NEW a \in Assets, CleanExpired(r, a)
  PROVE  After(a)
<1>1. Fact("schedule", "expiry", "none", a)
  BY DEF CleanExpired, Fact, Finished, Removing
<1> QED
  BY <1>1, BeginOnly DEF CleanExpired, Step, Purposes, Runners

\* A round comes to a deletion that is not through.
LEMMA CleanDeletionKeeps ==
  ASSUME Before, NEW r \in Cleaners, NEW a \in Assets, CleanDeletion(r, a)
  PROVE  After(a)
<1>1. Fact("remove", "asset", "none", a)
  BY DEF CleanDeletion, Fact, Finished, Removing, Doomed
<1> QED
  BY <1>1, BeginOnly DEF CleanDeletion, Step, Purposes, Runners

\* A round comes to an asset that was in quarantine for long.
LEMMA CleanQuarantineKeeps ==
  ASSUME Before, NEW r \in Cleaners, NEW a \in Assets, CleanQuarantine(r, a)
  PROVE  After(a)
<1>1. Fact("delete", "asset", "none", a)
  BY DEF Fact, Removing
<1> QED
  BY <1>1, BeginOnly DEF CleanQuarantine, Step, Purposes, Runners

\* A round comes to a deletion of an object.
LEMMA CleanErasureKeeps ==
  ASSUME Before, NEW r \in Cleaners, NEW a \in Assets, CleanErasure(r, a)
  PROVE  After(a)
<1>1. AssetInv(a) /\ erasure[a].status # "NONE"
  BY DEF CleanErasure, Erasable, Before, UploadInv
<1>2. alone[a] => Fact("erase", "object", "none", a)
  BY <1>1 DEF AssetInv, Due, Fact, Removing
<1> QED
  BY <1>1, <1>2, HasRow, BeginOnly DEF CleanErasure, Step, Purposes, Runners

\* A round comes to an object without a row.
LEMMA CleanOrphanKeeps ==
  ASSUME Before, NEW r \in Cleaners, NEW a \in Assets, CleanOrphan(r, a)
  PROVE  After(a)
<1>1. Fact("schedule", "object", "none", a)
  BY DEF CleanOrphan, Fact, Finished, Removing, Doomed
<1> QED
  BY <1>1, BeginOnly DEF CleanOrphan, Step, Purposes, Runners

\* A runner may die before any statement.
LEMMA DiesKeeps ==
  ASSUME Before, NEW r \in Runners, Dies(r)
  PROVE  \E a \in Assets : After(a)
<1>1. run[r].asset \in Assets /\ On(r, run[r].asset)
  BY DEF Dies, Before, TypeOK, Run, Idle, On
<1>2. faults' \in 0..MaxFaults
  BY Bounds DEF Dies, Before, TypeOK
<1> QED
  BY <1>1, <1>2, EndsAre, EndOnly DEF Dies

(***************************************************************************)
(* The steps of a runner that write a row.                                 *)
(***************************************************************************)
RowsTyped ==
  /\ status' \in [Assets -> Status]
  /\ expired' \in [Assets -> BOOLEAN]
  /\ scans' \in [Assets -> 0..ScanTries]
  /\ stored' \in [Assets -> BOOLEAN]
  /\ usage' \in [Assets -> {"none", "held", "released"}]
  /\ erasure' \in [Assets -> [status : ErasureStatus, tries : 0..EraseTries, key : BOOLEAN]]
  /\ queue' \in [Assets \X Kinds -> {"none", "waiting", "active"}]
  /\ faults' \in 0..MaxFaults

\* No row of another asset is written.
Apart(a) == \A b \in Assets : b # a =>
  /\ status'[b] = status[b] /\ expired'[b] = expired[b] /\ stored'[b] = stored[b]
  /\ usage'[b] = usage[b] /\ erasure'[b] = erasure[b]
  /\ \A k \in Kinds : queue'[<<b, k>>] = queue[<<b, k>>]

\* Such a step keeps the invariant if what it writes, and what the runner knows
\* next, does.
LEMMA Writes ==
  ASSUME Before, NEW r \in Runners, NEW a \in Assets, On(r, a),
         Runs(run'), Others(r), alone' = alone, RowsTyped, Apart(a),
         \/ run'[r] = Idle
         \/ run'[r] # Idle /\ run'[r].asset = a /\ (alone[a] => Knows(r, a)'),
         status'[a] # "NONE", Kept(a)', Due(a)', Released(a)', Final(a)
  PROVE  After(a)
<1>1. AssetInv(a)
  BY DEF Before, UploadInv
<1>2. Unborn(a)' /\ Sole(a)' /\ Informed(a)' /\ Stays(a)
  BY <1>1, RunnerStays
<1>3. TypeOK'
  BY DEF Before, TypeOK, RowsTyped, Runs
<1>4. \A b \in Assets : b # a => Same(b)
  BY DEF Apart, Same
<1> QED
  BY <1>2, <1>3, <1>4 DEF After, AssetInv

\* What is known of an asset whose only runner is r.
LEMMA Known ==
  ASSUME Before, NEW r \in Runners, NEW a \in Assets, On(r, a)
  PROVE  /\ status[a] # "NONE"
         /\ alone[a] => Knows(r, a)
         /\ Kept(a) /\ Due(a) /\ Released(a)
BY HasRow DEF Before, UploadInv, AssetInv, Informed

\* The content is stored.
LEMMA StorePutKeeps ==
  ASSUME Before, NEW r \in Runners, NEW a \in Assets, StorePut(r, a)
  PROVE  After(a)
<1>1. On(r, a)
  BY AtIsOn DEF StorePut, Before, TypeOK, Runs
<1>2. /\ Runs(run')
      /\ run'[r] # Idle /\ run'[r].asset = a
      /\ run'[r].at = "complete" /\ run'[r].for = run[r].for /\ run'[r].entry = run[r].entry
      /\ Others(r)
      /\ alone' = alone
  BY <1>1, MoveStep DEF StorePut, Before, TypeOK, Runs, Step
<1>3. RowsTyped /\ Apart(a) /\ stored'[a]
  BY DEF StorePut, RowsTyped, Apart, Before, TypeOK, asset
<1>4. alone[a] => Knows(r, a)'
  BY <1>1, <1>2, Known DEF Knows, Fact, Removing, StorePut, asset
<1>5. Kept(a)' /\ Due(a)' /\ Released(a)'
  BY <1>1, <1>2, <1>3, Known DEF Kept, Due, Released, Finished, StorePut, asset
<1> QED
  BY <1>1, <1>2, <1>3, <1>4, <1>5, Known, Writes DEF Final, StorePut, asset

\* A verified upload is recorded: the object that was verified is there.
LEMMA UploadedKeeps ==
  ASSUME Before, NEW r \in Runners, NEW a \in Assets, Uploaded(r, a), status[a] \notin Rowless
  PROVE  After(a)
<1>1. On(r, a) /\ run[r].at = "verified"
  BY AtIsOn DEF Uploaded, Before, TypeOK, Runs
<1>2. /\ Runs(run')
      /\ run'[r] # Idle /\ run'[r].asset = a
      /\ run'[r].at = "queue" /\ run'[r].for = run[r].for /\ run'[r].entry = run[r].entry
      /\ Others(r)
      /\ alone' = alone
  BY <1>1, MoveStep DEF Uploaded, Before, TypeOK, Runs, Step
<1>3. RowsTyped /\ Apart(a) /\ status'[a] = "UPLOADED"
  BY DEF Uploaded, Becomes, RowsTyped, Apart, Before, TypeOK, Status
<1>4. alone[a] => status[a] = "PENDING_UPLOAD" /\ erasure[a].status = "NONE" /\ stored[a]
  BY <1>1, Known DEF Knows, Fact, Rowless
<1>5. alone[a] => Knows(r, a)'
  BY <1>1, <1>2, <1>3, <1>4, Known DEF Knows, Fact, Removing, Doomed, Uploaded
<1>6. Kept(a)' /\ Due(a)' /\ Released(a)'
  BY <1>1, <1>2, <1>3, <1>4, Known DEF Kept, Due, Released, Doomed, Uploaded
<1> QED
  BY <1>1, <1>2, <1>3, <1>4, <1>5, <1>6, Writes DEF Final, Doomed

\* The object of a rejected upload is deleted or not.
LEMMA RejectDeleteKeeps ==
  ASSUME Before, NEW r \in Runners, NEW a \in Assets, RejectDelete(r, a)
  PROVE  After(a)
<1>1. On(r, a) /\ run[r].at = "reject"
  BY AtIsOn DEF RejectDelete, Before, TypeOK, Runs
<1>2. /\ Runs(run')
      /\ run'[r] # Idle /\ run'[r].asset = a
      /\ run'[r].at = "rejected" /\ run'[r].for = run[r].for /\ run'[r].entry = run[r].entry
      /\ Others(r)
      /\ alone' = alone
  BY <1>1, MoveStep DEF RejectDelete, Before, TypeOK, Runs, Step
<1>3. stored' \in [Assets -> BOOLEAN] /\ \A b \in Assets : b # a => stored'[b] = stored[b]
  BY DEF RejectDelete, Before, TypeOK
<1>4. RowsTyped /\ Apart(a)
  BY <1>3 DEF RejectDelete, RowsTyped, Apart, Before, TypeOK, asset
<1>5. alone[a] => status[a] \in {"PENDING_UPLOAD", "CASCADED"}
  BY <1>1, Known DEF Knows, Fact
<1>6. alone[a] => Knows(r, a)'
  BY <1>1, <1>2, Known DEF Knows, Fact, Removing, RejectDelete, asset
<1>7. Kept(a)' /\ Due(a)' /\ Released(a)'
  BY <1>1, <1>2, <1>5, Known DEF Kept, Due, Released, Finished, Arrived, RejectDelete, asset
<1> QED
  BY <1>1, <1>2, <1>4, <1>6, <1>7, Known, Writes DEF Final, RejectDelete, asset

\* The end of a method, as far as Writes asks for it.
LEMMA EndsWell ==
  ASSUME Before, NEW r \in Runners, NEW a \in Assets, On(r, a), Returns(r) \/ Throws(r)
  PROVE  /\ Runs(run') /\ run'[r] = Idle /\ Others(r) /\ alone' = alone
         /\ queue' \in [Assets \X Kinds -> {"none", "waiting", "active"}]
         /\ \A b \in Assets, k \in Kinds : b # a => queue'[<<b, k>>] = queue[<<b, k>>]
         /\ Due(a) => (alone[a] => \A k \in Kinds :
              /\ k = "erase" /\ queue'[<<a, k>>] # "none" => erasure[a].status # "NONE"
              /\ k = "delete" /\ queue'[<<a, k>>] # "none" => status[a] \in Doomed)
<1>1. PICK S \in SUBSET {"none", "waiting"} : Ends(r, S)
  BY EndsAre
<1>2. /\ Runs(run') /\ run'[r] = Idle /\ Others(r) /\ alone' = alone
      /\ queue' \in [Assets \X Kinds -> {"none", "waiting", "active"}]
      /\ \A b \in Assets, k \in Kinds :
           b # a \/ k # run[r].entry => queue'[<<b, k>>] = queue[<<b, k>>]
  BY <1>1, EndStep DEF Before, TypeOK, Runs
<1>3. alone[a] => /\ run[r].entry = "delete" => status[a] \in Doomed
                  /\ run[r].entry = "erase" => erasure[a].status # "NONE"
  BY KnowsEntry
<1> QED
  BY <1>2, <1>3 DEF Due, Kinds

\* The row is rejected and the charge released in one transaction.
LEMMA RejectKeeps ==
  ASSUME Before, NEW r \in Runners, NEW a \in Assets, Reject(r, a), status[a] \notin Rowless
  PROVE  After(a)
<1>1. On(r, a) /\ run[r].at = "rejected"
  BY AtIsOn DEF Reject, Before, TypeOK, Runs
<1>2. Returns(r)
  BY DEF Reject
<1>3. /\ status' \in [Assets -> Status] /\ status'[a] = "REJECTED"
      /\ usage' \in [Assets -> {"none", "held", "released"}] /\ usage'[a] = "released"
      /\ \A b \in Assets : b # a => status'[b] = status[b] /\ usage'[b] = usage[b]
  BY DEF Reject, Becomes, Before, TypeOK, Status
<1>4. RowsTyped /\ Apart(a)
  BY <1>1, <1>2, <1>3, EndsWell DEF Reject, RowsTyped, Apart, Before, TypeOK
<1>5. alone[a] => status[a] = "PENDING_UPLOAD" /\ erasure[a].status = "NONE"
  BY <1>1, Known DEF Knows, Fact, Rowless
<1>6. alone' = alone /\ (alone[a] => queue'[<<a, "erase">>] = "none" /\ queue'[<<a, "delete">>] = "none")
  BY <1>1, <1>2, <1>5, EndsWell, Known DEF Kinds, Doomed
<1>7. Kept(a)' /\ Due(a)' /\ Released(a)'
  BY <1>3, <1>5, <1>6 DEF Kept, Due, Released, Arrived, Reject
<1> QED
  BY <1>1, <1>2, <1>3, <1>4, <1>5, <1>7, EndsWell, Writes DEF Final, Doomed

\* The scan is queued, refused or made at once.
LEMMA QueueScanKeeps ==
  ASSUME Before, NEW r \in Runners, NEW a \in Assets, QueueScan(r, a)
  PROVE  After(a)
<1>1. On(r, a) /\ run[r].at = "queue"
  BY AtIsOn DEF QueueScan, Before, TypeOK, Runs
<1>2. CASE queue' = Enqueued(a, "scan") /\ run' = [run EXCEPT ![r] = Idle] /\ UNCHANGED <<status, alone>>
  <2>1. Runs(run') /\ run'[r] = Idle /\ Others(r)
    BY <1>2 DEF Before, TypeOK, Runs, Others, Run, Idle
  <2>2. /\ queue' \in [Assets \X Kinds -> {"none", "waiting", "active"}]
        /\ \A b \in Assets, k \in Kinds : b # a \/ k # "scan" => queue'[<<b, k>>] = queue[<<b, k>>]
    BY <1>2 DEF Enqueued, Before, TypeOK, Kinds
  <2>3. RowsTyped /\ Apart(a)
    BY <1>2, <2>2 DEF QueueScan, RowsTyped, Apart, Before, TypeOK
  <2>4. Kept(a)' /\ Due(a)' /\ Released(a)'
    BY <1>1, <1>2, <2>2, Known DEF Kept, Due, Released, Finished, Kinds, QueueScan
  <2> QED
    BY <1>1, <1>2, <2>1, <2>3, <2>4, Known, Writes DEF Final
<1>3. CASE status[a] \notin Rowless /\ Becomes(a, "SCAN_FAILED") /\ Returns(r)
  <2>1. /\ status' \in [Assets -> Status] /\ status'[a] = "SCAN_FAILED"
        /\ \A b \in Assets : b # a => status'[b] = status[b]
    BY <1>3 DEF Becomes, Before, TypeOK, Status
  <2>2. RowsTyped /\ Apart(a)
    BY <1>1, <1>3, <2>1, EndsWell DEF QueueScan, RowsTyped, Apart, Before, TypeOK
  <2>3. alone[a] => status[a] \in {"UPLOADED", "SCAN_FAILED"}
    BY <1>1, <1>3, Known DEF Knows, Fact, Rowless
  <2>4. /\ alone' = alone
        /\ alone[a] => /\ erasure[a].status = "NONE"
                       /\ queue'[<<a, "erase">>] = "none" /\ queue'[<<a, "delete">>] = "none"
    BY <1>1, <1>3, <2>3, EndsWell, Known DEF Due, Finished, Kinds, Doomed
  <2>5. Kept(a)' /\ Due(a)' /\ Released(a)'
    BY <1>1, <2>1, <2>3, <2>4, Known DEF Kept, Due, Released, Arrived, QueueScan
  <2> QED
    BY <1>1, <1>3, <2>1, <2>2, <2>3, <2>5, EndsWell, Writes DEF Final, Doomed
<1>4. CASE GoesTo(r, "scan") /\ UNCHANGED <<status, queue>>
  <2>1. alone[a] => Fact("scan", run[r].for, run[r].entry, a)
    BY <1>1, KnowsEntry DEF Fact, Removing
  <2> QED
    BY <1>1, <1>4, <2>1, MoveOnly DEF QueueScan, Step, asset
<1> QED
  BY <1>2, <1>3, <1>4 DEF QueueScan

\* A scan begins: the object is still there.
LEMMA ScanMarkKeeps ==
  ASSUME Before, NEW r \in Runners, NEW a \in Assets, ScanMark(r, a), status[a] \notin Rowless
  PROVE  After(a)
<1>1. On(r, a) /\ run[r].at = "mark"
  BY AtIsOn DEF ScanMark, Before, TypeOK, Runs
<1>2. /\ Runs(run')
      /\ run'[r] # Idle /\ run'[r].asset = a
      /\ run'[r].at = "look" /\ run'[r].for = run[r].for /\ run'[r].entry = run[r].entry
      /\ Others(r)
      /\ alone' = alone
  BY <1>1, MoveStep DEF ScanMark, Before, TypeOK, Runs, Step
<1>3. /\ status' \in [Assets -> Status] /\ status'[a] = "SCANNING"
      /\ scans' \in [Assets -> 0..ScanTries]
      /\ \A b \in Assets : b # a => status'[b] = status[b]
  BY Bounds DEF ScanMark, Becomes, Before, TypeOK, Status
<1>4. RowsTyped /\ Apart(a)
  BY <1>3 DEF ScanMark, RowsTyped, Apart, Before, TypeOK
<1>5. alone[a] => status[a] \in {"UPLOADED", "SCAN_FAILED"}
  BY <1>1, Known DEF Knows, Fact, Rowless
<1>6. alone[a] => Knows(r, a)'
  BY <1>1, <1>2, <1>3, <1>5, Known DEF Knows, Fact, Removing, Doomed, ScanMark
<1>7. Kept(a)' /\ Due(a)' /\ Released(a)'
  BY <1>1, <1>2, <1>3, <1>5, Known DEF Kept, Due, Released, Finished, Arrived, Doomed, ScanMark
<1> QED
  BY <1>1, <1>2, <1>3, <1>4, <1>5, <1>6, <1>7, Writes DEF Final, Doomed

\* A scan ends: the object is still there.
LEMMA ScanWriteKeeps ==
  ASSUME Before, NEW r \in Runners, NEW a \in Assets, ScanWrite(r, a), status[a] \notin Rowless
  PROVE  After(a)
<1>1. On(r, a) /\ run[r].at \in {"clean", "infected", "failed"}
  BY AtIsOn DEF ScanWrite, Before, TypeOK, Runs
<1>2. Returns(r) \/ Throws(r)
  BY DEF ScanWrite
<1>3. PICK s \in {"READY", "QUARANTINED", "SCAN_FAILED"} : Becomes(a, s)
  BY DEF ScanWrite
<1>4. /\ status' \in [Assets -> Status] /\ status'[a] = s
      /\ \A b \in Assets : b # a => status'[b] = status[b]
  BY <1>3 DEF Becomes, Before, TypeOK, Status
<1>5. RowsTyped /\ Apart(a)
  BY <1>1, <1>2, <1>4, EndsWell DEF ScanWrite, RowsTyped, Apart, Before, TypeOK
<1>6. alone[a] => status[a] = "SCANNING"
  BY <1>1, Known DEF Knows, Fact, Rowless
<1>7. /\ alone' = alone
      /\ alone[a] => /\ erasure[a].status = "NONE"
                     /\ queue'[<<a, "erase">>] = "none" /\ queue'[<<a, "delete">>] = "none"
  BY <1>1, <1>2, <1>6, EndsWell, Known DEF Due, Finished, Kinds, Doomed
<1>8. Kept(a)' /\ Due(a)' /\ Released(a)'
  BY <1>1, <1>4, <1>6, <1>7, Known DEF Kept, Due, Released, Arrived, ScanWrite
<1> QED
  BY <1>1, <1>2, <1>4, <1>5, <1>6, <1>8, EndsWell, Writes DEF Final, Doomed

\* A deletion is asked for.
LEMMA DeleteKeeps ==
  ASSUME Before, NEW r \in Runners, NEW a \in Assets, Delete(r, a), status[a] \notin Rowless
  PROVE  After(a)
<1>1. On(r, a) /\ run[r].at = "delete"
  BY AtIsOn DEF Delete, Before, TypeOK, Runs
<1>2. /\ status' \in [Assets -> Status] /\ status'[a] = "DELETION_PENDING"
      /\ \A b \in Assets : b # a => status'[b] = status[b]
  BY DEF Delete, Becomes, Before, TypeOK, Status
<1>3. /\ queue' \in [Assets \X Kinds -> {"none", "waiting", "active"}]
      /\ \A b \in Assets, k \in Kinds : b # a \/ k # "delete" => queue'[<<b, k>>] = queue[<<b, k>>]
  BY ZenonT(40) DEF Delete, Enqueued, Before, TypeOK, Kinds
<1>4. RowsTyped /\ Apart(a)
  BY <1>2, <1>3 DEF Delete, RowsTyped, Apart, Before, TypeOK
<1>5. Finished(a)' /\ status'[a] \in Doomed
  BY <1>2 DEF Finished, Doomed
<1>6. alone' = alone
  BY DEF Delete, GoesTo
<1>7. Kept(a)' /\ Due(a)' /\ Released(a)'
  BY <1>1, <1>2, <1>3, <1>5, <1>6, Known DEF Kept, Due, Released, Arrived, Kinds, Delete
<1>8. CASE run' = [run EXCEPT ![r] = Idle]
  <2>1. Runs(run') /\ run'[r] = Idle /\ Others(r)
    BY <1>8 DEF Before, TypeOK, Runs, Others, Run, Idle
  <2> QED
    BY <1>1, <1>2, <1>4, <1>5, <1>6, <1>7, <2>1, Writes DEF Final
<1>9. CASE GoesTo(r, "remove")
  <2>1. /\ Runs(run')
        /\ run'[r] # Idle /\ run'[r].asset = a
        /\ run'[r].at = "remove" /\ run'[r].for = run[r].for /\ run'[r].entry = run[r].entry
        /\ Others(r)
    BY <1>1, <1>9, MoveStep DEF Before, TypeOK, Runs, Step
  <2>2. alone[a] => Knows(r, a)'
    BY <1>1, <1>5, <2>1, Known DEF Knows, Fact, Delete
  <2> QED
    BY <1>1, <1>2, <1>4, <1>5, <1>6, <1>7, <2>1, <2>2, Writes DEF Final
<1> QED
  BY <1>8, <1>9 DEF Delete

\* A deletion that is scheduled is one from then on, and an old one is kept.
LEMMA ScheduledIs ==
  ASSUME TypeOK, NEW a \in Assets, erasure' = Scheduled(a)
  PROVE  /\ erasure' \in [Assets -> [status : ErasureStatus, tries : 0..EraseTries, key : BOOLEAN]]
         /\ erasure'[a].status # "NONE"
         /\ \A b \in Assets : b # a => erasure'[b] = erasure[b]
BY DEF Scheduled, TypeOK, ErasureStatus

\* The deletion of an object is scheduled, of a finished asset only.
LEMMA ScheduleKeeps ==
  ASSUME Before, NEW r \in Runners, NEW a \in Assets, Schedule(r, a)
  PROVE  After(a)
<1>1. On(r, a) /\ run[r].at = "schedule"
  BY AtIsOn DEF Schedule, Before, TypeOK, Runs
<1>2. /\ Runs(run')
      /\ run'[r] # Idle /\ run'[r].asset = a
      /\ run'[r].at = "erase" /\ run'[r].for = run[r].for /\ run'[r].entry = run[r].entry
      /\ Others(r)
      /\ alone' = alone
  BY <1>1, MoveStep DEF Schedule, Before, TypeOK, Runs, Step
<1>3. /\ erasure' \in [Assets -> [status : ErasureStatus, tries : 0..EraseTries, key : BOOLEAN]]
      /\ erasure'[a].status # "NONE"
      /\ \A b \in Assets : b # a => erasure'[b] = erasure[b]
  BY ScheduledIs DEF Schedule, Before
<1>4. RowsTyped /\ Apart(a)
  BY <1>3 DEF Schedule, RowsTyped, Apart, Before, TypeOK, asset
<1>5. alone[a] => Knows(r, a)'
  BY <1>1, <1>2, <1>3, Known DEF Knows, Fact, Finished, Removing, Schedule, asset
<1>6. alone[a] => Finished(a)
  BY <1>1, Known DEF Knows, Fact, Removing
<1>7. Kept(a)' /\ Due(a)' /\ Released(a)'
  BY <1>1, <1>2, <1>3, <1>6, Known DEF Kept, Due, Released, Finished, Schedule, asset
<1> QED
  BY <1>1, <1>2, <1>4, <1>5, <1>7, Known, Writes DEF Final, Schedule, asset

\* A job of an object's deletion is written.
LEMMA JobWritten ==
  ASSUME TypeOK, NEW a \in Assets, NEW e, e \in [status : ErasureStatus, tries : 0..EraseTries, key : BOOLEAN],
         erasure' = [erasure EXCEPT ![a] = e]
  PROVE  /\ erasure' \in [Assets -> [status : ErasureStatus, tries : 0..EraseTries, key : BOOLEAN]]
         /\ erasure'[a] = e
         /\ \A b \in Assets : b # a => erasure'[b] = erasure[b]
BY DEF TypeOK

\* What a runner that deletes the object of an asset knows.
LEMMA RemovingKnows ==
  ASSUME Before, NEW r \in Runners, NEW a \in Assets, On(r, a), run[r].at \in Removing, alone[a]
  PROVE  /\ Finished(a)
         /\ run[r].for = "asset" => status[a] \in Doomed
         /\ run[r].for = "expiry" => status[a] \in {"PENDING_UPLOAD", "CASCADED"}
BY Known DEF Knows, Fact

\* The rows of the jobs.
Jobs == [status : ErasureStatus, tries : 0..EraseTries, key : BOOLEAN]

\* The end of an object's deletion, whichever statement it comes from.
LEMMA AfterErasureKeeps ==
  ASSUME Before, NEW r \in Runners, NEW a \in Assets, On(r, a), run[r].at \in Removing,
         NEW done \in BOOLEAN, AfterErasure(r, a, done),
         UNCHANGED <<expired, scans, usage, stored>>, faults' \in 0..MaxFaults,
         erasure' \in [Assets -> Jobs],
         \A b \in Assets : b # a => erasure'[b] = erasure[b],
         erasure[a].status # "NONE" => erasure'[a].status # "NONE"
  PROVE  After(a)
<1>1. alone[a] => /\ Finished(a)
                  /\ run[r].for = "asset" => status[a] \in Doomed
                  /\ run[r].for = "expiry" => status[a] \in {"PENDING_UPLOAD", "CASCADED"}
  BY RemovingKnows
<1>2. CASE (Returns(r) \/ Throws(r)) /\ UNCHANGED status
  <2>1. RowsTyped /\ Apart(a)
    BY <1>2, EndsWell DEF RowsTyped, Jobs, Apart, Before, TypeOK
  <2>2. Kept(a)' /\ Due(a)' /\ Released(a)'
    <3>1. alone' = alone
      BY <1>2, EndsWell
    <3>2. Kept(a)' /\ Released(a)'
      BY <1>2, <3>1, Known DEF Kept, Released
    <3>3. alone[a] => /\ queue'[<<a, "erase">>] # "none" => erasure[a].status # "NONE"
                      /\ queue'[<<a, "delete">>] # "none" => status[a] \in Doomed
      BY <1>2, EndsWell, Known DEF Kinds
    <3>4. Due(a)'
      BY <1>1, <1>2, <3>1, <3>3 DEF Due, Finished
    <3> QED
      BY <3>2, <3>4
  <2> QED
    BY <1>2, <2>1, <2>2, EndsWell, Known, Writes DEF Final
<1>3. CASE run[r].for = "asset" /\ Throws(r) /\ Becomes(a, "DELETE_FAILED")
  <2>1. /\ status' \in [Assets -> Status] /\ status'[a] = "DELETE_FAILED"
        /\ \A b \in Assets : b # a => status'[b] = status[b]
    BY <1>3 DEF Becomes, Before, TypeOK, Status
  <2>2. RowsTyped /\ Apart(a)
    BY <1>3, <2>1, EndsWell DEF RowsTyped, Jobs, Apart, Before, TypeOK
  <2>3. Finished(a)' /\ status'[a] \in Doomed
    BY <2>1 DEF Finished, Doomed
  <2>4. Kept(a)' /\ Due(a)' /\ Released(a)'
    BY <1>3, <2>1, <2>3, EndsWell, Known DEF Kept, Due, Released, Arrived, Kinds
  <2> QED
    BY <1>3, <2>1, <2>2, <2>3, <2>4, EndsWell, Writes DEF Final
<1>4. CASE run[r].for # "object" /\ GoesTo(r, "erased") /\ UNCHANGED <<status, queue>>
  <2>1. /\ Runs(run')
        /\ run'[r] # Idle /\ run'[r].asset = a
        /\ run'[r].at = "erased" /\ run'[r].for = run[r].for /\ run'[r].entry = run[r].entry
        /\ Others(r)
        /\ alone' = alone
    BY <1>4, MoveStep DEF Before, TypeOK, Runs, Step
  <2>2. RowsTyped /\ Apart(a)
    BY <1>4 DEF RowsTyped, Jobs, Apart, Before, TypeOK
  <2>3. alone[a] => Knows(r, a)'
    BY <1>1, <1>4, <2>1, Known DEF Knows, Fact, Finished, Removing
  <2>4. Kept(a)' /\ Due(a)' /\ Released(a)'
    BY <1>1, <1>4, <2>1, Known DEF Kept, Due, Released, Finished
  <2> QED
    BY <1>4, <2>1, <2>2, <2>3, <2>4, Known, Writes DEF Final
<1> QED
  BY <1>2, <1>3, <1>4 DEF AfterErasure

\* The job of the deletion is read.
LEMMA EraseReadKeeps ==
  ASSUME Before, NEW r \in Runners, NEW a \in Assets, EraseRead(r, a)
  PROVE  After(a)
<1>1. On(r, a) /\ run[r].at = "erase"
  BY AtIsOn DEF EraseRead, Before, TypeOK, Runs
<1>2. CASE \E done \in BOOLEAN : AfterErasure(r, a, done)
  BY <1>1, <1>2, AfterErasureKeeps DEF EraseRead, Removing, Jobs, Before, TypeOK
<1>3. CASE GoesTo(r, "start") /\ UNCHANGED <<status, queue>>
  <2>1. alone[a] => Fact("start", run[r].for, run[r].entry, a)
    BY <1>1, RemovingKnows, KnowsEntry DEF Fact, Removing
  <2> QED
    BY <1>1, <1>3, <2>1, MoveOnly DEF EraseRead, Step, asset
<1> QED
  BY <1>2, <1>3 DEF EraseRead

\* The job of the deletion is marked as running.
LEMMA EraseStartKeeps ==
  ASSUME Before, NEW r \in Runners, NEW a \in Assets, EraseStart(r, a)
  PROVE  After(a)
<1>1. On(r, a) /\ run[r].at = "start"
  BY AtIsOn DEF EraseStart, Before, TypeOK, Runs
<1>2. PICK to \in {"erasing", "keyless"} : GoesTo(r, to)
  BY DEF EraseStart
<1>3. /\ Runs(run')
      /\ run'[r] # Idle /\ run'[r].asset = a
      /\ run'[r].at = to /\ run'[r].for = run[r].for /\ run'[r].entry = run[r].entry
      /\ Others(r)
      /\ alone' = alone
  BY <1>1, <1>2, MoveStep DEF Before, TypeOK, Runs, Step
<1> DEFINE e == [status |-> "RUNNING", key |-> erasure[a].key,
                 tries |-> IF erasure[a].tries < EraseTries THEN erasure[a].tries + 1
                           ELSE erasure[a].tries]
<1>4. e \in [status : ErasureStatus, tries : 0..EraseTries, key : BOOLEAN] /\ e.status # "NONE"
  BY Bounds DEF Before, TypeOK, ErasureStatus
<1>5. erasure' = [erasure EXCEPT ![a] = e]
  BY DEF EraseStart, Before, TypeOK
<1> HIDE DEF e
<1>6. /\ erasure' \in [Assets -> [status : ErasureStatus, tries : 0..EraseTries, key : BOOLEAN]]
      /\ erasure'[a].status # "NONE"
      /\ \A b \in Assets : b # a => erasure'[b] = erasure[b]
  BY <1>4, <1>5, JobWritten DEF Before
<1>7. RowsTyped /\ Apart(a)
  BY <1>6 DEF EraseStart, RowsTyped, Apart, Before, TypeOK, asset
<1>8. alone[a] => Knows(r, a)'
  BY <1>1, <1>3, <1>6, RemovingKnows, KnowsEntry DEF Knows, Fact, Finished, Removing, EraseStart, asset
<1>9. Kept(a)' /\ Due(a)' /\ Released(a)'
  BY <1>1, <1>3, <1>6, RemovingKnows, Known DEF Kept, Due, Released, Finished, Removing, EraseStart, asset
<1> QED
  BY <1>1, <1>3, <1>7, <1>8, <1>9, Known, Writes DEF Final, EraseStart, asset

\* The object is deleted: no asset that is to be kept loses it.
LEMMA EraseKeeps ==
  ASSUME Before, NEW r \in Runners, NEW a \in Assets, Erase(r, a)
  PROVE  After(a)
<1>1. On(r, a) /\ run[r].at = "erasing"
  BY AtIsOn DEF Erase, Before, TypeOK, Runs
<1>2. /\ Runs(run')
      /\ run'[r] # Idle /\ run'[r].asset = a
      /\ run'[r].at = "record" /\ run'[r].for = run[r].for /\ run'[r].entry = run[r].entry
      /\ Others(r)
      /\ alone' = alone
  BY <1>1, MoveStep DEF Erase, Before, TypeOK, Runs, Step
<1>3. RowsTyped /\ Apart(a)
  BY DEF Erase, RowsTyped, Apart, Before, TypeOK, asset
<1>4. alone[a] => Finished(a)
  BY <1>1, RemovingKnows DEF Removing
<1>5. alone[a] => Knows(r, a)'
  BY <1>1, <1>2, RemovingKnows, KnowsEntry DEF Knows, Fact, Finished, Removing, Erase, asset
<1>6. Kept(a)' /\ Due(a)' /\ Released(a)'
  BY <1>1, <1>2, <1>4, Known DEF Kept, Due, Released, Finished, Arrived, Doomed, Erase, asset
<1> QED
  BY <1>1, <1>2, <1>3, <1>5, <1>6, Known, Writes DEF Final, Erase, asset

\* The deletion is recorded.
LEMMA EraseRecordKeeps ==
  ASSUME Before, NEW r \in Runners, NEW a \in Assets, EraseRecord(r, a)
  PROVE  After(a)
<1>1. On(r, a) /\ run[r].at = "record"
  BY AtIsOn DEF EraseRecord, Before, TypeOK, Runs
<1> DEFINE e == [status |-> "SUCCEEDED", tries |-> erasure[a].tries, key |-> FALSE]
<1>2. e \in [status : ErasureStatus, tries : 0..EraseTries, key : BOOLEAN] /\ e.status # "NONE"
  BY DEF Before, TypeOK, ErasureStatus
<1>3. erasure' = [erasure EXCEPT ![a] = e]
  BY DEF EraseRecord, Before, TypeOK
<1> HIDE DEF e
<1>4. /\ erasure' \in [Assets -> [status : ErasureStatus, tries : 0..EraseTries, key : BOOLEAN]]
      /\ erasure'[a].status # "NONE"
      /\ \A b \in Assets : b # a => erasure'[b] = erasure[b]
  BY <1>2, <1>3, JobWritten DEF Before
<1> QED
  BY <1>1, <1>4, AfterErasureKeeps DEF EraseRecord, Removing, Jobs, Before, TypeOK

\* The deletion fails.
LEMMA EraseFailsKeeps ==
  ASSUME Before, NEW r \in Runners, NEW a \in Assets, EraseFails(r, a)
  PROVE  After(a)
<1>1. On(r, a) /\ run[r].at \in Removing
  BY AtIsOn DEF EraseFails, Removing, Before, TypeOK, Runs
<1> DEFINE e == [status |-> "FAILED", tries |-> erasure[a].tries, key |-> erasure[a].key]
<1>2. e \in [status : ErasureStatus, tries : 0..EraseTries, key : BOOLEAN] /\ e.status # "NONE"
  BY DEF Before, TypeOK, ErasureStatus
<1>3. erasure' = [erasure EXCEPT ![a] = e]
  BY DEF EraseFails, Before, TypeOK
<1> HIDE DEF e
<1>4. /\ erasure' \in [Assets -> [status : ErasureStatus, tries : 0..EraseTries, key : BOOLEAN]]
      /\ erasure'[a].status # "NONE"
      /\ \A b \in Assets : b # a => erasure'[b] = erasure[b]
  BY <1>2, <1>3, JobWritten DEF Before
<1>5. faults' \in 0..MaxFaults
  BY Bounds DEF EraseFails, Before, TypeOK
<1> QED
  BY <1>1, <1>4, <1>5, AfterErasureKeeps DEF EraseFails, Jobs

\* The row is closed and the charge released in one transaction.
LEMMA RemoveKeeps ==
  ASSUME Before, NEW r \in Runners, NEW a \in Assets, Remove(r, a), status[a] \notin Rowless
  PROVE  After(a)
<1>1. On(r, a) /\ run[r].at = "erased"
  BY AtIsOn DEF Remove, Before, TypeOK, Runs
<1>2. Returns(r)
  BY DEF Remove
<1> DEFINE s == IF run[r].for = "expiry" THEN "EXPIRED" ELSE "DELETED"
<1>3. /\ status' \in [Assets -> Status] /\ status'[a] = s
      /\ usage' \in [Assets -> {"none", "held", "released"}] /\ usage'[a] = "released"
      /\ \A b \in Assets : b # a => status'[b] = status[b] /\ usage'[b] = usage[b]
  BY DEF Remove, Becomes, Before, TypeOK, Status
<1>4. RowsTyped /\ Apart(a)
  BY <1>1, <1>2, <1>3, EndsWell DEF Remove, RowsTyped, Apart, Before, TypeOK
<1>5. alone[a] /\ status[a] \in Doomed => status'[a] = "DELETED"
  BY <1>1, <1>3, Known DEF Knows, Fact, Removing, Doomed, Rowless
<1>6. Finished(a)'
  BY <1>3 DEF Finished, Doomed
<1>7. Kept(a)' /\ Due(a)' /\ Released(a)'
  BY <1>1, <1>2, <1>3, <1>5, <1>6, EndsWell, Known DEF Kept, Due, Released, Arrived, Doomed, Kinds, Remove
<1> QED
  BY <1>1, <1>2, <1>3, <1>4, <1>5, <1>7, EndsWell, Writes DEF Final, Doomed

(***************************************************************************)
(* The steps of clients, the clock, the goal's deletion and the rounds in  *)
(* which no runner moves.                                                  *)
(***************************************************************************)
LEMMA NobodyMoves ==
  ASSUME Before, NEW a \in Assets, run' = run,
         alone' \in [Assets -> BOOLEAN], \A b \in Assets : b # a => alone'[b] = alone[b],
         alone'[a] => alone[a],
         RowsTyped, Apart(a), status'[a] # "NONE",
         \A r \in Runners : alone'[a] /\ On(r, a) => Knows(r, a)',
         Kept(a)', Due(a)', Released(a)', Final(a)
  PROVE  After(a)
<1>1. AssetInv(a)
  BY DEF Before, UploadInv
<1>2. \A r \in Runners : On(r, a)' <=> On(r, a)
  BY DEF On
<1>3. Unborn(a)' /\ Sole(a)' /\ Informed(a)' /\ Stays(a)
  BY <1>1, <1>2 DEF Unborn, Sole, Informed, Stays, AssetInv
<1>4. TypeOK'
  BY DEF Before, TypeOK, RowsTyped
<1>5. \A b \in Assets : b # a => Same(b)
  BY DEF Apart, Same
<1> QED
  BY <1>3, <1>4, <1>5 DEF After, AssetInv

\* An asset is created with its charge, and nothing knows of it before.
LEMMA CreateKeeps ==
  ASSUME Before, NEW a \in Assets, Create(a)
  PROVE  After(a)
<1>1. /\ status' \in [Assets -> Status] /\ status'[a] = "PENDING_UPLOAD"
      /\ usage' \in [Assets -> {"none", "held", "released"}] /\ usage'[a] = "held"
      /\ \A b \in Assets : b # a => status'[b] = status[b] /\ usage'[b] = usage[b]
  BY DEF Create, Becomes, Before, TypeOK, Status
<1>2. RowsTyped /\ Apart(a)
  BY <1>1 DEF Create, RowsTyped, Apart, Before, TypeOK
<1>3. /\ \A r \in Runners : ~On(r, a)
      /\ \A k \in Kinds : queue[<<a, k>>] = "none"
      /\ erasure[a].status = "NONE"
  BY DEF Create, Before, UploadInv, AssetInv, Unborn
<1>4. Kept(a)' /\ Due(a)' /\ Released(a)'
  BY <1>1, <1>3 DEF Kept, Due, Released, Arrived, Kinds, Create
<1> QED
  BY <1>1, <1>2, <1>3, <1>4, NobodyMoves DEF Create, Final, Doomed, Before, TypeOK

\* The time of an upload runs out.
LEMMA ExpireKeeps ==
  ASSUME Before, NEW a \in Assets, Expire(a)
  PROVE  After(a)
<1>1. AssetInv(a)
  BY DEF Before, UploadInv
<1>2. RowsTyped /\ Apart(a) /\ expired'[a]
  BY DEF Expire, RowsTyped, Apart, Before, TypeOK
<1>3. Finished(a) => Finished(a)'
  BY <1>2 DEF Finished, Expire
<1>4. ASSUME NEW r \in Runners, alone[a], On(r, a) PROVE Knows(r, a)'
  BY <1>1, <1>3, <1>4 DEF AssetInv, Informed, Knows, Fact, Expire
<1>5. Kept(a)' /\ Due(a)' /\ Released(a)'
  BY <1>1, <1>3 DEF AssetInv, Kept, Due, Released, Expire
<1> QED
  BY <1>2, <1>4, <1>5, NobodyMoves DEF Expire, Final, Before, TypeOK

\* A client puts the object by the presigned address.
LEMMA ClientPutsKeeps ==
  ASSUME Before, NEW a \in Assets, ClientPuts(a)
  PROVE  After(a)
<1>1. AssetInv(a)
  BY DEF Before, UploadInv
<1>2. RowsTyped /\ Apart(a) /\ stored'[a]
  BY DEF ClientPuts, RowsTyped, Apart, Before, TypeOK, asset
<1>3. ASSUME NEW r \in Runners, alone[a], On(r, a) PROVE Knows(r, a)'
  BY <1>1, <1>2, <1>3 DEF AssetInv, Informed, Knows, Fact, Finished, ClientPuts, asset
<1>4. Kept(a)' /\ Due(a)' /\ Released(a)'
  BY <1>1, <1>2 DEF AssetInv, Kept, Due, Released, Finished, ClientPuts, asset
<1> QED
  BY <1>2, <1>3, <1>4, NobodyMoves DEF ClientPuts, Final, Before, TypeOK, asset

\* The row goes with its goal, and every runner may still be at work on it.
LEMMA DeleteGoalKeeps ==
  ASSUME Before, NEW a \in Assets, DeleteGoal(a)
  PROVE  After(a)
<1>1. AssetInv(a)
  BY DEF Before, UploadInv
<1>2. /\ status' \in [Assets -> Status] /\ status'[a] = "CASCADED"
      /\ \A b \in Assets : b # a => status'[b] = status[b]
  BY DEF DeleteGoal, Becomes, Before, TypeOK, Status
<1>3. /\ erasure' \in [Assets -> [status : ErasureStatus, tries : 0..EraseTries, key : BOOLEAN]]
      /\ erasure'[a].status # "NONE"
      /\ \A b \in Assets : b # a => erasure'[b] = erasure[b]
  BY ScheduledIs DEF DeleteGoal, Before
<1>4. RowsTyped /\ Apart(a)
  BY <1>2, <1>3 DEF DeleteGoal, RowsTyped, Apart, Before, TypeOK
<1>5. Finished(a)' /\ status'[a] \in Doomed
  BY <1>2 DEF Finished, Doomed
<1>6. ASSUME NEW r \in Runners, alone[a], On(r, a) PROVE Knows(r, a)'
  BY <1>1, <1>2, <1>3, <1>5, <1>6 DEF AssetInv, Informed, Knows, Fact, DeleteGoal
<1>7. Kept(a)' /\ Due(a)' /\ Released(a)'
  BY <1>2, <1>3, <1>5 DEF Kept, Due, Released, Arrived, DeleteGoal
<1> QED
  BY <1>2, <1>4, <1>5, <1>6, <1>7, NobodyMoves DEF DeleteGoal, Final, Before, TypeOK

\* A scan is given up; if it still runs the asset is no more alone.
LEMMA CleanStaleKeeps ==
  ASSUME Before, NEW a \in Assets, CleanStale(a)
  PROVE  After(a)
<1>1. AssetInv(a)
  BY DEF Before, UploadInv
<1>2. /\ status' \in [Assets -> Status] /\ status'[a] = "SCAN_FAILED"
      /\ \A b \in Assets : b # a => status'[b] = status[b]
  BY DEF CleanStale, Becomes, Before, TypeOK, Status
<1>3. RowsTyped /\ Apart(a)
  BY <1>2 DEF CleanStale, RowsTyped, Apart, Before, TypeOK
<1> DEFINE free == \A r \in Runners : run[r] = Idle \/ run[r].asset # a
<1>4. alone' = [alone EXCEPT ![a] = alone[a] /\ free]
  BY DEF CleanStale
<1>5. (alone[a] /\ free) \in BOOLEAN
  OBVIOUS
<1>6. free => \A r \in Runners : ~On(r, a)
  BY DEF On
<1> HIDE DEF free
<1>7. /\ alone' \in [Assets -> BOOLEAN]
      /\ \A b \in Assets : b # a => alone'[b] = alone[b]
      /\ alone'[a] = (alone[a] /\ free)
  BY <1>4, <1>5 DEF Before, TypeOK
<1>8. Kept(a)' /\ Due(a)' /\ Released(a)'
  BY <1>1, <1>2, <1>7 DEF AssetInv, Kept, Due, Released, Finished, Arrived, Doomed, CleanStale
<1> QED
  BY <1>2, <1>3, <1>6, <1>7, <1>8, NobodyMoves DEF CleanStale, Final, Doomed

\* Only the entry of a's scan, or of the deletion of its object, is written.
LEMMA EnqueuesOnly ==
  ASSUME Before, NEW a \in Assets, NEW k \in {"scan", "erase"}, queue' = Enqueued(a, k),
         UNCHANGED <<asset, stored, erasure, run, alone, faults>>,
         status[a] # "NONE", k = "erase" => erasure[a].status # "NONE"
  PROVE  After(a)
<1>1. AssetInv(a)
  BY DEF Before, UploadInv
<1>2. /\ queue' \in [Assets \X Kinds -> {"none", "waiting", "active"}]
      /\ \A b \in Assets, j \in Kinds : b # a \/ j # k => queue'[<<b, j>>] = queue[<<b, j>>]
  BY DEF Enqueued, Before, TypeOK, Kinds
<1>3. RowsTyped /\ Apart(a)
  BY <1>2 DEF RowsTyped, Apart, Before, TypeOK, asset
<1>4. ASSUME NEW r \in Runners, alone[a], On(r, a) PROVE Knows(r, a)'
  BY <1>1, <1>4 DEF AssetInv, Informed, Knows, Fact, Finished, asset
<1>5. Kept(a)' /\ Due(a)' /\ Released(a)'
  BY <1>1, <1>2 DEF AssetInv, Kept, Due, Released, Finished, Kinds, asset
<1> QED
  BY <1>3, <1>4, <1>5, NobodyMoves DEF Final, Before, TypeOK, asset

\* A deletion that is not through is queued again.
LEMMA ReconcileKeeps ==
  ASSUME Before, NEW a \in Assets, Reconcile(a)
  PROVE  After(a)
<1>1. AssetInv(a) /\ erasure[a].status # "NONE"
  BY DEF Reconcile, Erasable, Before, UploadInv
<1> QED
  BY <1>1, HasRow, EnqueuesOnly DEF Reconcile

\* A round queues a scan or makes it.
LEMMA CleanScanKeeps ==
  ASSUME Before, NEW r \in Cleaners, NEW a \in Assets, CleanScan(r, a)
  PROVE  After(a)
<1>1. CASE queue' = Enqueued(a, "scan") /\ UNCHANGED <<run, alone>>
  BY <1>1, EnqueuesOnly DEF CleanScan
<1>2. CASE Begins(r, a, "scan", "object", "none") /\ UNCHANGED queue
  <2>1. Fact("scan", "object", "none", a)
    BY DEF Fact, Removing
  <2> QED
    BY <1>2, <2>1, BeginOnly DEF CleanScan, Step, Purposes, Runners
<1> QED
  BY <1>1, <1>2 DEF CleanScan

(***************************************************************************)
(* The invariant.                                                          *)
(***************************************************************************)
\* The invariant holds initially.
LEMMA InvInit ==
  ASSUME Init
  PROVE  TypeOK /\ UploadInv
<1>1. TypeOK
  BY Bounds DEF Init, TypeOK, Status, ErasureStatus, Run, Idle
<1>2. ASSUME NEW a \in Assets PROVE AssetInv(a)
  BY DEF Init, AssetInv, Unborn, Sole, Kept, Due, Informed, Released, Arrived, On, Kinds
<1> QED
  BY <1>1, <1>2 DEF UploadInv

\* Every step of a runner keeps it.
LEMMA RunnerStepKeeps ==
  ASSUME Before, NEW r \in Runners, NEW a \in Assets, RunnerStep(r, a)
  PROVE  After(a)
<1>1. CASE StorePut(r, a) \/ CompleteRead(r, a) \/ Verify(r, a) \/ RejectDelete(r, a)
  BY <1>1, StorePutKeeps, CompleteReadKeeps, VerifyKeeps, RejectDeleteKeeps
<1>2. CASE QueueScan(r, a) \/ ScanRead(r, a) \/ ScanLook(r, a) \/ RemoveRead(r, a)
  BY <1>2, QueueScanKeeps, ScanReadKeeps, ScanLookKeeps, RemoveReadKeeps
<1>3. CASE Schedule(r, a) \/ EraseRead(r, a) \/ EraseStart(r, a) \/ Erase(r, a)
  BY <1>3, ScheduleKeeps, EraseReadKeeps, EraseStartKeeps, EraseKeeps
<1>4. CASE EraseRecord(r, a) \/ EraseFails(r, a) \/ RowIsGone(r, a)
  BY <1>4, EraseRecordKeeps, EraseFailsKeeps, RowIsGoneKeeps
<1>5. CASE status[a] \notin Rowless /\ (Uploaded(r, a) \/ Reject(r, a) \/ ScanMark(r, a))
  BY <1>5, UploadedKeeps, RejectKeeps, ScanMarkKeeps
<1>6. CASE status[a] \notin Rowless /\ (ScanWrite(r, a) \/ Delete(r, a) \/ Remove(r, a))
  BY <1>6, ScanWriteKeeps, DeleteKeeps, RemoveKeeps
<1> QED
  BY <1>1, <1>2, <1>3, <1>4, <1>5, <1>6 DEF RunnerStep

\* Every step is a step on one asset.
LEMMA HandlerKeeps ==
  ASSUME Before, Handler
  PROVE  \E a \in Assets : After(a)
<1>1. CASE \E a \in Assets : Create(a) \/ Expire(a) \/ ClientPuts(a) \/ DeleteGoal(a)
                            \/ CleanStale(a) \/ Reconcile(a)
  BY <1>1, CreateKeeps, ExpireKeeps, ClientPutsKeeps, DeleteGoalKeeps, CleanStaleKeeps, ReconcileKeeps
<1>2. CASE \E r \in Runners, a \in Assets : RunnerStep(r, a)
  BY <1>2, RunnerStepKeeps
<1>3. CASE \E r \in Requests, a \in Assets : StoreRead(r, a) \/ CompleteCall(r, a) \/ DeleteCall(r, a)
  BY <1>3, StoreReadKeeps, CompleteCallKeeps, DeleteCallKeeps
<1>4. CASE \E r \in Workers, a \in Assets, k \in Kinds : WorkerTakes(r, a, k)
  BY <1>4, WorkerTakesKeeps
<1>5. CASE \E r \in Cleaners, a \in Assets :
             \/ CleanExpired(r, a) \/ CleanDeletion(r, a) \/ CleanQuarantine(r, a)
             \/ CleanScan(r, a) \/ CleanErasure(r, a) \/ CleanOrphan(r, a)
  BY <1>5, CleanExpiredKeeps, CleanDeletionKeeps, CleanQuarantineKeeps, CleanScanKeeps,
     CleanErasureKeeps, CleanOrphanKeeps
<1>6. CASE \E r \in Runners : Dies(r)
  BY <1>6, DiesKeeps
<1> QED
  BY <1>1, <1>2, <1>3, <1>4, <1>5, <1>6 DEF Handler

\* The invariant is kept, and a deletion stays asked for, by every step.
LEMMA NextKeeps ==
  ASSUME TypeOK, UploadInv, [Next]_vars
  PROVE  TypeOK' /\ UploadInv' /\ \A a \in Assets : Final(a)
<1>1. CASE Next
  <2>1. Before /\ Handler
    BY <1>1 DEF Next, Before
  <2>2. PICK a \in Assets : After(a)
    BY <2>1, HandlerKeeps
  <2>3. ASSUME NEW b \in Assets, b # a PROVE AssetInv(b)' /\ Final(b)
    BY <2>2, <2>3, Elsewhere DEF After, UploadInv
  <2> QED
    BY <2>2, <2>3 DEF After, UploadInv
<1>2. CASE UNCHANGED vars
  <2>1. TypeOK'
    BY <1>2 DEF TypeOK, vars, state, asset
  <2>2. ASSUME NEW a \in Assets PROVE AssetInv(a)' /\ Final(a)
    <3>1. \A q \in Runners : On(q, a)' <=> On(q, a)
      BY <1>2 DEF On, vars, state
    <3>2. \A q \in Runners : Knows(q, a)' <=> Knows(q, a)
      BY <1>2 DEF Knows, Fact, Finished, vars, state, asset
    <3>3. AssetInv(a)
      BY DEF UploadInv
    <3> QED
      BY <1>2, <3>1, <3>2, <3>3
      DEF AssetInv, Unborn, Sole, Kept, Due, Informed, Released, Finished, Final, vars, state, asset
  <2> QED
    BY <2>1, <2>2 DEF UploadInv
<1> QED
  BY <1>1, <1>2

\* In every reachable state.
THEOREM UploadInvariant == Spec => [](TypeOK /\ UploadInv)
<1>1. Init => TypeOK /\ UploadInv
  BY InvInit
<1>2. (TypeOK /\ UploadInv) /\ [Next]_vars => (TypeOK /\ UploadInv)'
  BY NextKeeps
<1> QED
  BY <1>1, <1>2, PTL DEF Spec

\* What is gone is not charged for, and what is offered for download is in the
\* store and charged for as long as nothing overlapped on it: for any number of
\* runners and assets, whatever fails or dies.
THEOREM ChargesAgreeHolds == Spec => []ChargesAgree
<1>1. TypeOK /\ UploadInv => ChargesAgree
  BY DEF ChargesAgree, UploadInv, AssetInv, Released, Kept, Arrived, GoneIsReleased, ReadyIsHeld,
         Downloadable
<1> QED
  BY <1>1, UploadInvariant, PTL

\* Once its deletion was asked for an asset does not come back, however often
\* the call, the queue's entry or the cleanup is repeated, unless two of them
\* overlap on it.
THEOREM DeletionIsFinalHolds == Spec => DeletionIsFinal
<1>1. (TypeOK /\ UploadInv) /\ [Next]_vars
      => [\A a \in Assets : status[a] \in Doomed /\ alone'[a] => status'[a] \in Doomed]_vars
  BY NextKeeps DEF Final
<1> QED
  BY <1>1, UploadInvariant, PTL DEF Spec, DeletionIsFinal
=============================================================================
