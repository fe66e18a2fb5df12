------------------------------- MODULE Custody -------------------------------
(***************************************************************************)
(* What a person leaves in storage, raw photos, crops, the adapter and the *)
(* results of a job, and everything that writes or deletes it: uploads and *)
(* requests to train, which may overlap, the training container, the       *)
(* inference container (Rendering), deletion of the job or of the model,   *)
(* and the hourly retention cleanup, which deletes under a lock on the     *)
(* users row. Storage has no transactions: what is deleted from it stays   *)
(* deleted when the invocation that deletes it dies.                       *)
(***************************************************************************)
EXTENDS Rendering

CONSTANTS
  Requests,   \* start_training requests, each with photos of its own
  Sizes,      \* how many crops a request may have
  Fee,        \* what a retrain may cost
  MaxCredits, \* bound: a purchase fills the balance up to it
  MaxBusy,    \* bound: actors that are in the middle of their work
  Flaky       \* whether a deletion from storage may fail

ASSUME CustodyConstants ==
  /\ None \notin Requests
  /\ \A n \in Sizes : n \in Nat \ {0} /\ 0 .. n - 1 \subseteq Crops
  /\ Fee \in Nat /\ MaxCredits \in Nat \ {0} /\ MaxBusy \in Nat /\ Flaky \in BOOLEAN

VARIABLES
  user,      \* the users row
  photos,    \* the requests whose raw photos are there
  request,   \* how far every request is with its crops
  train,     \* their runs: how many crops, who was at work beside the request, whose
             \* crops the run saw
  sweep,     \* retention_cleanup, and whether it listed the job
  deletion,  \* delete_job
  reset,     \* delete_user_model is between its two steps
  clock,     \* submit_job has still to restart the retention clock
  orphans,   \* the results were deleted in part, or while the container was at work
  torn       \* a cleanup died after it had begun to delete

custody == <<user, photos, request, train, sweep, deletion, reset, clock, orphans, torn>>
vars == <<rendering, custody>>

NoRun == [status |-> "none", size |-> 0, fee |-> 0, rivals |-> {}, saw |-> {}]
Ended == [NoRun EXCEPT !.status = "ended"]
Over == [step |-> "done", size |-> 0, next |-> 0]

Init ==
  /\ RenderingInit
  /\ user = [lora |-> "none", credits |-> 0, deadline |-> "none", monthly |-> FALSE]
  /\ photos = {}
  /\ request = [r \in Requests |-> [step |-> "idle", size |-> 0, next |-> 0]]
  /\ train = [r \in Requests |-> NoRun]
  /\ sweep = [stage |-> "idle", listed |-> FALSE]
  /\ deletion = "none" /\ reset = FALSE /\ clock = FALSE
  /\ orphans = FALSE /\ torn = FALSE

\* retention_cleanup holds UPDLOCK on the users row while it deletes.
Locked == sweep.stage \notin {"idle", "due"}

At(r) == request[r].step
AtWork == {r \in Requests : At(r) \notin {"idle", "done"}}
One(b) == IF b THEN 1 ELSE 0
Room ==
  Cardinality(AtWork) + One(Working) + One(sweep.stage # "idle")
    + One(deletion = "cleaning") + One(reset) + One(clock) < MaxBusy

-----------------------------------------------------------------------------
(* Uploads and requests to train.                                          *)

ElsewhereUnchanged == UNCHANGED <<row, blobs, run, cand, image, sweep, deletion, reset,
                                  clock, orphans, torn>>

\* upload_photo, as often as the request needs.
UploadPhotos(r) ==
  /\ At(r) = "idle" /\ r \notin photos
  /\ photos' = photos \cup {r}
  /\ UNCHANGED <<rendering, user, request, train, sweep, deletion, reset, clock, orphans, torn>>

\* Two requests are rivals if one of them begins while the other is at work.
Begun(r) == [q \in Requests |->
  IF q = r THEN [train[r] EXCEPT !.rivals = @ \cup AtWork]
  ELSE IF q \in AtWork THEN [train[q] EXCEPT !.rivals = @ \cup {r}] ELSE train[q]]

\* The photos of the request are there, and the face gate accepts every one of them.
Photographed(r) == r \in photos

\* Mutated form of BeginTrain: a run in progress is not looked for.
BeginTrainAnyway(r) ==
  /\ At(r) = "idle" /\ Room
  /\ Photographed(r)
  /\ \E n \in Sizes :
       request' = [request EXCEPT ![r] = [step |-> "writing", size |-> n, next |-> 0]]
  /\ train' = Begun(r)
  /\ UNCHANGED <<user, photos, adapter, crops>> /\ ElsewhereUnchanged

\* start_training reads the row without a lock, and crops the photos that it is given.
BeginTrain(r) ==
  /\ At(r) = "idle" /\ Room
  /\ user.lora # "training" /\ Photographed(r)
  /\ \E n \in Sizes :
       request' = [request EXCEPT ![r] = [step |-> "writing", size |-> n, next |-> 0]]
  /\ train' = Begun(r)
  /\ UNCHANGED <<user, photos, adapter, crops>> /\ ElsewhereUnchanged

\* The crops of every request go to the same names.
WriteCrop(r) ==
  /\ At(r) = "writing" /\ request[r].next < request[r].size
  /\ crops' = [crops EXCEPT ![request[r].next] = r]
  /\ request' = [request EXCEPT ![r].next = @ + 1]
  /\ UNCHANGED <<user, photos, train, adapter>> /\ ElsewhereUnchanged

\* _purge_stale_training_photos, which swallows its failure.
Purge(r) ==
  /\ At(r) = "writing" /\ request[r].next = request[r].size
  /\ photos' \in {photos, photos \cap {r}}
  /\ request' = [request EXCEPT ![r].step = "reserving"]
  /\ UNCHANGED <<user, train, adapter, crops>> /\ ElsewhereUnchanged

\* reserve_training_slot looks again, under a lock. It refuses for want of credits too, or
\* beyond the day's limit.
Reserve(r) ==
  /\ At(r) = "reserving" /\ ~Locked
  /\ request' = [request EXCEPT ![r] = Over]
  /\ \/ \E fee \in {0, Fee} :
          /\ user.lora # "training" /\ fee <= user.credits
          /\ user' = [user EXCEPT !.lora = "training", !.credits = @ - fee]
          /\ train' = [train EXCEPT ![r] =
               [@ EXCEPT !.status = "queued", !.size = request[r].size, !.fee = fee]]
     \/ train' = [train EXCEPT ![r] = Ended] /\ UNCHANGED user
  /\ UNCHANGED <<photos, adapter, crops>> /\ ElsewhereUnchanged

-----------------------------------------------------------------------------
(* The training container, and the watcher that settles its run.           *)

\* run_training downloads the crops on its list, or fails.
ReadCrops(r) ==
  LET list == 0 .. train[r].size - 1 IN
  /\ train[r].status = "queued"
  /\ \A i \in list : crops[i] # None
  /\ train' = [train EXCEPT ![r].status = "running", ![r].saw = {crops[i] : i \in list}]
  /\ UNCHANGED <<user, photos, request, adapter, crops>> /\ ElsewhereUnchanged

SaveAdapter(r) ==
  /\ train[r].status = "running"
  /\ train' = [train EXCEPT ![r].status = "saved"]
  /\ adapter' = r
  /\ UNCHANGED <<user, photos, request, crops>> /\ ElsewhereUnchanged

\* Once the row says no longer that a run is under way, nothing keeps other requests from
\* the crops of a run that has still to read them.
Unguarded(runs) == [q \in Requests |->
  IF runs[q].status = "queued" THEN [runs[q] EXCEPT !.rivals = Requests] ELSE runs[q]]

Settled(r, lora, back) ==
  /\ ~Locked
  /\ user' = [user EXCEPT !.lora = lora, !.credits = @ + back]
  /\ train' = Unguarded([train EXCEPT ![r] = Ended])
  /\ UNCHANGED <<photos, request, adapter, crops>> /\ ElsewhereUnchanged

\* _finish_training, of a run that has succeeded ...
Succeeds(r) == train[r].status = "saved" /\ Settled(r, "ready", 0)

\* ... and of one that has failed, with an adapter in storage or without.
FailTraining(r) ==
  /\ train[r].status \in {"queued", "running", "saved"}
  /\ Settled(r, IF adapter # None THEN "ready" ELSE "failed", train[r].fee)

-----------------------------------------------------------------------------
(* The balance, the job, and the deletion of either the job or the model.  *)

Account == UNCHANGED <<rendering, photos, request, train, sweep, deletion, reset, clock,
                       orphans, torn>>

\* A pack, which leaves the deadline alone, ...
BuyPack ==
  /\ ~Locked /\ user.credits < MaxCredits
  /\ user' = [user EXCEPT !.credits = MaxCredits]
  /\ Account

\* ... a plan, while which lasts there is none, ...
Subscribe ==
  /\ ~Locked /\ ~user.monthly
  /\ user' = [user EXCEPT !.credits = MaxCredits, !.deadline = "none", !.monthly = TRUE]
  /\ Account

\* ... and the plan's end, which leaves what is not the plan's.
PlanEnds ==
  /\ ~Locked /\ user.monthly
  /\ \E left \in 0 .. user.credits :
       user' = [user EXCEPT !.credits = left, !.deadline = "set", !.monthly = FALSE]
  /\ Account

DeadlinePasses ==
  /\ user.deadline = "set" /\ user' = [user EXCEPT !.deadline = "passed"]
  /\ Account

\* A request with an adapter that is ready. (Jobs that wait for one are in Training.)
Acceptable == row.status = "none" /\ user.lora = "ready" /\ user.credits > 0

\* submit_job; a one-time plan's clock starts again when the job is in.
Submit ==
  /\ ~Locked /\ Room /\ Acceptable
  /\ row' = [row EXCEPT !.status = "queued"]
  /\ user' = [user EXCEPT !.credits = @ - 1]
  /\ clock' = ~user.monthly
  /\ UNCHANGED <<blobs, adapter, crops, run, cand, image, photos, request, train, sweep,
                 deletion, reset, orphans, torn>>

\* Its second transaction, which may fail.
StartClock ==
  /\ clock /\ clock' = FALSE
  /\ \/ ~Locked /\ user' = [user EXCEPT !.deadline = "set"]
     \/ UNCHANGED user
  /\ UNCHANGED <<rendering, photos, request, train, sweep, deletion, reset, orphans, torn>>

\* A job that fails is refunded in the transaction that fails it.
Refunded ==
  /\ IF row.status # "failed" /\ row'.status = "failed"
     THEN ~Locked /\ user' = [user EXCEPT !.credits = @ + 1] ELSE UNCHANGED user
  /\ UNCHANGED <<photos, request, train, sweep, deletion, reset, clock, orphans, torn>>

\* Deletion from storage is best effort.
Remains(all) == IF Flaky THEN SUBSET all ELSE {{}}

\* Mutated form of DeleteRow: the results first.
DeleteResultsFirst ==
  /\ deletion = "none" /\ row.status # "none" /\ Room
  /\ deletion' = "cleaning"
  /\ blobs' = [s \in Slots |-> None]
  /\ UNCHANGED <<row, adapter, crops, run, cand, image, user, photos, request, train,
                 sweep, reset, clock, orphans, torn>>

\* delete_job, of a job in whatever state: first the row, ...
DeleteRow ==
  /\ deletion = "none" /\ row.status # "none" /\ Room
  /\ row' = [row EXCEPT !.status = "deleted", !.paths = {}]
  /\ deletion' = "cleaning"
  /\ UNCHANGED <<blobs, adapter, crops, run, cand, image, user, photos, request, train,
                 sweep, reset, clock, orphans, torn>>

\* The results, as far as storage deletes them. A container at work may still add some.
EmptyResults ==
  \E left \in Remains(Slots) :
    /\ blobs' = [s \in Slots |-> IF s \in left THEN blobs[s] ELSE None]
    /\ orphans' = (orphans \/ left # {} \/ Working)

\* ... and then the results.
CleanResults ==
  /\ deletion = "cleaning" /\ deletion' = "done"
  /\ EmptyResults
  /\ UNCHANGED <<row, adapter, crops, run, cand, image, user, photos, request, train,
                 sweep, reset, clock, torn>>

Emptied(x, nothing) == IF Flaky THEN {x, nothing} ELSE {nothing}

\* delete_user_model: the adapter, and then the row.
DeleteAdapter ==
  /\ ~reset /\ Room /\ reset' = TRUE
  /\ adapter' \in Emptied(adapter, None)
  /\ UNCHANGED <<row, blobs, crops, run, cand, image, user, photos, request, train, sweep,
                 deletion, clock, orphans, torn>>

ResetModel ==
  /\ reset /\ ~Locked /\ reset' = FALSE
  /\ user' = [user EXCEPT !.lora = "none"]
  /\ train' = Unguarded(train)
  /\ UNCHANGED <<rendering, photos, request, sweep, deletion, clock, orphans, torn>>

-----------------------------------------------------------------------------
(* retention_cleanup, for this person.                                     *)

Due == user.deadline = "passed" /\ user.credits = 0

\* It lists who is due ...
List ==
  /\ sweep.stage = "idle" /\ Room
  /\ Due
  /\ sweep' = [sweep EXCEPT !.stage = "due"]
  /\ UNCHANGED <<rendering, user, photos, request, train, deletion, reset, clock, orphans, torn>>

\* Mutated form of Lock: the list is trusted.
LockListed ==
  /\ sweep.stage = "due"
  /\ sweep' = IF ~Open
       THEN [stage |-> "inputs", listed |-> row.status \in {"completed", "failed"}]
       ELSE [sweep EXCEPT !.stage = "idle"]
  /\ UNCHANGED <<rendering, user, photos, request, train, deletion, reset, clock, orphans, torn>>

\* ... and looks again, under the lock, before it deletes anything.
Lock ==
  /\ sweep.stage = "due"
  /\ sweep' = IF Due /\ ~Open
       THEN [stage |-> "inputs", listed |-> row.status \in {"completed", "failed"}]
       ELSE [sweep EXCEPT !.stage = "idle"]
  /\ UNCHANGED <<rendering, user, photos, request, train, deletion, reset, clock, orphans, torn>>

Goes(from, to) ==
  /\ sweep.stage = from /\ sweep' = [sweep EXCEPT !.stage = to]
  /\ UNCHANGED <<row, run, cand, image, user, request, train, deletion, reset, clock, torn>>

SweepInputs ==
  /\ Goes("inputs", "adapter")
  /\ photos' \in Emptied(photos, {})
  /\ crops' \in Emptied(crops, [i \in Crops |-> None])
  /\ UNCHANGED <<adapter, blobs, orphans>>

SweepAdapter ==
  /\ Goes("adapter", "results")
  /\ adapter' \in Emptied(adapter, None)
  /\ UNCHANGED <<photos, crops, blobs, orphans>>

SweepResults ==
  /\ Goes("results", "commit")
  /\ IF sweep.listed THEN EmptyResults ELSE UNCHANGED <<blobs, orphans>>
  /\ UNCHANGED <<photos, crops, adapter>>

SweepCommit ==
  /\ sweep.stage = "commit" /\ sweep' = [sweep EXCEPT !.stage = "idle"]
  /\ row' = [row EXCEPT !.expired = @ \/ row.status \in {"completed", "failed"}]
  /\ user' = [user EXCEPT !.lora = "none", !.deadline = "none"]
  /\ train' = Unguarded(train)
  /\ UNCHANGED <<blobs, adapter, crops, run, cand, image, photos, request, deletion, reset,
                 clock, orphans, torn>>

\* The transaction is rolled back, and the lock is free.
SweepDies ==
  /\ Locked /\ sweep' = [sweep EXCEPT !.stage = "idle"]
  /\ torn' = TRUE
  /\ UNCHANGED <<rendering, user, photos, request, train, deletion, reset, clock, orphans>>

-----------------------------------------------------------------------------

Trains ==
  \E r \in Requests :
    \/ UploadPhotos(r) \/ BeginTrain(r) \/ WriteCrop(r) \/ Purge(r) \/ Reserve(r)
    \/ ReadCrops(r) \/ SaveAdapter(r) \/ Succeeds(r) \/ FailTraining(r)

Renders == (Container \/ Fail \/ FailedElsewhere) /\ Refunded

Pays == BuyPack \/ Subscribe \/ PlanEnds \/ DeadlinePasses \/ Submit \/ StartClock

Deletes == DeleteRow \/ CleanResults \/ DeleteAdapter \/ ResetModel

Sweeps ==
  List \/ Lock \/ SweepInputs \/ SweepAdapter \/ SweepResults \/ SweepCommit \/ SweepDies

Next == Trains \/ Renders \/ Pays \/ Deletes \/ Sweeps

Spec == Init /\ [][Next]_vars

-----------------------------------------------------------------------------

\* What job_result_url gives links to.
Linked == IF row.status = "completed" THEN row.paths ELSE {}

\* Rows and results agree. Of a completed job that has not expired every link leads to an
\* image, unless a cleanup is deleting it or died over it; and what
\* was deleted, with the row or at the deadline, stays deleted, unless storage refused or
\* the container was still at work then.
StorageAgrees ==
  /\ ~row.expired /\ ~torn /\ sweep.stage # "commit" =>
       \A s \in Linked : blobs[s] # None
  /\ (row.expired \/ deletion = "done") /\ ~orphans =>
       \A s \in Slots : blobs[s] = None

\* Retention deletes nothing of a person whose row has credits or time left, or whose job
\* is still to be rendered, whatever is bought, refunded or submitted while it deletes.
SparesThePaying == Locked => Due /\ ~Open

\* A run is trained on crops of its own request, and besides only on crops of requests
\* that were at work beside it; requests that follow one another never mix.
MixedByRivalsOnly ==
  \A r \in Requests : train[r].saw \subseteq {r} \cup train[r].rivals
=============================================================================
