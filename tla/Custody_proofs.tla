--------------------------- MODULE Custody_proofs ---------------------------
(***************************************************************************)
(* Theorems about Custody, for any number of requests, crops, slots,       *)
(* prices and actors at work: retention spares whoever has paid, a run     *)
(* sees foreign crops only of requests that were at work beside its own,   *)
(* rows and results agree, and only fit work ships.                        *)
(***************************************************************************)
EXTENDS Custody, SequenceTheorems, FiniteSetTheorems, TLAPS

Row == [status : {"none", "queued", "processing", "completed", "failed", "deleted"},
        paths : SUBSET Slots, expired : BOOLEAN]
User == [lora : {"none", "training", "ready", "failed"}, credits : Nat,
         deadline : {"none", "set", "passed"}, monthly : BOOLEAN]
Sweep == [stage : {"idle", "due", "inputs", "adapter", "results", "commit"},
          listed : BOOLEAN]
Request == [step : {"idle", "writing", "reserving", "done"}, size : Sizes \cup {0},
            next : Nat]
Run == [status : {"none", "queued", "running", "saved", "ended"}, size : Sizes \cup {0},
        fee : Nat, rivals : SUBSET Requests, saw : SUBSET Requests]

\* The types of the rows, and of what trains.
RowsOK == row \in Row /\ user \in User /\ sweep \in Sweep
RunsOK ==
  /\ request \in [Requests -> Request]
  /\ train \in [Requests -> Run]
  /\ crops \in [Crops -> Requests \cup {None}]
TypeInv == RowsOK /\ RunsOK

USE CustodyConstants, RenderingConstants

-----------------------------------------------------------------------------
(* What the steps share.                                                   *)

LEMMA WriteRow ==
  ASSUME row \in Row, NEW s \in {"processing", "completed", "failed"}, NEW p \in SUBSET Slots,
         Write(s, p)
  PROVE  row' \in Row /\ (~Open => row' = row)
BY DEF Write, Row, Open

\* The container and whoever ends the job write the row while it is open, and no crop.
LEMMA RenderingStep ==
  ASSUME row \in Row, Container \/ Fail \/ FailedElsewhere
  PROVE  row' \in Row /\ (~Open => row' = row) /\ crops' = crops
<1> USE DEF Inside
<1>1. CASE Boot
  <2>1. {} \in SUBSET Slots  OBVIOUS
  <2> QED  BY <1>1, <2>1, WriteRow DEF Boot
<1>2. CASE Complete
  <2>1. Slots \ run.lost \in SUBSET Slots  OBVIOUS
  <2> QED  BY <1>2, <2>1, WriteRow DEF Complete
<1>3. CASE Fail
  <2>1. {} \in SUBSET Slots  OBVIOUS
  <2> QED  BY <1>3, <2>1, WriteRow DEF Fail
<1>4. CASE FailedElsewhere
  <2>1. {} \in SUBSET Slots  OBVIOUS
  <2> QED  BY <1>4, <2>1, WriteRow DEF FailedElsewhere
<1>5. CASE LoadModel \/ LoadIdentity \/ LoadReference \/ Generate \/ Retry \/ Select
            \/ Enhance \/ FaceGate \/ Upload \/ Raise \/ Dies
  BY <1>5 DEF LoadModel, LoadIdentity, LoadReference, Generate, Retry, Select, Enhance,
     FaceGate, Upload, Raise, Dies
<1> QED
  BY <1>1, <1>2, <1>3, <1>4, <1>5 DEF Container

\* Unguarded changes rivals only, and only adds to them.
LEMMA UnguardedRuns ==
  ASSUME NEW runs \in [Requests -> Run]
  PROVE  /\ Unguarded(runs) \in [Requests -> Run]
         /\ \A q \in Requests :
              /\ Unguarded(runs)[q].status = runs[q].status
              /\ Unguarded(runs)[q].size = runs[q].size
              /\ Unguarded(runs)[q].saw = runs[q].saw
              /\ runs[q].rivals \subseteq Unguarded(runs)[q].rivals
              /\ runs[q].status = "queued" => Unguarded(runs)[q].rivals = Requests
BY DEF Unguarded, Run

\* So does Begun: the request that begins and those at work become rivals.
LEMMA BegunRuns ==
  ASSUME TypeInv, NEW r \in Requests
  PROVE  /\ Begun(r) \in [Requests -> Run]
         /\ \A q \in Requests :
              /\ Begun(r)[q].status = train[q].status
              /\ Begun(r)[q].size = train[q].size
              /\ Begun(r)[q].saw = train[q].saw
              /\ train[q].rivals \subseteq Begun(r)[q].rivals
              /\ q = r => AtWork \subseteq Begun(r)[q].rivals
              /\ q # r /\ q \in AtWork => r \in Begun(r)[q].rivals
<1>1. AtWork \subseteq Requests  BY DEF AtWork
<1> QED  BY <1>1 DEF Begun, TypeInv, RunsOK, Run

LEMMA ReservedRun ==
  ASSUME NEW run0 \in Run, NEW n \in Sizes \cup {0}, NEW fee \in Nat
  PROVE  [run0 EXCEPT !.status = "queued", !.size = n, !.fee = fee] \in Run
<1> DEFINE s == "queued"
<1>1. s \in {"none", "queued", "running", "saved", "ended"}  OBVIOUS
<1> HIDE DEF s
<1>2. [run0 EXCEPT !.status = s, !.size = n, !.fee = fee] \in Run  BY <1>1 DEF Run
<1> QED  BY <1>2 DEF s

LEMMA ReadingRun ==
  ASSUME NEW run0 \in Run, NEW saw \in SUBSET Requests
  PROVE  [run0 EXCEPT !.status = "running", !.saw = saw] \in Run
<1> DEFINE s == "running"
<1>1. s \in {"none", "queued", "running", "saved", "ended"}  OBVIOUS
<1> HIDE DEF s
<1>2. [run0 EXCEPT !.status = s, !.saw = saw] \in Run  BY <1>1 DEF Run
<1> QED  BY <1>2 DEF s

-----------------------------------------------------------------------------
(* Types.                                                                  *)

LEMMA TypeInit == Init => TypeInv
<1> SUFFICES ASSUME Init PROVE TypeInv  OBVIOUS
<1>1. RowsOK
  BY DEF Init, RenderingInit, RowsOK, Row, User, Sweep
<1>2. RunsOK
  BY DEF Init, RenderingInit, RunsOK, Request, Run, NoRun
<1> QED  BY <1>1, <1>2 DEF TypeInv

\* A step of a request or of its run keeps the types and the row.
LEMMA TrainsType ==
  ASSUME TypeInv, NEW r \in Requests,
         \/ UploadPhotos(r) \/ BeginTrain(r) \/ WriteCrop(r) \/ Purge(r) \/ Reserve(r)
         \/ ReadCrops(r) \/ SaveAdapter(r) \/ Succeeds(r) \/ FailTraining(r)
  PROVE  TypeInv' /\ row' = row /\ sweep' = sweep
<1> USE DEF TypeInv, ElsewhereUnchanged
<1>1. row' = row /\ sweep' = sweep
  BY DEF UploadPhotos, BeginTrain, WriteCrop, Purge, Reserve, ReadCrops, SaveAdapter,
     Succeeds, FailTraining, Settled, rendering
<1>2. CASE UploadPhotos(r) \/ SaveAdapter(r)
  BY <1>1, <1>2 DEF UploadPhotos, SaveAdapter, rendering, RowsOK, RunsOK, Run
<1>3. CASE BeginTrain(r)
  <2>1. train' \in [Requests -> Run]  BY <1>3, BegunRuns DEF BeginTrain
  <2>2. PICK n \in Sizes :
          request' = [request EXCEPT ![r] = [step |-> "writing", size |-> n, next |-> 0]]
    BY <1>3 DEF BeginTrain
  <2>3. [step |-> "writing", size |-> n, next |-> 0] \in Request
    BY DEF Request
  <2>4. request' \in [Requests -> Request]
    BY <2>2, <2>3 DEF RunsOK
  <2> QED  BY <1>1, <1>3, <2>1, <2>4 DEF BeginTrain, RowsOK, RunsOK
<1>4. CASE WriteCrop(r)
  <2>1. request' \in [Requests -> Request]
    BY <1>4 DEF WriteCrop, RunsOK, Request
  <2> QED  BY <1>1, <1>4, <2>1 DEF WriteCrop, RowsOK, RunsOK
<1>5. CASE Purge(r)
  <2>1. request' \in [Requests -> Request]
    BY <1>5 DEF Purge, RunsOK, Request
  <2> QED  BY <1>1, <1>5, <2>1 DEF Purge, RowsOK, RunsOK
<1>6. CASE Reserve(r)
  <2>1. request' \in [Requests -> Request]
    BY <1>6 DEF Reserve, RunsOK, Request, Over
  <2>2. request[r].size \in Sizes \cup {0}  BY DEF RunsOK, Request
  <2>3. train' \in [Requests -> Run] /\ user' \in User
    <3>1. ASSUME NEW fee \in {0, Fee}, fee <= user.credits,
                 user' = [user EXCEPT !.lora = "training", !.credits = @ - fee],
                 train' = [train EXCEPT ![r] =
                   [@ EXCEPT !.status = "queued", !.size = request[r].size, !.fee = fee]]
          PROVE  train' \in [Requests -> Run] /\ user' \in User
      <4>1. fee \in Nat /\ user.credits - fee \in Nat  BY <3>1 DEF RowsOK, User
      <4>2. user' \in User  BY <3>1, <4>1 DEF RowsOK, User
      <4>3. train[r] \in Run  BY DEF RunsOK
      <4>4. [train[r] EXCEPT !.status = "queued", !.size = request[r].size, !.fee = fee] \in Run
        BY ONLY <2>2, <4>1, <4>3, ReservedRun
      <4> QED  BY <3>1, <4>2, <4>4 DEF RunsOK
    <3>2. ASSUME train' = [train EXCEPT ![r] = Ended], user' = user
          PROVE  train' \in [Requests -> Run] /\ user' \in User
      BY <3>2 DEF RunsOK, RowsOK, Run, Ended, NoRun
    <3> QED  BY <1>6, <3>1, <3>2 DEF Reserve
  <2> QED  BY <1>1, <1>6, <2>1, <2>3 DEF Reserve, RowsOK, RunsOK
<1>7. CASE ReadCrops(r)
  <2> DEFINE list == 0 .. train[r].size - 1
             saw == {crops[i] : i \in list}
  <2>1. list \subseteq Crops  BY DEF RunsOK, Run
  <2>2. saw \in SUBSET Requests  BY <1>7, <2>1 DEF ReadCrops, RunsOK
  <2> DEFINE t == [train[r] EXCEPT !.status = "running", !.saw = saw]
  <2>3. train' = [train EXCEPT ![r] = t]
    BY <1>7 DEF ReadCrops, RunsOK
  <2> HIDE DEF saw
  <2>4. t \in Run  BY <2>2, ReadingRun DEF RunsOK
  <2>5. train' \in [Requests -> Run]  BY <2>3, <2>4 DEF RunsOK
  <2> QED  BY <1>1, <1>7, <2>5 DEF ReadCrops, RowsOK, RunsOK
<1>8. CASE Succeeds(r) \/ FailTraining(r)
  <2>1. PICK lora \in {"ready", "failed"}, back \in Nat : Settled(r, lora, back)
    BY <1>8 DEF Succeeds, FailTraining, RunsOK, Run
  <2>2. user.credits + back \in Nat  BY DEF RowsOK, User
  <2>3. user' \in User  BY <2>1, <2>2 DEF Settled, RowsOK, User
  <2>4. [train EXCEPT ![r] = Ended] \in [Requests -> Run]
    BY DEF RunsOK, Run, Ended, NoRun
  <2>5. train' \in [Requests -> Run]  BY <2>1, <2>4, UnguardedRuns DEF Settled
  <2> QED  BY <1>1, <2>1, <2>3, <2>5 DEF Settled, RowsOK, RunsOK
<1> QED
  BY <1>1, <1>2, <1>3, <1>4, <1>5, <1>6, <1>7, <1>8

\* The balance, the job, the deletions and retention keep the types, and leave the
\* requests and their crops alone or empty them.
LEMMA PaysType ==
  ASSUME TypeInv, Pays
  PROVE  /\ TypeInv' /\ sweep' = sweep
         /\ UNCHANGED <<request, train, crops>>
<1>1. UNCHANGED <<request, train, crops, sweep>>
  BY DEF Pays, BuyPack, Subscribe, PlanEnds, DeadlinePasses, Submit, StartClock, Account,
     rendering
<1>2. row' \in Row /\ user' \in User
  <2> USE DEF Row, User, RowsOK, TypeInv
  <2>1. CASE BuyPack \/ Subscribe \/ DeadlinePasses
    BY <2>1 DEF BuyPack, Subscribe, DeadlinePasses, Account, rendering
  <2>2. CASE PlanEnds
    <3>1. PICK left \in 0 .. user.credits :
            user' = [user EXCEPT !.credits = left, !.deadline = "set", !.monthly = FALSE]
      BY <2>2 DEF PlanEnds
    <3>2. left \in Nat  OBVIOUS
    <3> QED  BY <2>2, <3>1, <3>2 DEF PlanEnds, Account, rendering
  <2>3. CASE Submit
    <3>1. user.credits - 1 \in Nat  BY <2>3 DEF Submit, Acceptable
    <3> QED  BY <2>3, <3>1 DEF Submit
  <2>4. CASE StartClock
    BY <2>4 DEF StartClock, rendering
  <2> QED  BY <2>1, <2>2, <2>3, <2>4 DEF Pays
<1> QED  BY <1>1, <1>2 DEF TypeInv, RowsOK, RunsOK

LEMMA RendersType ==
  ASSUME TypeInv, Renders
  PROVE  /\ TypeInv' /\ sweep' = sweep /\ (~Open => row' = row)
         /\ UNCHANGED <<request, train, crops>>
<1>1. row' \in Row /\ (~Open => row' = row) /\ crops' = crops
  BY RenderingStep DEF Renders, TypeInv, RowsOK
<1>2. user' \in User /\ UNCHANGED <<request, train, sweep>>
  BY DEF Renders, Refunded, TypeInv, RowsOK, User
<1> QED  BY <1>1, <1>2 DEF TypeInv, RowsOK, RunsOK

LEMMA DeletesType ==
  ASSUME TypeInv, Deletes
  PROVE  /\ TypeInv' /\ UNCHANGED <<request, crops, sweep>>
         /\ train' = train \/ train' = Unguarded(train)
<1>1. UNCHANGED <<request, crops, sweep>> /\ (train' = train \/ train' = Unguarded(train))
  BY DEF Deletes, DeleteRow, CleanResults, DeleteAdapter, ResetModel, rendering
<1>2. train' \in [Requests -> Run]
  BY <1>1, UnguardedRuns DEF TypeInv, RunsOK
<1>3. row' \in Row /\ user' \in User
  <2> USE DEF TypeInv, RowsOK
  <2>1. CASE DeleteRow
    BY <2>1 DEF DeleteRow, Row
  <2>2. CASE CleanResults \/ DeleteAdapter
    BY <2>2 DEF CleanResults, DeleteAdapter
  <2>3. CASE ResetModel
    BY <2>3 DEF ResetModel, rendering, User
  <2> QED  BY <2>1, <2>2, <2>3 DEF Deletes
<1> QED  BY <1>1, <1>2, <1>3 DEF TypeInv, RowsOK, RunsOK

LEMMA SweepsType ==
  ASSUME TypeInv, Sweeps
  PROVE  /\ TypeInv' /\ request' = request
         /\ crops' = crops \/ crops' = [i \in Crops |-> None]
         /\ train' = train \/ (train' = Unguarded(train) /\ SweepCommit)
<1>1. UNCHANGED request /\ (crops' = crops \/ crops' = [i \in Crops |-> None])
  BY DEF Sweeps, List, Lock, SweepInputs, SweepAdapter, SweepResults, SweepCommit, SweepDies,
     Goes, Emptied, rendering
<1>2. train' = train \/ (train' = Unguarded(train) /\ SweepCommit)
  BY DEF Sweeps, List, Lock, SweepInputs, SweepAdapter, SweepResults, SweepCommit, SweepDies,
     Goes
<1>3. train' \in [Requests -> Run]
  BY <1>2, UnguardedRuns DEF TypeInv, RunsOK
<1>4. crops' \in [Crops -> Requests \cup {None}]
  BY <1>1 DEF TypeInv, RunsOK
<1>5. row' \in Row /\ user' \in User /\ sweep' \in Sweep
  <2> USE DEF TypeInv, RowsOK, Sweep
  <2>1. CASE List \/ Lock
    <3>1. UNCHANGED <<row, user>>  BY <2>1 DEF List, Lock, rendering
    <3>2. CASE List  BY <3>1, <3>2 DEF List
    <3>3. CASE Lock
      <4> DEFINE listed == row.status \in {"completed", "failed"}
      <4>1. /\ listed \in BOOLEAN
            /\ \/ sweep' = [stage |-> "inputs", listed |-> listed]
               \/ sweep' = [sweep EXCEPT !.stage = "idle"]
        BY <3>3 DEF Lock
      <4> HIDE DEF listed
      <4> QED  BY <3>1, <4>1
    <3> QED  BY <2>1, <3>2, <3>3
  <2>2. CASE SweepInputs \/ SweepAdapter \/ SweepResults
    BY <2>2 DEF SweepInputs, SweepAdapter, SweepResults, Goes
  <2>3. CASE SweepCommit
    <3>1. (row.expired \/ row.status \in {"completed", "failed"}) \in BOOLEAN  OBVIOUS
    <3>2. row' \in Row  BY <2>3, <3>1 DEF SweepCommit, Row
    <3>3. user' \in User /\ sweep' \in Sweep  BY <2>3 DEF SweepCommit, User
    <3> QED  BY <3>2, <3>3
  <2>4. CASE SweepDies
    BY <2>4 DEF SweepDies, rendering
  <2> QED  BY <2>1, <2>2, <2>3, <2>4 DEF Sweeps
<1> QED  BY <1>1, <1>2, <1>3, <1>4, <1>5 DEF TypeInv, RowsOK, RunsOK

LEMMA TypeStep == TypeInv /\ [Next]_vars => TypeInv'
<1> SUFFICES ASSUME TypeInv, [Next]_vars PROVE TypeInv'  OBVIOUS
<1>1. CASE UNCHANGED vars
  BY <1>1 DEF vars, rendering, custody, TypeInv, RowsOK, RunsOK
<1>2. CASE Trains
  BY <1>2, TrainsType DEF Trains
<1> QED
  BY <1>1, <1>2, RendersType, PaysType, DeletesType, SweepsType DEF Next

\* The rows, the requests, the runs and the crops keep their types through every step.
THEOREM TypeCorrect == Spec => []TypeInv
<1> QED
  BY TypeInit, TypeStep, PTL DEF Spec

-----------------------------------------------------------------------------
(* Retention.                                                              *)

\* While retention holds the lock nobody writes the users row, and the job, which is not
\* open, is not opened: only a submission opens it, and it waits for the lock.
LEMMA SparesStep == TypeInv /\ SparesThePaying /\ [Next]_vars => SparesThePaying'
<1> SUFFICES ASSUME TypeInv, SparesThePaying, [Next]_vars, Locked'
             PROVE  (Due /\ ~Open)'
  BY DEF SparesThePaying
<1> USE DEF Due, Open, Locked
<1>1. CASE UNCHANGED vars
  BY <1>1 DEF vars, rendering, custody, SparesThePaying
<1>2. CASE Trains
  <2>1. row' = row /\ sweep' = sweep  BY <1>2, TrainsType DEF Trains
  <2>2. user' = user
    BY <1>2, <2>1 DEF Trains, UploadPhotos, BeginTrain, WriteCrop, Purge, Reserve, ReadCrops,
       SaveAdapter, Succeeds, FailTraining, Settled
  <2> QED  BY <2>1, <2>2 DEF SparesThePaying
<1>3. CASE Renders
  <2>1. sweep' = sweep /\ row' = row  BY <1>3, RendersType DEF SparesThePaying
  <2>2. user' = user  BY <1>3, <2>1 DEF Renders, Refunded
  <2> QED  BY <2>1, <2>2 DEF SparesThePaying
<1>4. CASE Pays
  <2>1. sweep' = sweep  BY <1>4, PaysType
  <2>2. user' = user /\ row' = row
    BY <1>4, <2>1 DEF Pays, BuyPack, Subscribe, PlanEnds, DeadlinePasses, Submit, StartClock,
       Account, rendering, SparesThePaying
  <2> QED  BY <2>1, <2>2 DEF SparesThePaying
<1>5. CASE Deletes
  <2>1. sweep' = sweep  BY <1>5, DeletesType
  <2>2. user' = user /\ (row' = row \/ row'.status = "deleted")
    BY <1>5, <2>1 DEF Deletes, DeleteRow, CleanResults, DeleteAdapter, ResetModel, rendering,
       TypeInv, RowsOK, Row
  <2> QED  BY <2>1, <2>2 DEF SparesThePaying
<1>6. CASE Sweeps
  <2>1. CASE Lock
    BY <2>1 DEF Lock, rendering, TypeInv, RowsOK, Sweep
  <2>2. CASE SweepInputs \/ SweepAdapter \/ SweepResults
    BY <2>2 DEF SweepInputs, SweepAdapter, SweepResults, Goes, SparesThePaying
  <2>3. CASE List \/ SweepCommit \/ SweepDies
    BY <2>3 DEF List, SweepCommit, SweepDies, TypeInv, RowsOK, Sweep
  <2> QED  BY <1>6, <2>1, <2>2, <2>3 DEF Sweeps
<1> QED
  BY <1>1, <1>2, <1>3, <1>4, <1>5, <1>6 DEF Next

\* Retention never deletes anything of a person whose row has credits or time left, or
\* whose job is to be rendered (retention_cleanup), whatever happens beside it.
THEOREM RetentionSparesThePaying == Spec => []SparesThePaying
<1>1. Init => TypeInv /\ SparesThePaying
  <2>1. Init => SparesThePaying  BY DEF Init, SparesThePaying, Locked
  <2> QED  BY <2>1, TypeInit
<1>2. TypeInv /\ SparesThePaying /\ [Next]_vars => (TypeInv /\ SparesThePaying)'
  BY TypeStep, SparesStep
<1> QED
  BY <1>1, <1>2, PTL DEF Spec

-----------------------------------------------------------------------------
(* Crops.                                                                  *)

\* How many of the crops that a request has written a run is still to see.
Written(r) ==
  IF At(r) = "writing" THEN request[r].next
  ELSE IF At(r) = "reserving" THEN request[r].size
  ELSE IF train[r].status = "queued" THEN train[r].size ELSE 0

\* What was written is the request's own, or a rival's, or was emptied since; ...
Own == \A r \in Requests : \A i \in Crops :
         i \in 0 .. Written(r) - 1 => crops[i] \in {r, None} \cup train[r].rivals

\* ... whoever may still write is a rival; ...
Watched == \A r \in Requests :
             At(r) \in {"writing", "reserving"} \/ train[r].status = "queued" =>
               \A q \in AtWork : q # r => q \in train[r].rivals

\* ... and nobody begins beside a run that has still to read, but a rival.
Kept == \A r \in Requests :
          /\ train[r].status # "none" => At(r) = "done"
          /\ train[r].status = "queued" =>
               user.lora = "training" \/ train[r].rivals = Requests

MixInv == TypeInv /\ Own /\ Watched /\ Kept /\ MixedByRivalsOnly

\* A run that grows rivals, or ends, disturbs nothing.
LEMMA RunsMove ==
  ASSUME MixInv, TypeInv', request' = request,
         crops' = crops \/ crops' = [i \in Crops |-> None],
         \A q \in Requests :
           /\ train[q].rivals \subseteq train'[q].rivals \/ train'[q].status = "ended"
           /\ train'[q].saw = train[q].saw \/ train'[q].saw = {}
           /\ train'[q].saw # {} => train[q].rivals \subseteq train'[q].rivals
           /\ train'[q].status = "queued" =>
                /\ train[q].status = "queued" /\ train'[q].size = train[q].size
                /\ user'.lora = user.lora \/ train'[q].rivals = Requests
           /\ train'[q].status # "none" => train[q].status # "none"
           /\ At(q) # "done" => train[q].rivals \subseteq train'[q].rivals
  PROVE  MixInv'
<1> USE DEF MixInv
<1>1. AtWork' = AtWork /\ \A r \in Requests : At(r)' = At(r)
  BY DEF AtWork, At
<1>2. Watched'
  <2> SUFFICES ASSUME NEW r \in Requests, NEW q \in AtWork, q # r,
                      At(r) \in {"writing", "reserving"} \/ train'[r].status = "queued"
               PROVE  q \in train'[r].rivals
    BY <1>1 DEF Watched
  <2>1. q \in train[r].rivals  BY DEF Watched
  <2> QED  BY <2>1
<1>3. Kept'
  <2> SUFFICES ASSUME NEW r \in Requests, train'[r].status = "queued"
               PROVE  user'.lora = "training" \/ train'[r].rivals = Requests
    BY <1>1 DEF Kept
  <2>1. (user.lora = "training" \/ train[r].rivals = Requests)
    BY DEF Kept
  <2>2. train[r].rivals \subseteq train'[r].rivals
    OBVIOUS
  <2>3. train'[r].rivals \subseteq Requests
    BY DEF TypeInv, RunsOK, Run
  <2> QED  BY <2>1, <2>2, <2>3
<1>4. Own'
  <2> SUFFICES ASSUME NEW r \in Requests, NEW i \in Crops, i \in 0 .. Written(r)' - 1
               PROVE  crops'[i] \in {r, None} \cup train'[r].rivals
    BY DEF Own
  <2>1. Written(r)' = Written(r) \/ Written(r)' = 0
    BY <1>1 DEF Written
  <2>2. i \in 0 .. Written(r) - 1  BY <2>1
  <2>3. crops[i] \in {r, None} \cup train[r].rivals  BY <2>2 DEF Own
  <2>4. train[r].rivals \subseteq train'[r].rivals
    BY <1>1 DEF Written
  <2> QED  BY <2>3, <2>4
<1>5. MixedByRivalsOnly'
  BY DEF MixedByRivalsOnly
<1> QED  BY <1>2, <1>3, <1>4, <1>5

\* Steps that leave the runs alone, or only loosen their guard.
LEMMA OthersMix ==
  ASSUME MixInv, TypeInv', request' = request,
         crops' = crops \/ crops' = [i \in Crops |-> None],
         (train' = train /\ user'.lora = user.lora) \/ train' = Unguarded(train)
  PROVE  MixInv'
<1>1. train \in [Requests -> Run]  BY DEF MixInv, TypeInv, RunsOK
<1>2. CASE train' = train /\ user'.lora = user.lora
  BY <1>2, RunsMove
<1>3. CASE train' = Unguarded(train)
  BY <1>1, <1>3, UnguardedRuns, RunsMove
<1> QED  BY <1>2, <1>3

\* A request that begins becomes the rival of all at work, and meets a run that has still
\* to read only if the row does not say that one is under way.
LEMMA BeginMix ==
  ASSUME MixInv, TypeInv', NEW r \in Requests, BeginTrain(r)
  PROVE  MixInv'
<1> USE DEF MixInv
<1>1. /\ train' = Begun(r) /\ user' = user /\ crops' = crops /\ user.lora # "training"
      /\ At(r) = "idle" /\ request[r]'.step = "writing" /\ request[r]'.next = 0
      /\ \A q \in Requests : q # r => request'[q] = request[q]
  BY DEF BeginTrain, ElsewhereUnchanged, TypeInv, RunsOK
<1>2. /\ AtWork' = AtWork \cup {r} /\ r \notin AtWork
      /\ At(r)' = "writing" /\ \A q \in Requests : q # r => At(q)' = At(q)
  BY <1>1 DEF AtWork, At
<1>3. \A q \in Requests : train'[q].status = train[q].status /\ train'[q].size = train[q].size
        /\ train'[q].saw = train[q].saw /\ train[q].rivals \subseteq train'[q].rivals
  BY <1>1, BegunRuns
<1>4. Own'
  <2> SUFFICES ASSUME NEW q \in Requests, NEW i \in Crops, i \in 0 .. Written(q)' - 1
               PROVE  crops'[i] \in {q, None} \cup train'[q].rivals
    BY DEF Own
  <2>1. q # r  BY <1>1, <1>2 DEF Written
  <2>2. Written(q)' = Written(q)  BY <1>1, <1>2, <1>3, <2>1 DEF Written
  <2> QED  BY <1>1, <1>3, <2>2 DEF Own
<1>5. Kept'
  <2> SUFFICES ASSUME NEW q \in Requests, train'[q].status = "queued"
               PROVE  user'.lora = "training" \/ train'[q].rivals = Requests
    BY <1>1, <1>2, <1>3 DEF Kept
  <2>1. train[q].rivals = Requests  BY <1>1, <1>3 DEF Kept
  <2>2. train'[q].rivals \subseteq Requests  BY DEF TypeInv, RunsOK, Run
  <2> QED  BY <1>1, <1>2, <1>3, <2>1, <2>2
<1>6. Watched'
  <2> SUFFICES ASSUME NEW q \in Requests, NEW p \in AtWork', p # q,
                      At(q)' \in {"writing", "reserving"} \/ train'[q].status = "queued"
               PROVE  p \in train'[q].rivals
    BY DEF Watched
  <2>1. CASE q = r
    BY <1>1, <1>2, <2>1, BegunRuns
  <2>2. CASE q # r /\ p # r
    BY <1>2, <1>3, <2>2 DEF Watched
  <2>3. CASE q # r /\ p = r
    <3>1. CASE train'[q].status = "queued"
      BY <1>1, <1>3, <3>1 DEF Kept, AtWork
    <3>2. CASE At(q)' \in {"writing", "reserving"}
      BY <1>1, <1>2, <2>3, <3>2, BegunRuns DEF AtWork
    <3> QED  BY <3>1, <3>2
  <2> QED  BY <2>1, <2>2, <2>3
<1>7. MixedByRivalsOnly'  BY <1>3 DEF MixedByRivalsOnly
<1> QED  BY <1>4, <1>5, <1>6, <1>7

\* A crop is written over those of rivals only, and purging leaves the crops alone.
LEMMA WriteMix ==
  ASSUME MixInv, TypeInv', NEW r \in Requests, WriteCrop(r) \/ Purge(r)
  PROVE  MixInv'
<1> USE DEF MixInv
<1>1. /\ train' = train /\ user' = user /\ At(r) = "writing"
      /\ At(r)' \in {"writing", "reserving"} /\ r \in AtWork
      /\ \A q \in Requests : q # r => request'[q] = request[q]
  BY DEF WriteCrop, Purge, ElsewhereUnchanged, TypeInv, RunsOK, Request, At, AtWork
<1>2. AtWork' = AtWork /\ \A q \in Requests : q # r => At(q)' = At(q)
  BY <1>1 DEF AtWork, At
<1>3. Watched'
  BY <1>1, <1>2 DEF Watched
<1>4. Kept'
  BY <1>1, <1>2 DEF Kept
<1>5. MixedByRivalsOnly'
  BY <1>1 DEF MixedByRivalsOnly
<1>6. Own'
  <2> SUFFICES ASSUME NEW q \in Requests, NEW i \in Crops, i \in 0 .. Written(q)' - 1
               PROVE  crops'[i] \in {q, None} \cup train[q].rivals
    BY <1>1 DEF Own
  <2>1. CASE q = r /\ Purge(r)
    <3>1. Written(r)' = Written(r) /\ crops' = crops
      BY <1>1, <2>1 DEF Purge, Written, At, TypeInv, RunsOK, Request
    <3> QED  BY <2>1, <3>1 DEF Own
  <2>2. CASE q = r /\ WriteCrop(r)
    <3>1. /\ Written(r) = request[r].next /\ Written(r)' = request[r].next + 1
          /\ crops' = [crops EXCEPT ![request[r].next] = r] /\ request[r].next \in Nat
      BY <1>1, <2>2 DEF WriteCrop, Written, At, TypeInv, RunsOK, Request
    <3>2. CASE i = request[r].next
      BY <2>2, <3>1, <3>2 DEF TypeInv, RunsOK
    <3>3. CASE i # request[r].next
      <4>1. i \in 0 .. Written(r) - 1  BY <2>2, <3>1, <3>3
      <4>2. crops'[i] = crops[i]  BY <3>1, <3>3 DEF TypeInv, RunsOK
      <4> QED  BY <2>2, <4>1, <4>2 DEF Own
    <3> QED  BY <3>2, <3>3
  <2>3. CASE q # r
    <3>1. Written(q)' = Written(q)
      BY <1>1, <1>2, <2>3 DEF Written
    <3>2. crops[i] \in {q, None} \cup train[q].rivals
      BY <3>1 DEF Own
    <3>3. crops'[i] = crops[i] \/ crops'[i] = r
      BY DEF WriteCrop, Purge, ElsewhereUnchanged, TypeInv, RunsOK
    <3>4. At(q) \in {"writing", "reserving"} \/ train[q].status = "queued"
      BY <3>1 DEF Written
    <3> QED  BY <1>1, <2>3, <3>2, <3>3, <3>4 DEF Watched
  <2> QED  BY <2>1, <2>2, <2>3
<1> QED  BY <1>3, <1>4, <1>5, <1>6

\* A slot is reserved by a request with all its crops, and the row says that a run is
\* under way.
LEMMA ReserveMix ==
  ASSUME MixInv, TypeInv', NEW r \in Requests, Reserve(r)
  PROVE  MixInv'
<1> USE DEF MixInv
<1>1. /\ At(r) = "reserving" /\ At(r)' = "done" /\ crops' = crops
      /\ \A q \in Requests : q # r => request'[q] = request[q] /\ train'[q] = train[q]
  BY DEF Reserve, ElsewhereUnchanged, TypeInv, RunsOK, At, Over
<1>2. AtWork' = AtWork \ {r} /\ \A q \in Requests : q # r => At(q)' = At(q)
  BY <1>1 DEF AtWork, At
<1>3. \/ /\ train'[r].status = "queued" /\ train'[r].size = request[r].size
         /\ train'[r].rivals = train[r].rivals /\ train'[r].saw = train[r].saw
         /\ user'.lora = "training"
      \/ train'[r] = Ended /\ user' = user
  <2>1. CASE train' = [train EXCEPT ![r] = Ended] /\ user' = user
    BY <2>1 DEF TypeInv, RunsOK
  <2>2. ASSUME NEW fee \in {0, Fee},
               user' = [user EXCEPT !.lora = "training", !.credits = @ - fee],
               train' = [train EXCEPT ![r] =
                 [@ EXCEPT !.status = "queued", !.size = request[r].size, !.fee = fee]]
        PROVE  /\ train'[r].status = "queued" /\ train'[r].size = request[r].size
               /\ train'[r].rivals = train[r].rivals /\ train'[r].saw = train[r].saw
               /\ user'.lora = "training"
    <3>1. train[r] \in Run /\ user \in User  BY DEF TypeInv, RunsOK, RowsOK
    <3>2. train'[r] =
            [train[r] EXCEPT !.status = "queued", !.size = request[r].size, !.fee = fee]
      BY <2>2 DEF TypeInv, RunsOK
    <3>3. user'.lora = "training"  BY <2>2, <3>1 DEF User
    <3> QED  BY <3>1, <3>2, <3>3 DEF Run
  <2> QED  BY <2>1, <2>2 DEF Reserve
<1>4. Ended.status = "ended" /\ Ended.saw = {}
  BY DEF Ended, NoRun
<1>5. Watched'
  <2> SUFFICES ASSUME NEW q \in Requests, NEW p \in AtWork', p # q,
                      At(q)' \in {"writing", "reserving"} \/ train'[q].status = "queued"
               PROVE  p \in train'[q].rivals
    BY DEF Watched
  <2>1. CASE q = r
    BY <1>1, <1>2, <1>3, <1>4, <2>1 DEF Watched
  <2>2. CASE q # r
    BY <1>1, <1>2, <2>2 DEF Watched
  <2> QED  BY <2>1, <2>2
<1>6. Kept'
  <2> SUFFICES ASSUME NEW q \in Requests, train'[q].status = "queued"
               PROVE  user'.lora = "training" \/ train'[q].rivals = Requests
    BY <1>1, <1>2 DEF Kept
  <2>1. CASE q = r
    BY <1>1, <1>3, <1>4, <2>1
  <2>2. CASE q # r
    BY <1>1, <1>2, <1>3, <2>2 DEF Kept
  <2> QED  BY <2>1, <2>2
<1>7. MixedByRivalsOnly'
  BY <1>1, <1>3, <1>4 DEF MixedByRivalsOnly
<1>8. Own'
  <2> SUFFICES ASSUME NEW q \in Requests, NEW i \in Crops, i \in 0 .. Written(q)' - 1
               PROVE  crops'[i] \in {q, None} \cup train'[q].rivals
    BY DEF Own
  <2>1. CASE q = r
    <3>1. /\ Written(r)' = Written(r) /\ train'[r].rivals = train[r].rivals
          \/ Written(r)' = 0
      BY <1>1, <1>3, <1>4 DEF Written
    <3>2. Written(r)' = Written(r) /\ train'[r].rivals = train[r].rivals  BY <2>1, <3>1
    <3> QED  BY <1>1, <2>1, <3>2 DEF Own
  <2>2. CASE q # r
    <3>1. Written(q)' = Written(q)  BY <1>1, <1>2, <2>2 DEF Written
    <3> QED  BY <1>1, <2>2, <3>1 DEF Own
  <2> QED  BY <2>1, <2>2
<1> QED  BY <1>5, <1>6, <1>7, <1>8

\* What a run sees is what was written for it.
LEMMA ReadMix ==
  ASSUME MixInv, TypeInv', NEW r \in Requests, ReadCrops(r)
  PROVE  MixInv'
<1> USE DEF MixInv
<1> DEFINE list == 0 .. train[r].size - 1
           saw == {crops[i] : i \in list}
<1>1. /\ UNCHANGED <<user, request, crops>> /\ train[r].status = "queued"
      /\ train' = [train EXCEPT ![r].status = "running", ![r].saw = saw]
      /\ \A i \in list : crops[i] # None
  BY DEF ReadCrops, ElsewhereUnchanged
<1>2. train[r] \in Run /\ At(r) = "done"  BY <1>1 DEF Kept, TypeInv, RunsOK
<1> HIDE DEF saw
<1>3. /\ train'[r].status = "running" /\ train'[r].saw = saw
      /\ train'[r].rivals = train[r].rivals
      /\ \A q \in Requests : q # r => train'[q] = train[q]
  <2>1. train' = [train EXCEPT ![r] = [train[r] EXCEPT !.status = "running", !.saw = saw]]
    BY <1>1 DEF TypeInv, RunsOK
  <2>2. train'[r] = [train[r] EXCEPT !.status = "running", !.saw = saw]
    BY <2>1 DEF TypeInv, RunsOK
  <2> QED  BY <1>2, <2>1, <2>2 DEF TypeInv, RunsOK, Run
<1>4. AtWork' = AtWork /\ \A q \in Requests : At(q)' = At(q)
  BY <1>1 DEF AtWork, At
<1>5. Watched'
  BY <1>2, <1>3, <1>4 DEF Watched
<1>6. Kept'
  BY <1>1, <1>3, <1>4 DEF Kept
<1>7. MixedByRivalsOnly'
  <2>1. list \subseteq Crops  BY <1>2 DEF Run
  <2>2. Written(r) = train[r].size  BY <1>1, <1>2 DEF Written
  <2>3. saw \subseteq {r} \cup train[r].rivals  BY <1>1, <2>1, <2>2 DEF Own, saw
  <2> QED  BY <1>3, <2>3 DEF MixedByRivalsOnly
<1>8. Own'
  <2> SUFFICES ASSUME NEW q \in Requests, NEW i \in Crops, i \in 0 .. Written(q)' - 1
               PROVE  crops'[i] \in {q, None} \cup train'[q].rivals
    BY DEF Own
  <2>1. request' = request /\ crops' = crops  BY <1>1
  <2>2. q # r
    <3>1. Written(r)' = 0  BY <1>2, <1>3, <1>4 DEF Written
    <3> QED  BY <3>1
  <2>3. Written(q)' = Written(q)
    BY <1>3, <1>4, <2>1, <2>2 DEF Written
  <2> QED  BY <1>3, <2>1, <2>2, <2>3 DEF Own
<1> QED  BY <1>5, <1>6, <1>7, <1>8

\* A run that saves its adapter, or is settled.
LEMMA RunMix ==
  ASSUME MixInv, TypeInv', NEW r \in Requests,
         SaveAdapter(r) \/ Succeeds(r) \/ FailTraining(r)
  PROVE  MixInv'
<1> USE DEF MixInv
<1>0. At(r) = "done"
  BY DEF SaveAdapter, Succeeds, FailTraining, Kept
<1>1. CASE SaveAdapter(r)
  <2>1. /\ UNCHANGED <<user, request, crops>> /\ train'[r].status = "saved"
        /\ train'[r].rivals = train[r].rivals /\ train'[r].saw = train[r].saw
        /\ \A q \in Requests : q # r => train'[q] = train[q]
    BY <1>1 DEF SaveAdapter, ElsewhereUnchanged, TypeInv, RunsOK, Run
  <2> QED  BY <1>0, <1>1, <2>1, RunsMove DEF SaveAdapter
<1>2. CASE Succeeds(r) \/ FailTraining(r)
  <2> DEFINE runs == [train EXCEPT ![r] = Ended]
  <2>1. UNCHANGED <<request, crops>> /\ train' = Unguarded(runs)
    BY <1>2 DEF Succeeds, FailTraining, Settled
  <2>2. /\ runs \in [Requests -> Run] /\ runs[r].status = "ended" /\ runs[r].saw = {}
        /\ \A q \in Requests : q # r => runs[q] = train[q]
    BY DEF TypeInv, RunsOK, Run, Ended, NoRun
  <2> HIDE DEF runs
  <2>3. train[r].status # "none"
    BY <1>2 DEF Succeeds, FailTraining
  <2> QED  BY <1>0, <2>1, <2>2, <2>3, UnguardedRuns, RunsMove
<1> QED  BY <1>1, <1>2

LEMMA MixStep == MixInv /\ [Next]_vars => MixInv'
<1> SUFFICES ASSUME MixInv, [Next]_vars PROVE MixInv'  OBVIOUS
<1>1. TypeInv /\ TypeInv'  BY TypeStep DEF MixInv
<1>2. CASE UNCHANGED vars
  BY <1>1, <1>2, OthersMix DEF vars, rendering, custody
<1>3. CASE Trains
  <2>1. PICK r \in Requests :
          \/ UploadPhotos(r) \/ BeginTrain(r) \/ WriteCrop(r) \/ Purge(r) \/ Reserve(r)
          \/ ReadCrops(r) \/ SaveAdapter(r) \/ Succeeds(r) \/ FailTraining(r)
    BY <1>3 DEF Trains
  <2>2. CASE UploadPhotos(r)
    BY <1>1, <2>2, OthersMix DEF UploadPhotos, rendering
  <2> QED
    BY <1>1, <2>1, <2>2, BeginMix, WriteMix, ReserveMix, ReadMix, RunMix
<1>4. CASE Renders
  <2>1. UNCHANGED <<request, train, crops>>  BY <1>1, <1>4, RendersType
  <2>2. user'.lora = user.lora  BY <1>1, <1>4 DEF Renders, Refunded, TypeInv, RowsOK, User
  <2> QED  BY <1>1, <2>1, <2>2, OthersMix
<1>5. CASE Pays
  <2>1. UNCHANGED <<request, train, crops>>  BY <1>1, <1>5, PaysType
  <2>2. user'.lora = user.lora
    BY <1>1, <1>5 DEF Pays, BuyPack, Subscribe, PlanEnds, DeadlinePasses, Submit, StartClock,
       TypeInv, RowsOK, User
  <2> QED  BY <1>1, <2>1, <2>2, OthersMix
<1>6. CASE Deletes
  <2>1. UNCHANGED <<request, crops>>  BY <1>1, <1>6, DeletesType
  <2>2. train' = Unguarded(train) \/ (train' = train /\ user' = user)
    BY <1>6 DEF Deletes, DeleteRow, CleanResults, DeleteAdapter, ResetModel
  <2> QED  BY <1>1, <2>1, <2>2, OthersMix
<1>7. CASE Sweeps
  <2>1. request' = request /\ (crops' = crops \/ crops' = [i \in Crops |-> None])
    BY <1>1, <1>7, SweepsType
  <2>2. train' = Unguarded(train) \/ (train' = train /\ user' = user)
    BY <1>7 DEF Sweeps, List, Lock, SweepInputs, SweepAdapter, SweepResults, SweepCommit,
       SweepDies, Goes
  <2> QED  BY <1>1, <2>1, <2>2, OthersMix
<1> QED
  BY <1>2, <1>3, <1>4, <1>5, <1>6, <1>7 DEF Next

\* A run is trained on its own crops and on those of requests that were at work beside it
\* (start_training, run_training.py): one that follows another never mixes with it.
THEOREM RunsMixRivalsOnly == Spec => []MixedByRivalsOnly
<1>1. Init => MixInv
  <2> SUFFICES ASSUME Init PROVE MixInv  OBVIOUS
  <2>1. TypeInv  BY TypeInit
  <2>2. \A r \in Requests : At(r) = "idle" /\ train[r] = NoRun
    BY DEF Init, At
  <2>3. NoRun.status = "none" /\ NoRun.saw = {}  BY DEF NoRun
  <2>4. Own  BY <2>2, <2>3 DEF Own, Written
  <2>5. Watched /\ Kept  BY <2>2, <2>3 DEF Watched, Kept
  <2>6. MixedByRivalsOnly  BY <2>2, <2>3 DEF MixedByRivalsOnly
  <2> QED  BY <2>1, <2>4, <2>5, <2>6 DEF MixInv
<1>2. MixInv => MixedByRivalsOnly  BY DEF MixInv
<1> QED
  BY <1>1, <1>2, MixStep, PTL DEF Spec

-----------------------------------------------------------------------------
(* What the container has in its memory.                                   *)

Image == [slot : Slots \cup {None}, score : Nat, rough : BOOLEAN, blank : BOOLEAN]
Scored == [key : Slots, score : Nat]
Progress == [step : {"off", "model", "identity", "reference", "generate", "gate", "enhance",
                     "faces", "upload", "failing", "done", "dead"},
             gate : BOOLEAN, round : Nat, used : Int, next : Nat, lost : SUBSET Slots]

MemoryOK ==
  /\ run \in Progress
  /\ image \in [Slots -> Image] /\ cand \in [Slots -> Seq(Scored)]
  /\ blobs \in [Slots -> Slots \cup {None}]

\* x is the first of the best candidates of c.
First(c, x) == x \in DOMAIN c /\ \A y \in DOMAIN c :
  c[y].score < c[x].score \/ (c[y].score = c[x].score /\ x <= y)

\* The winners have been selected, and are not delivered yet.
Chosen == run.step \in {"enhance", "faces", "upload"}

\* Every slot has candidates, one of them the first of the best, and then a winner; and
\* under every key there is an image.
Drawn ==
  /\ run.step = "gate" \/ Chosen =>
       \A s \in Slots : image[s].slot # None /\ \E x \in DOMAIN cand[s] : First(cand[s], x)
  /\ Chosen => \A s \in Slots : cand[s] # <<>>

\* Nothing is counted as delivered before the upload.
Fresh == run.step \notin {"upload", "failing"} => run.next = 0

\* While no slot has been retried, every slot has the one candidate drawn for it, whose
\* image and score are under its own key; ...
Faithful == run.round = 0 /\ (run.step = "gate" \/ Chosen) =>
  \A s \in Slots :
    /\ image[s].slot = s
    /\ cand[s] = <<[key |-> s, score |-> image[s].score]>>

\* ... and what has passed a stage has one image that the stage did not fail on.
Enhanced == run.round = 0 /\ run.step \in {"faces", "upload"} =>
  \E s \in Slots : ~image[s].rough
Faced == run.round = 0 /\ run.step = "upload" => \E s \in Slots : ~image[s].blank

RenderInv == MemoryOK /\ Drawn /\ Fresh /\ Faithful /\ Enhanced /\ Faced

LEMMA SlotsAreCount == IsFiniteSet(Slots) /\ Cardinality(Slots) = Count /\ 0 \in Slots
<1>1. 0 \in Int /\ Count - 1 \in Int  OBVIOUS
<1>2. /\ IsFiniteSet(0 .. Count - 1)
      /\ Cardinality(0 .. Count - 1) = IF 0 > Count - 1 THEN 0 ELSE (Count - 1) - 0 + 1
  BY <1>1, FS_Interval, Zenon
<1> QED  BY <1>2 DEF Slots

LEMMA RetriedSlots == Retried \subseteq Slots /\ Cardinality(Retried) \in Nat
<1>1. Retried \subseteq Slots  BY DEF Retried, Failing
<1> QED  BY <1>1, SlotsAreCount, FS_Subset, FS_CardinalityType

\* The retried slots before a slot are fewer than the slots, so that the keys of a round of
\* retries are keys of the first one.
LEMMA KeyIsSlot == ASSUME NEW s \in Slots PROVE KeyOf(s) \in Slots
<1> DEFINE before == {t \in Retried : t < s}
<1>1. before \subseteq Slots /\ s \notin before
  <2>1. before \subseteq Slots  BY RetriedSlots
  <2>2. s \in Int /\ ~(s < s)  BY DEF Slots
  <2> QED  BY <2>1, <2>2
<1>2. before \in SUBSET Slots /\ before # Slots  BY <1>1
<1>3. IsFiniteSet(before) /\ Cardinality(before) <= Count /\ Cardinality(before) # Count
  BY <1>2, SlotsAreCount, FS_Subset
<1>4. Cardinality(before) \in Nat  BY <1>3, FS_CardinalityType
<1> HIDE DEF before
<1>5. Cardinality(before) \in Slots  BY <1>3, <1>4 DEF Slots
<1> QED  BY <1>5 DEF KeyOf, before

LEMMA BestIsFirst ==
  ASSUME NEW c, \E x \in DOMAIN c : First(c, x)
  PROVE  First(c, Best(c))
BY DEF Best, First

\* A candidate more: it is the first of the best only if it is better than all before it.
LEMMA AppendHasFirst ==
  ASSUME NEW c \in Seq(Scored), NEW e \in Scored, \E x \in DOMAIN c : First(c, x)
  PROVE  \E x \in DOMAIN Append(c, e) : First(Append(c, e), x)
<1> DEFINE d == Append(c, e)
<1>1. PICK x \in DOMAIN c : First(c, x)  OBVIOUS
<1>2. /\ Len(c) \in Nat /\ DOMAIN c = 1 .. Len(c) /\ DOMAIN d = 1 .. Len(c) + 1
      /\ d[Len(c) + 1] = e /\ \A y \in DOMAIN c : d[y] = c[y] /\ c[y] \in Scored
  BY AppendProperties, LenProperties, ElementOfSeq
<1> HIDE DEF d
<1>3. \A y \in DOMAIN c : c[y].score \in Nat  BY <1>2 DEF Scored
<1>4. e.score \in Nat  BY DEF Scored
<1>5. CASE e.score > c[x].score
  <2>1. ASSUME NEW y \in DOMAIN d, y # Len(c) + 1 PROVE d[y].score < e.score
    <3>1. y \in DOMAIN c /\ d[y] = c[y]  BY <1>2, <2>1
    <3>2. c[y].score <= c[x].score  BY <1>1, <1>3, <3>1 DEF First
    <3> QED  BY <1>1, <1>3, <1>4, <1>5, <3>1, <3>2
  <2>2. First(d, Len(c) + 1)  BY ONLY <1>2, <2>1 DEF First
  <2> QED  BY <2>2 DEF First, d
<1>6. CASE ~(e.score > c[x].score)
  <2>1. First(d, x)
    BY <1>1, <1>2, <1>3, <1>4, <1>6 DEF First
  <2> QED  BY <2>1 DEF First, d
<1> QED  BY <1>5, <1>6

\* The container's steps up to its candidates, and those that end it.
LEMMA EarlySteps ==
  ASSUME RenderInv,
         Boot \/ LoadModel \/ LoadIdentity \/ LoadReference \/ Complete \/ Raise \/ Dies \/ Fail
  PROVE  RenderInv'
<1> USE DEF RenderInv, MemoryOK
<1>1. blobs' = blobs
  BY DEF Boot, LoadModel, LoadIdentity, LoadReference, Complete, Raise, Dies, Fail, Inside
<1>2. /\ run' \in Progress /\ run'.step \notin {"gate", "enhance", "faces", "upload"}
      /\ run'.step = "failing" \/ run'.next = 0
      /\ image' \in [Slots -> Image] /\ cand' \in [Slots -> Seq(Scored)]
  <2>1. NoImages \in [Slots -> Image] /\ NoCandidates \in [Slots -> Seq(Scored)]
    BY DEF NoImages, NoCandidates, Image
  <2>2. ASSUME NEW to \in {"done", "dead"}, run' = [Off EXCEPT !.step = to]
        PROVE  run' \in Progress /\ run'.step = to /\ run'.next = 0
    <3>1. run' = [step |-> to, gate |-> FALSE, round |-> 0, used |-> 0, next |-> 0, lost |-> {}]
      BY <2>2 DEF Off
    <3> QED  BY <3>1 DEF Progress
  <2>3. ASSUME NEW to \in {"model", "identity", "reference", "generate", "failing"},
               run' = [run EXCEPT !.step = to], to = "failing" \/ run.next = 0
        PROVE  run' \in Progress /\ run'.step = to /\ (to = "failing" \/ run'.next = 0)
    BY <2>3 DEF Progress
  <2>4. CASE image' = NoImages /\ cand' = NoCandidates
             /\ \E to \in {"done", "dead"} : run' = [Off EXCEPT !.step = to]
    BY <2>1, <2>2, <2>4
  <2>5. CASE image' = image /\ cand' = cand
             /\ \E to \in {"model", "identity", "reference", "generate", "failing"} :
                  run' = [run EXCEPT !.step = to] /\ (to = "failing" \/ run.next = 0)
    BY <2>3, <2>5
  <2>6. CASE Boot
    BY <2>4, <2>5, <2>6 DEF Boot, Go, Exit, Fresh
  <2>7. CASE LoadModel \/ LoadIdentity \/ LoadReference \/ Raise
    BY <2>5, <2>7 DEF LoadModel, LoadIdentity, LoadReference, Raise, Go, Fresh
  <2>8. CASE Complete
    BY <2>4, <2>5, <2>8 DEF Complete, Go, Exit
  <2>9. CASE Dies \/ Fail
    BY <2>4, <2>9 DEF Dies, Fail, Exit
  <2> QED  BY <2>6, <2>7, <2>8, <2>9
<1> QED
  BY <1>1, <1>2 DEF Drawn, Chosen, Fresh, Faithful, Enhanced, Faced

LEMMA RetryRun ==
  ASSUME NEW r \in Progress, NEW n \in Int
  PROVE  /\ [r EXCEPT !.round = @ + 1, !.used = @ + n] \in Progress
         /\ [r EXCEPT !.round = @ + 1, !.used = @ + n].step = r.step
         /\ [r EXCEPT !.round = @ + 1, !.used = @ + n].round = r.round + 1
         /\ [r EXCEPT !.round = @ + 1, !.used = @ + n].next = r.next
<1>1. r.round + 1 \in Nat /\ r.used + n \in Int  BY DEF Progress
<1> QED  BY <1>1 DEF Progress

LEMMA OneIsFirst == ASSUME NEW e, e.score \in Nat PROVE First(<<e>>, 1)
<1> DEFINE c == <<e>>
<1>1. DOMAIN c = {1} /\ c[1] = e  OBVIOUS
<1> HIDE DEF c
<1>2. \A y \in DOMAIN c : y = 1  BY <1>1
<1>3. First(c, 1)  BY <1>1, <1>2 DEF First
<1> QED  BY <1>3 DEF c

LEMMA GenerateStep == ASSUME RenderInv, Generate PROVE RenderInv'
<1> USE DEF RenderInv, MemoryOK
<1>1. PICK gate \in Gates : \E score \in [Prompts -> Graded(gate)] :
        /\ image' = [s \in Slots |-> Rendered(s, score[s])]
        /\ cand' = [s \in Slots |-> <<[key |-> s, score |-> score[s]]>>]
        /\ run' = [run EXCEPT !.step = "gate", !.gate = gate, !.used = Count]
  BY Zenon DEF Generate
<1>2. PICK score \in [Slots -> Nat] :
        /\ image' = [s \in Slots |-> Rendered(s, score[s])]
        /\ cand' = [s \in Slots |-> <<[key |-> s, score |-> score[s]]>>]
  <2>1. Graded(gate) \subseteq Nat  BY DEF Graded
  <2>2. \A score \in [Prompts -> Graded(gate)] : score \in [Slots -> Nat]
    BY <2>1 DEF Prompts
  <2> QED  BY <1>1, <2>2, Zenon
<1>3. run' \in Progress /\ run'.step = "gate" /\ run'.next = run.next /\ run.next = 0
  <2> DEFINE at == "gate"
  <2>1. run' = [run EXCEPT !.step = at, !.gate = gate, !.used = Count]
    BY <1>1, Zenon
  <2>2. at \in {"off", "model", "identity", "reference", "generate", "gate", "enhance",
              "faces", "upload", "failing", "done", "dead"}
    OBVIOUS
  <2>3. run.step = "generate"  BY Zenon DEF Generate
  <2>4. gate \in BOOLEAN /\ Count \in Int /\ run \in Progress  OBVIOUS
  <2> HIDE DEF at
  <2>5. run' \in Progress /\ run'.step = at /\ run'.next = run.next
    BY ONLY <2>1, <2>2, <2>4 DEF Progress
  <2> QED  BY <2>3, <2>5 DEF Fresh, at
<1>4. \A s \in Slots :
        /\ image'[s] = Rendered(s, score[s]) /\ score[s] \in Nat
        /\ image'[s].slot = s /\ image'[s].score = score[s]
        /\ cand'[s] = <<[key |-> s, score |-> score[s]]>>
  BY <1>2 DEF Rendered
<1>5. image' \in [Slots -> Image]
  BY <1>2, <1>4 DEF Rendered, Image
<1>6. \A s \in Slots : [key |-> s, score |-> score[s]] \in Scored
  BY <1>4 DEF Scored
<1>7. cand' \in [Slots -> Seq(Scored)]
  BY <1>2, <1>6
<1>8. ASSUME NEW s \in Slots
      PROVE  First(cand'[s], 1) /\ image'[s].slot # None
  <2> DEFINE e == [key |-> s, score |-> score[s]]
  <2>0. e.score \in Nat /\ cand'[s] = <<e>>  BY <1>4
  <2> HIDE DEF e
  <2>1. First(cand'[s], 1)  BY <2>0, OneIsFirst
  <2>2. s # None  BY DEF Slots
  <2>3. image'[s].slot = s  BY <1>4
  <2> QED  BY <2>1, <2>2, <2>3
<1>9. blobs' = blobs  BY Zenon DEF Generate, Inside
<1>10. Drawn'
  <2>1. ASSUME NEW s \in Slots PROVE \E x \in DOMAIN cand'[s] : First(cand'[s], x)
    BY <1>8 DEF First
  <2> QED  BY <1>3, <1>8, <2>1 DEF Drawn, Chosen, First
<1>11. Faithful'
  BY <1>4 DEF Faithful
<1>12. Fresh' /\ Enhanced' /\ Faced'
  BY <1>3 DEF Fresh, Enhanced, Faced
<1> QED  BY <1>3, <1>5, <1>7, <1>9, <1>10, <1>11, <1>12

LEMMA RetryStep == ASSUME RenderInv, Retry PROVE RenderInv'
<1> USE DEF RenderInv, MemoryOK
<1>1. PICK score \in [Retried -> Scores] :
        /\ image' = [k \in Slots |-> IF \E s \in Retried : KeyOf(s) = k
             THEN LET s == CHOOSE s \in Retried : KeyOf(s) = k IN Rendered(s, score[s])
             ELSE image[k]]
        /\ cand' = [s \in Slots |-> IF s \in Retried
             THEN Append(cand[s], [key |-> KeyOf(s), score |-> score[s]]) ELSE cand[s]]
  BY DEF Retry
<1>2. /\ run' = [run EXCEPT !.round = @ + 1, !.used = @ + Cardinality(Retried)]
      /\ blobs' = blobs /\ run.step = "gate"
  BY DEF Retry, Inside
<1>3. /\ run' \in Progress /\ run'.step = "gate" /\ run'.round # 0 /\ run'.next = 0
  <2> DEFINE n == Cardinality(Retried)
  <2>1. n \in Int  BY RetriedSlots
  <2> HIDE DEF n
  <2>2. run' = [run EXCEPT !.round = @ + 1, !.used = @ + n]
    BY <1>2 DEF n
  <2>3. run \in Progress  OBVIOUS
  <2>4. /\ run' \in Progress /\ run'.step = run.step /\ run'.round = run.round + 1
        /\ run'.next = run.next
    BY ONLY <2>1, <2>2, <2>3, RetryRun, Zenon
  <2> QED  BY <1>2, <2>3, <2>4 DEF Progress, Fresh
<1>4. \A s \in Retried : s \in Slots /\ score[s] \in Nat /\ Rendered(s, score[s]) \in Image
        /\ Rendered(s, score[s]).slot = s
  BY RetriedSlots DEF Rendered, Image
<1>5. ASSUME NEW k \in Slots
      PROVE  image'[k] \in Image /\ image'[k].slot # None
  <2>1. CASE \E s \in Retried : KeyOf(s) = k
    <3> DEFINE t == CHOOSE s \in Retried : KeyOf(s) = k
    <3>1. t \in Retried  BY <2>1
    <3>2. image'[k] = Rendered(t, score[t])  BY <1>1, <2>1
    <3> HIDE DEF t
    <3> QED  BY <1>4, <3>1, <3>2 DEF Slots
  <2>2. CASE ~ \E s \in Retried : KeyOf(s) = k
    BY <1>1, <1>2, <2>2 DEF Drawn
  <2> QED  BY <2>1, <2>2
<1>6. image' \in [Slots -> Image]  BY <1>1, <1>5
<1>7. ASSUME NEW s \in Slots
      PROVE  cand'[s] \in Seq(Scored) /\ \E x \in DOMAIN cand'[s] : First(cand'[s], x)
  <2>1. cand[s] \in Seq(Scored) /\ \E x \in DOMAIN cand[s] : First(cand[s], x)
    BY <1>2 DEF Drawn
  <2>2. CASE s \in Retried
    <3> DEFINE e == [key |-> KeyOf(s), score |-> score[s]]
    <3>1. e \in Scored  BY <1>4, <2>2, KeyIsSlot DEF Scored
    <3>2. cand'[s] = Append(cand[s], e)  BY <1>1, <2>2
    <3> HIDE DEF e
    <3> QED  BY <2>1, <3>1, <3>2, AppendHasFirst, AppendProperties
  <2>3. CASE s \notin Retried
    BY <1>1, <2>1, <2>3
  <2> QED  BY <2>2, <2>3
<1>8. cand' \in [Slots -> Seq(Scored)]  BY <1>1, <1>7
<1> QED
  BY <1>2, <1>3, <1>5, <1>6, <1>7, <1>8
     DEF Drawn, Chosen, Fresh, Faithful, Enhanced, Faced

LEMMA SelectStep == ASSUME RenderInv, Select PROVE RenderInv'
<1> USE DEF RenderInv, MemoryOK
<1>1. /\ run.step = "gate" /\ run' = [run EXCEPT !.step = "enhance"]
      /\ cand' = [s \in Slots |-> <<cand[s][Best(cand[s])]>>]
      /\ UNCHANGED <<image, blobs>>
  BY DEF Select, Go, Inside
<1>2. /\ run' \in Progress /\ run'.step = "enhance" /\ run'.round = run.round
      /\ run'.next = 0
  BY <1>1 DEF Progress, Fresh
<1>3. ASSUME NEW s \in Slots
      PROVE  /\ cand[s][Best(cand[s])] \in Scored
             /\ run.round = 0 => Best(cand[s]) = 1
  <2>1. Best(cand[s]) \in DOMAIN cand[s]
    BY <1>1, BestIsFirst DEF Drawn, First
  <2>2. cand[s][Best(cand[s])] \in Scored
    BY <2>1, LenProperties, ElementOfSeq
  <2>3. run.round = 0 => DOMAIN cand[s] = {1}
    BY <1>1 DEF Faithful
  <2> QED  BY <2>1, <2>2, <2>3
<1>4. cand' \in [Slots -> Seq(Scored)]
  BY <1>1, <1>3
<1>5. ASSUME NEW s \in Slots
      PROVE  cand'[s] # <<>> /\ \E x \in DOMAIN cand'[s] : First(cand'[s], x)
  <2>1. First(cand'[s], 1)  BY <1>1, <1>3 DEF First, Scored
  <2> QED  BY <1>1, <2>1 DEF First
<1>6. ASSUME NEW s \in Slots, run.round = 0
      PROVE  cand'[s] = cand[s]
  BY <1>1, <1>3, <1>6 DEF Faithful
<1> QED
  BY <1>1, <1>2, <1>4, <1>5, <1>6
     DEF Drawn, Chosen, Fresh, Faithful, Enhanced, Faced

\* A step that leaves the candidates, the slots and the scores of the images alone.
LEMMA StillDrawn ==
  ASSUME Drawn, Faithful, Chosen, cand' = cand, run'.round = run.round,
         \A k \in Slots : image'[k].slot = image[k].slot /\ image'[k].score = image[k].score
  PROVE  Drawn' /\ Faithful'
<1>1. ASSUME NEW s \in Slots
      PROVE  /\ image'[s].slot # None /\ cand'[s] # <<>>
             /\ \E x \in DOMAIN cand'[s] : First(cand'[s], x)
  BY DEF Drawn
<1>2. Drawn'  BY <1>1 DEF Drawn, First
<1>3. ASSUME run.round = 0, NEW s \in Slots
      PROVE  image'[s].slot = s /\ cand'[s] = <<[key |-> s, score |-> image'[s].score]>>
  BY <1>3 DEF Faithful
<1>4. Faithful'  BY <1>3 DEF Faithful
<1> QED  BY <1>2, <1>4

\* Of the images of different slots that a stage was tried on, it did not fail on all.
LEMMA EnhanceStep == ASSUME RenderInv, Enhance PROVE RenderInv'
<1> USE DEF RenderInv, MemoryOK
<1>1. PICK o \in Outcomes :
        /\ image' = [k \in Slots |->
             LET users == {s \in Slots : Winner(s).key = k} IN
             [image[k] EXCEPT !.rough = \E s \in users \cap o.failed : \A t \in users : t <= s]]
        /\ run' = [run EXCEPT !.step =
             IF o.tried # {} /\ o.failed = o.tried THEN "failing" ELSE "faces"]
  BY Zenon DEF Enhance
<1>2. run.step = "enhance" /\ cand' = cand /\ blobs' = blobs
  BY Zenon DEF Enhance, Inside
<1>3. o.tried \subseteq Slots /\ o.failed \subseteq o.tried  BY DEF Outcomes
<1>4. /\ run' \in Progress /\ run'.round = run.round /\ run'.next = 0
      /\ run'.step = IF o.tried # {} /\ o.failed = o.tried THEN "failing" ELSE "faces"
  <2>1. CASE o.tried # {} /\ o.failed = o.tried
    <3>1. run' = [run EXCEPT !.step = "failing"]  BY <1>1, <2>1
    <3> QED  BY <1>2, <2>1, <3>1 DEF Progress, Fresh
  <2>2. CASE ~(o.tried # {} /\ o.failed = o.tried)
    <3>1. run' = [run EXCEPT !.step = "faces"]  BY <1>1, <2>2
    <3> QED  BY <1>2, <2>2, <3>1 DEF Progress, Fresh
  <2> QED  BY <2>1, <2>2
<1> DEFINE users(k) == {s \in Slots : Winner(s).key = k}
           Last(k) == \E s \in users(k) \cap o.failed : \A t \in users(k) : t <= s
<1>5. image' = [k \in Slots |-> [image[k] EXCEPT !.rough = Last(k)]]
  BY <1>1
<1>6. \A k \in Slots : Last(k) \in BOOLEAN  OBVIOUS
<1> HIDE DEF Last
<1>7. ASSUME NEW k \in Slots
      PROVE  /\ image'[k] \in Image /\ image'[k].slot = image[k].slot
             /\ image'[k].score = image[k].score /\ image'[k].rough = Last(k)
  <2>1. image'[k] = [image[k] EXCEPT !.rough = Last(k)]  BY <1>5
  <2>2. image[k] \in Image /\ Last(k) \in BOOLEAN  BY <1>6
  <2> QED  BY ONLY <2>1, <2>2 DEF Image
<1>8. image' \in [Slots -> Image]  BY <1>5, <1>7
<1>9. ASSUME run.round = 0, run'.step = "faces"
      PROVE  \E s \in Slots : ~image'[s].rough
  <2>1. PICK s \in Slots : s \notin o.failed
    <3>1. CASE o.tried = {}  BY <1>3, <3>1, SlotsAreCount
    <3>2. CASE o.tried # {}
      <4>1. o.failed # o.tried  BY <1>4, <1>9, <3>2
      <4> QED  BY <1>3, <4>1
    <3> QED  BY <3>1, <3>2
  <2>2. \A t \in Slots : Winner(t).key = t
    BY <1>2, <1>9 DEF Faithful, Chosen, Winner
  <2>3. users(s) = {s}  BY <2>2
  <2>4. ~Last(s)  BY <2>1, <2>3 DEF Last
  <2> QED  BY <1>7, <2>4
<1> HIDE DEF users
<1>10. Drawn' /\ Fresh' /\ Faithful'
  <2>1. Chosen  BY <1>2 DEF Chosen
  <2>2. Fresh'  BY <1>4 DEF Fresh
  <2> QED  BY <1>2, <1>4, <1>7, <2>1, <2>2, StillDrawn
<1>11. Enhanced' /\ Faced'
  BY <1>4, <1>9 DEF Enhanced, Faced
<1> QED
  BY <1>2, <1>4, <1>8, <1>10, <1>11

\* Fewer images without a face than slots leave a slot whose image has one.
LEMMA FaceGateStep == ASSUME RenderInv, FaceGate PROVE RenderInv'
<1> USE DEF RenderInv, MemoryOK
<1>1. PICK blank \in SUBSET {Winner(s).key : s \in Slots} :
        /\ image' = [k \in Slots |-> [image[k] EXCEPT !.blank = k \in blank]]
        /\ run' = [run EXCEPT !.step =
             IF Cardinality({s \in Slots : Winner(s).key \in blank}) >= Count
             THEN "failing" ELSE "upload"]
  BY Zenon DEF FaceGate
<1>2. run.step = "faces" /\ cand' = cand /\ blobs' = blobs
  BY Zenon DEF FaceGate, Inside
<1> DEFINE faceless == {s \in Slots : Winner(s).key \in blank}
<1>3. /\ run' \in Progress /\ run'.round = run.round /\ run'.next = 0
      /\ run'.step = IF Cardinality(faceless) >= Count THEN "failing" ELSE "upload"
  <2>1. CASE Cardinality(faceless) >= Count
    <3>1. run' = [run EXCEPT !.step = "failing"]  BY <1>1, <2>1
    <3> HIDE DEF faceless
    <3> QED  BY <1>2, <2>1, <3>1 DEF Progress, Fresh
  <2>2. CASE ~(Cardinality(faceless) >= Count)
    <3>1. run' = [run EXCEPT !.step = "upload"]  BY <1>1, <2>2
    <3> HIDE DEF faceless
    <3> QED  BY <1>2, <2>2, <3>1 DEF Progress, Fresh
  <2> QED  BY <2>1, <2>2
<1>4. ASSUME NEW k \in Slots
      PROVE  /\ image'[k] \in Image /\ image'[k].slot = image[k].slot
             /\ image'[k].score = image[k].score /\ image'[k].rough = image[k].rough
             /\ image'[k].blank = (k \in blank)
  <2> DEFINE b == k \in blank
  <2>1. image'[k] = [image[k] EXCEPT !.blank = b] /\ b \in BOOLEAN  BY <1>1
  <2>3. image[k] \in Image  OBVIOUS
  <2> HIDE DEF b
  <2>2. /\ image'[k] \in Image /\ image'[k].slot = image[k].slot
        /\ image'[k].score = image[k].score /\ image'[k].rough = image[k].rough
        /\ image'[k].blank = b
    BY ONLY <2>1, <2>3 DEF Image
  <2> QED  BY <2>2 DEF b
<1>5. image' \in [Slots -> Image]  BY <1>1, <1>4
<1>6. ASSUME run.round = 0, run'.step = "upload"
      PROVE  \E s \in Slots : ~image'[s].blank
  <2>1. faceless # Slots
    <3>1. ~(Cardinality(faceless) >= Count)  BY <1>3, <1>6
    <3> HIDE DEF faceless
    <3>2. Count \in Int /\ Cardinality(Slots) = Count  BY SlotsAreCount
    <3> QED  BY <3>1, <3>2
  <2>2. PICK s \in Slots : Winner(s).key \notin blank
    BY <2>1
  <2>3. Winner(s).key = s
    BY <1>2, <1>6 DEF Faithful, Chosen, Winner
  <2> QED  BY <1>4, <2>2, <2>3
<1> HIDE DEF faceless
<1>7. Drawn' /\ Fresh' /\ Faithful'
  <2>1. Chosen  BY <1>2 DEF Chosen
  <2>2. Fresh'  BY <1>3 DEF Fresh
  <2> QED  BY <1>2, <1>3, <1>4, <2>1, <2>2, StillDrawn
<1>8. Enhanced' /\ Faced'
  BY <1>2, <1>3, <1>4, <1>6 DEF Enhanced, Faced
<1> QED
  BY <1>2, <1>3, <1>5, <1>7, <1>8

LEMMA ShownIsImage ==
  ASSUME RenderInv, Chosen, NEW s \in Slots
  PROVE  Winner(s).key \in Slots /\ Shown(s).slot \in Slots
<1> USE DEF RenderInv, MemoryOK
<1>1. cand[s] \in Seq(Scored) /\ cand[s] # <<>>  BY DEF Drawn
<1>2. cand[s][1] \in Scored  BY <1>1, LenProperties, EmptySeq, ElementOfSeq
<1>3. Winner(s).key \in Slots  BY <1>2 DEF Winner, Scored
<1>4. image[Winner(s).key] \in Image /\ image[Winner(s).key].slot # None
  BY <1>3 DEF Drawn
<1> QED  BY <1>3, <1>4 DEF Shown, Image

LEMMA UploadRun ==
  ASSUME NEW r \in Progress
  PROVE  /\ [r EXCEPT !.next = @ + 1] \in Progress
         /\ [r EXCEPT !.next = @ + 1].step = r.step
         /\ [r EXCEPT !.next = @ + 1].next = r.next + 1
         /\ [r EXCEPT !.next = @ + 1].lost = r.lost
         /\ [r EXCEPT !.next = @ + 1].round = r.round
         /\ \A more \in SUBSET Slots :
              /\ [r EXCEPT !.next = @ + 1, !.lost = more] \in Progress
              /\ [r EXCEPT !.next = @ + 1, !.lost = more].step = r.step
              /\ [r EXCEPT !.next = @ + 1, !.lost = more].next = r.next + 1
              /\ [r EXCEPT !.next = @ + 1, !.lost = more].lost = more
              /\ [r EXCEPT !.next = @ + 1, !.lost = more].round = r.round
<1>1. r.next + 1 \in Nat  BY DEF Progress
<1>2. ASSUME NEW more \in SUBSET Slots
      PROVE  LET new == [r EXCEPT !.next = @ + 1, !.lost = more] IN
             /\ new \in Progress /\ new.step = r.step /\ new.next = r.next + 1
             /\ new.lost = more /\ new.round = r.round
  BY <1>1 DEF Progress
<1>3. LET new == [r EXCEPT !.next = @ + 1] IN
      /\ new \in Progress /\ new.step = r.step /\ new.next = r.next + 1
      /\ new.lost = r.lost /\ new.round = r.round
  BY <1>1 DEF Progress
<1> QED  BY <1>2, <1>3, Zenon

\* An upload that does not fail leaves an image, and one that fails is remembered.
LEMMA UploadStep ==
  ASSUME RenderInv, Upload
  PROVE  /\ RenderInv'
         /\ run'.step = "upload" /\ run'.next = run.next + 1
         /\ \A s \in Slots : s # run.next =>
              blobs'[s] = blobs[s] /\ (s \in run'.lost <=> s \in run.lost)
         /\ run.next \in Slots
         /\ run.next \notin run'.lost => blobs'[run.next] # None
         /\ \A s \in Slots : blobs[s] # None => blobs'[s] # None
         /\ UNCHANGED <<row, cand, image>> /\ run'.round = run.round
<1> USE DEF RenderInv, MemoryOK
<1>1. /\ run.step = "upload" /\ run.next \in Slots /\ UNCHANGED <<row, cand, image>>
  BY DEF Upload, Progress, Slots
<1>2. \A s \in Slots : s # None  BY DEF Slots
<1>3. CASE blobs' = [blobs EXCEPT ![run.next] = Shown(run.next).slot]
           /\ run' = [run EXCEPT !.next = @ + 1]
  <2>1. Shown(run.next).slot \in Slots  BY <1>1, ShownIsImage DEF Chosen
  <2>4. run \in Progress  OBVIOUS
  <2>2. /\ run' \in Progress /\ run'.step = "upload" /\ run'.next = run.next + 1
        /\ run'.lost = run.lost /\ run'.round = run.round
    BY ONLY <1>1, <1>3, <2>4, UploadRun, Zenon
  <2>3. /\ blobs' \in [Slots -> Slots \cup {None}] /\ blobs'[run.next] # None
        /\ \A s \in Slots : s # run.next => blobs'[s] = blobs[s]
    BY <1>1, <1>2, <1>3, <2>1
  <2> QED
    BY <1>1, <2>2, <2>3 DEF Drawn, Chosen, First, Fresh, Faithful, Enhanced, Faced
<1>4. CASE blobs' = blobs /\ run' = [run EXCEPT !.next = @ + 1, !.lost = @ \cup {run.next}]
  <2> DEFINE more == run.lost \cup {run.next}
  <2>1. more \in SUBSET Slots  BY <1>1 DEF Progress
  <2>2. run' = [run EXCEPT !.next = @ + 1, !.lost = more]  BY <1>4
  <2>3. run.next \in more /\ \A s \in Slots : s # run.next => (s \in more <=> s \in run.lost)
    OBVIOUS
  <2>5. run \in Progress  OBVIOUS
  <2> HIDE DEF more
  <2>4. /\ run' \in Progress /\ run'.step = "upload" /\ run'.next = run.next + 1
        /\ run'.lost = more /\ run'.round = run.round
    BY ONLY <1>1, <2>1, <2>2, <2>5, UploadRun, Zenon
  <2> QED
    BY <1>1, <1>4, <2>3, <2>4 DEF Drawn, Chosen, First, Fresh, Faithful, Enhanced, Faced
<1> QED  BY <1>3, <1>4 DEF Upload

\* What the container has in memory is in order after every step of the container, and
\* nobody else touches it.
LEMMA RenderStep ==
  ASSUME RenderInv, Container \/ Fail \/ FailedElsewhere
  PROVE  RenderInv'
<1>1. CASE FailedElsewhere
  BY <1>1 DEF FailedElsewhere, RenderInv, MemoryOK, Drawn, Chosen, First, Fresh, Faithful,
     Enhanced, Faced
<1> QED
  BY <1>1, EarlySteps, GenerateStep, RetryStep, SelectStep, EnhanceStep, FaceGateStep,
     UploadStep DEF Container

LEMMA RenderSame ==
  ASSUME RenderInv, UNCHANGED <<run, cand, image>>, blobs' \in [Slots -> Slots \cup {None}]
  PROVE  RenderInv'
BY DEF RenderInv, MemoryOK, Drawn, Chosen, First, Fresh, Faithful, Enhanced, Faced

-----------------------------------------------------------------------------
(* Rows and results.                                                       *)

Empty == \A s \in Slots : blobs[s] = None

\* What the container has counted as delivered for a job that it may still complete is
\* there; ...
Landed == Open /\ run.step = "upload" =>
  \A s \in Slots : s < run.next /\ s \notin run.lost => blobs[s] # None

\* ... so is what a completed job links to; ...
Linking == row.status = "completed" /\ ~row.expired /\ ~torn /\ sweep.stage # "commit" =>
  \A s \in row.paths : blobs[s] # None

\* ... nothing is emptied, and nothing expires, of a job that is open; ...
Closed ==
  /\ row.status = "none" => run.step = "off"
  /\ deletion # "none" => row.status = "deleted"
  /\ sweep.listed \/ row.expired => row.status \in {"completed", "failed", "deleted"}
  /\ Locked /\ ~sweep.listed => row.status \in {"none", "deleted"}

\* ... and once all is emptied no container is at work that could add to it.
Gone ==
  ~orphans
    /\ (row.expired \/ deletion = "done" \/ (sweep.stage = "commit" /\ sweep.listed)) =>
      Empty /\ ~Working

StorageInv == RenderInv /\ Landed /\ Linking /\ Closed /\ Gone

LEMMA StorageImplied == ASSUME StorageInv, row \in Row PROVE StorageAgrees
BY DEF StorageInv, Linking, Gone, Empty, StorageAgrees, Linked, Row

\* Steps that leave the job, its container and its results alone.
LEMMA StorageAside ==
  ASSUME StorageInv,
         UNCHANGED <<row, blobs, run, cand, image, sweep, deletion, orphans, torn>>
  PROVE  StorageInv'
<1>1. RenderInv'  BY RenderSame DEF StorageInv, RenderInv, MemoryOK
<1> QED
  BY <1>1 DEF StorageInv, Landed, Linking, Closed, Gone, Empty, Open, Working, Locked

\* Writing the row of an open job, while nothing is removed and nothing added.
LEMMA StorageWrite ==
  ASSUME StorageInv, RenderInv', row \in Row,
         row' = row \/ (Open /\ row'.status \in {"processing", "completed", "failed"}
                             /\ row'.expired = row.expired),
         row'.status = "completed" =>
           row' = row \/ \A s \in row'.paths : blobs[s] # None,
         UNCHANGED <<blobs, sweep, deletion, orphans, torn>>,
         run' = run \/ run'.step # "upload" \/ run'.next = 0,
         run'.step # "off" => run.step # "off" \/ row.status # "none",
         Working' => Working \/ Open
  PROVE  StorageInv'
<1> USE DEF StorageInv
<1>1. Landed'
  <2> SUFFICES ASSUME Open', run'.step = "upload", NEW s \in Slots, s < run'.next,
                      s \notin run'.lost
               PROVE  blobs'[s] # None
    BY DEF Landed
  <2>1. run' = run  BY DEF Slots
  <2>2. Open  BY DEF Open
  <2> QED  BY <2>1, <2>2 DEF Landed
<1>2. Linking'  BY DEF Linking
<1>3. Closed'  BY DEF Closed, Open, Locked
<1>4. Gone'  BY DEF Gone, Empty, Closed, Open
<1> QED  BY <1>1, <1>2, <1>3, <1>4

LEMMA RendersStorage ==
  ASSUME StorageInv, row \in Row, Renders
  PROVE  StorageInv'
<1> USE DEF StorageInv
<1>1. /\ RenderInv' /\ UNCHANGED <<sweep, deletion, orphans, torn>>
      /\ Container \/ Fail \/ FailedElsewhere
  BY RenderStep DEF Renders, Refunded
<1>2. CASE Upload
  <2>1. /\ run'.step = "upload" /\ run'.next = run.next + 1 /\ run.next \in Slots
        /\ \A s \in Slots : s # run.next =>
             blobs'[s] = blobs[s] /\ (s \in run'.lost <=> s \in run.lost)
        /\ run.next \notin run'.lost => blobs'[run.next] # None
        /\ \A s \in Slots : blobs[s] # None => blobs'[s] # None
        /\ row' = row
    BY <1>2, UploadStep
  <2>2. Working /\ run.step = "upload"  BY <1>2 DEF Upload, Working
  <2>3. Landed'
    <3> SUFFICES ASSUME Open', NEW s \in Slots, s < run.next + 1, s \notin run'.lost
                 PROVE  blobs'[s] # None
      BY <2>1 DEF Landed
    <3>1. CASE s = run.next  BY <2>1, <3>1
    <3>2. CASE s # run.next
      <4>1. s < run.next  BY <2>1, <3>2 DEF Slots
      <4>2. Open  BY <2>1 DEF Open
      <4> QED  BY <2>1, <2>2, <3>2, <4>1, <4>2 DEF Landed
    <3> QED  BY <3>1, <3>2
  <2>4. Linking'  BY <1>1, <2>1 DEF Linking, Row
  <2>5. Closed'  BY <1>1, <2>1, <2>2 DEF Closed, Locked
  <2>6. Gone'  BY <1>1, <2>1, <2>2 DEF Gone
  <2> QED  BY <1>1, <2>3, <2>4, <2>5, <2>6
<1>3. CASE Complete
  <2>1. /\ blobs' = blobs /\ run.step = "upload" /\ run.next = Count
        /\ run'.step \in {"failing", "done"}
        /\ row' = row \/ Write("completed", Slots \ run.lost)
    BY <1>3 DEF Complete, Go, Exit, Off, RenderInv, MemoryOK, Progress
  <2>2. row' = row \/ (Open /\ row'.status = "completed" /\ row'.expired = row.expired
                            /\ row'.paths = Slots \ run.lost)
    BY <2>1 DEF Write, Row
  <2>3. row' = row \/ \A s \in row'.paths : blobs[s] # None
    BY <2>1, <2>2 DEF Landed, Slots
  <2>4. Working  BY <2>1 DEF Working
  <2> QED  BY <1>1, <2>1, <2>2, <2>3, <2>4, StorageWrite DEF Working
<1>4. CASE Fail \/ FailedElsewhere
  <2>1. /\ blobs' = blobs /\ (run' = run \/ (run'.step = "done" /\ run.step = "failing"))
        /\ Write("failed", {})
    <3>1. CASE Fail
      <4>1. run' = [Off EXCEPT !.step = "done"] /\ run.step = "failing"
        BY <3>1 DEF Fail, Exit
      <4> QED  BY <3>1, <4>1 DEF Fail, Off
    <3>2. CASE FailedElsewhere  BY <3>2 DEF FailedElsewhere
    <3> QED  BY <1>4, <3>1, <3>2
  <2>2. row' = row \/ (Open /\ row'.status = "failed" /\ row'.expired = row.expired)
    BY <2>1 DEF Write, Row
  <2>3. row' = row \/ row'.status # "completed"  BY <2>2
  <2> QED  BY <1>1, <2>1, <2>2, <2>3, StorageWrite DEF Working
<1>5. CASE Boot
  <2>1. blobs' = blobs /\ row.status # "none" /\ run'.step \in {"model", "dead"}
    BY <1>5 DEF Boot, Go, Exit, Off, Open, RenderInv, MemoryOK, Progress
  <2>2. row' = row \/ (Open /\ row'.status = "processing" /\ row'.expired = row.expired)
    BY <1>5 DEF Boot, Write, Row
  <2>3. Open \/ run'.step = "dead"
    BY <1>5 DEF Boot, Exit, Off
  <2> QED  BY <1>1, <2>1, <2>2, <2>3, StorageWrite DEF Working
<1>6. CASE LoadModel \/ LoadIdentity \/ LoadReference \/ Generate \/ Retry \/ Select
            \/ Enhance \/ FaceGate \/ Raise \/ Dies
  <2>1. blobs' = blobs /\ row' = row /\ Working
    BY <1>6 DEF LoadModel, LoadIdentity, LoadReference, Generate, Retry, Select, Enhance,
       FaceGate, Raise, Dies, Go, Inside, Working
  <2>2. run'.step # "upload" \/ run'.next = 0
    <3>1. CASE FaceGate
      BY <3>1 DEF FaceGate, Fresh, RenderInv, MemoryOK, Progress
    <3>2. CASE Generate
      BY <3>2 DEF Generate, RenderInv, MemoryOK, Progress
    <3>3. CASE Retry
      BY <3>3 DEF Retry, RenderInv, MemoryOK, Progress
    <3>4. CASE Enhance
      BY <3>4 DEF Enhance, RenderInv, MemoryOK, Progress
    <3>5. CASE LoadModel \/ LoadIdentity \/ LoadReference \/ Select \/ Raise \/ Dies
      BY <3>5 DEF LoadModel, LoadIdentity, LoadReference, Select, Raise, Dies, Go, Exit, Off,
         RenderInv, MemoryOK, Progress
    <3> QED  BY <1>6, <3>1, <3>2, <3>3, <3>4, <3>5
  <2>3. run.step # "off"  BY <2>1 DEF Working
  <2> QED  BY <1>1, <2>1, <2>2, <2>3, StorageWrite
<1> QED
  BY <1>1, <1>2, <1>3, <1>4, <1>5, <1>6 DEF Container

\* What is emptied is emptied of a job that is not open, and nobody adds to it unless
\* something was left or a container at work, which orphans says.
LEMMA EmptiesAll ==
  ASSUME EmptyResults, blobs \in [Slots -> Slots \cup {None}]
  PROVE  /\ blobs' \in [Slots -> Slots \cup {None}]
         /\ ~orphans' => Empty' /\ ~Working /\ ~orphans
BY DEF EmptyResults, Remains, Empty

LEMMA DeletesStorage ==
  ASSUME StorageInv, row \in Row, Deletes
  PROVE  StorageInv'
<1> USE DEF StorageInv
<1>0. blobs \in [Slots -> Slots \cup {None}]  BY DEF RenderInv, MemoryOK
<1>1. CASE DeleteRow
  <2>1. /\ row'.status = "deleted" /\ row'.expired = row.expired /\ deletion' = "cleaning"
        /\ deletion = "none" /\ row.status # "none"
        /\ UNCHANGED <<blobs, run, cand, image, sweep, orphans, torn>>
    BY <1>1 DEF DeleteRow, Row
  <2>2. RenderInv'  BY <1>0, <2>1, RenderSame
  <2>3. Gone'  BY <2>1 DEF Gone, Empty, Working
  <2> QED  BY <2>1, <2>2, <2>3 DEF Landed, Linking, Closed, Open, Locked
<1>2. CASE CleanResults
  <2>1. /\ EmptyResults /\ deletion = "cleaning" /\ deletion' = "done"
        /\ UNCHANGED <<row, run, cand, image, sweep, torn>>
    BY <1>2 DEF CleanResults
  <2>2. blobs' \in [Slots -> Slots \cup {None}] /\ (~orphans' => Empty' /\ ~Working)
    BY <1>0, <2>1, EmptiesAll
  <2>3. RenderInv'  BY <2>1, <2>2, RenderSame
  <2>4. row.status = "deleted"  BY <2>1 DEF Closed
  <2>5. Gone'  BY <2>1, <2>2 DEF Gone, Working
  <2> QED  BY <2>1, <2>3, <2>4, <2>5 DEF Landed, Linking, Closed, Open, Locked
<1>3. CASE DeleteAdapter \/ ResetModel
  <2>1. UNCHANGED <<row, blobs, run, cand, image, sweep, deletion, orphans, torn>>
    BY <1>3 DEF DeleteAdapter, ResetModel, rendering
  <2> QED  BY <2>1, StorageAside
<1> QED  BY <1>1, <1>2, <1>3 DEF Deletes

LEMMA PaysStorage ==
  ASSUME StorageInv, row \in Row, Pays
  PROVE  StorageInv'
<1> USE DEF StorageInv
<1>1. CASE Submit
  <2>1. /\ row.status = "none" /\ ~Locked /\ row'.status = "queued"
        /\ row'.expired = row.expired
        /\ UNCHANGED <<blobs, run, cand, image, sweep, deletion, orphans, torn>>
    BY <1>1 DEF Submit, Acceptable, Row
  <2>2. RenderInv'  BY <2>1, RenderSame DEF RenderInv, MemoryOK
  <2>3. run.step = "off" /\ deletion = "none" /\ ~sweep.listed /\ ~row.expired
    BY <2>1 DEF Closed
  <2> QED  BY <2>1, <2>2, <2>3 DEF Landed, Linking, Closed, Gone, Locked
<1>2. CASE BuyPack \/ Subscribe \/ PlanEnds \/ DeadlinePasses \/ StartClock
  <2>1. UNCHANGED <<row, blobs, run, cand, image, sweep, deletion, orphans, torn>>
    BY <1>2 DEF BuyPack, Subscribe, PlanEnds, DeadlinePasses, StartClock, Account, rendering
  <2> QED  BY <2>1, StorageAside
<1> QED  BY <1>1, <1>2 DEF Pays

LEMMA SweepsStorage ==
  ASSUME StorageInv, row \in Row, sweep \in Sweep, Sweeps
  PROVE  StorageInv'
<1> USE DEF StorageInv
<1>0. blobs \in [Slots -> Slots \cup {None}]  BY DEF RenderInv, MemoryOK
<1>1. UNCHANGED <<run, cand, image, deletion>>
  BY DEF Sweeps, List, Lock, SweepInputs, SweepAdapter, SweepResults, SweepCommit, SweepDies,
     Goes, rendering
<1>2. CASE List \/ Lock
  <2>1. UNCHANGED <<row, blobs, orphans, torn>>
    BY <1>2 DEF List, Lock, rendering
  <2>2. /\ sweep.stage \in {"idle", "due"} /\ sweep'.stage \in {"idle", "due", "inputs"}
        /\ \/ sweep'.listed = sweep.listed /\ sweep'.stage # "inputs"
           \/ /\ ~Open /\ sweep'.stage = "inputs"
              /\ sweep'.listed = (row.status \in {"completed", "failed"})
    <3>1. CASE List  BY <3>1 DEF List, Sweep
    <3>2. CASE Lock /\ sweep' = [sweep EXCEPT !.stage = "idle"]
      BY <3>2 DEF Lock, Sweep
    <3>3. CASE Lock /\ ~Open /\ sweep' =
                 [stage |-> "inputs", listed |-> row.status \in {"completed", "failed"}]
      BY <3>3 DEF Lock, Sweep
    <3> QED  BY <1>2, <3>1, <3>2, <3>3 DEF Lock
  <2>3. RenderInv'  BY <1>0, <1>1, <2>1, RenderSame
  <2>4. Closed'  BY <1>1, <2>1, <2>2 DEF Closed, Locked, Open, Row
  <2>5. Gone'  BY <1>1, <2>1, <2>2 DEF Gone, Empty, Working
  <2> QED  BY <1>1, <2>1, <2>2, <2>3, <2>4, <2>5 DEF Landed, Linking, Open
<1>3. CASE SweepInputs \/ SweepAdapter
  <2>1. UNCHANGED <<row, blobs, orphans, torn>>
    BY <1>3 DEF SweepInputs, SweepAdapter, Goes
  <2>2. /\ sweep.stage \in {"inputs", "adapter"} /\ sweep'.stage \in {"adapter", "results"}
        /\ sweep'.listed = sweep.listed
    BY <1>3 DEF SweepInputs, SweepAdapter, Goes, Sweep
  <2>3. RenderInv'  BY <1>0, <1>1, <2>1, RenderSame
  <2>4. Gone'  BY <1>1, <2>1, <2>2 DEF Gone, Empty, Working
  <2> QED  BY <1>1, <2>1, <2>2, <2>3, <2>4 DEF Landed, Linking, Closed, Open, Locked
<1>4. CASE SweepResults
  <2>1. /\ UNCHANGED <<row, torn>> /\ sweep.stage = "results" /\ sweep'.stage = "commit"
        /\ sweep'.listed = sweep.listed
    BY <1>4 DEF SweepResults, Goes, Sweep
  <2>2. CASE sweep.listed
    <3>1. blobs' \in [Slots -> Slots \cup {None}] /\ (~orphans' => Empty' /\ ~Working)
      BY <1>0, <1>4, <2>2, EmptiesAll DEF SweepResults
    <3>2. RenderInv'  BY <1>1, <3>1, RenderSame
    <3>3. row.status \in {"completed", "failed", "deleted"}  BY <2>2 DEF Closed
    <3>4. Gone'  BY <1>1, <3>1 DEF Gone, Working
    <3> QED  BY <1>1, <2>1, <3>2, <3>3, <3>4 DEF Landed, Linking, Closed, Open, Locked
  <2>3. CASE ~sweep.listed
    <3>1. UNCHANGED <<blobs, orphans>>  BY <1>4, <2>3 DEF SweepResults
    <3>2. RenderInv'  BY <1>0, <1>1, <3>1, RenderSame
    <3>3. Gone'  BY <1>1, <2>1, <2>3, <3>1 DEF Gone, Empty, Working
    <3> QED
      BY <1>1, <2>1, <2>3, <3>1, <3>2, <3>3 DEF Landed, Linking, Closed, Open, Locked
  <2> QED  BY <2>2, <2>3
<1>5. CASE SweepCommit
  <2>1. /\ UNCHANGED <<blobs, orphans, torn>> /\ sweep.stage = "commit"
        /\ sweep'.stage = "idle" /\ sweep'.listed = sweep.listed
        /\ row'.status = row.status
        /\ row'.expired <=> row.expired \/ row.status \in {"completed", "failed"}
    <3> DEFINE over == row.expired \/ row.status \in {"completed", "failed"}
    <3>1. row' = [row EXCEPT !.expired = over]  BY <1>5 DEF SweepCommit
    <3> HIDE DEF over
    <3>2. row'.status = row.status /\ row'.expired = over  BY <3>1 DEF Row
    <3>3. row'.expired <=> row.expired \/ row.status \in {"completed", "failed"}
      BY <3>2 DEF over
    <3> QED  BY <1>5, <3>2, <3>3 DEF SweepCommit, Sweep
  <2>2. RenderInv'  BY <1>0, <1>1, <2>1, RenderSame
  <2>3. row.status \in {"completed", "failed"} => sweep.listed
    BY <2>1 DEF Closed, Locked
  <2>4. Gone'  BY <1>1, <2>1, <2>3 DEF Gone, Empty, Working
  <2>5. Linking'  BY <2>1 DEF Linking
  <2>6. Landed'
    BY <1>1, <2>1 DEF Landed, Open
  <2>7. Closed'  BY <1>1, <2>1 DEF Closed, Locked
  <2> QED  BY <2>2, <2>4, <2>5, <2>6, <2>7
<1>6. CASE SweepDies
  <2>1. /\ UNCHANGED <<row, blobs, orphans>> /\ torn' = TRUE
        /\ sweep'.stage = "idle" /\ sweep'.listed = sweep.listed
    BY <1>6 DEF SweepDies, rendering, Sweep
  <2>2. RenderInv'  BY <1>0, <1>1, <2>1, RenderSame
  <2>3. Gone'  BY <1>1, <2>1 DEF Gone, Empty, Working
  <2> QED  BY <1>1, <2>1, <2>2, <2>3 DEF Landed, Linking, Closed, Open, Locked
<1> QED
  BY <1>2, <1>3, <1>4, <1>5, <1>6 DEF Sweeps

LEMMA StorageInit == Init => StorageInv
<1> SUFFICES ASSUME Init PROVE StorageInv  OBVIOUS
<1>1. MemoryOK
  BY DEF Init, RenderingInit, MemoryOK, Progress, Off, Image, NoImages, NoCandidates
<1>2. run.step = "off" /\ run.next = 0  BY DEF Init, RenderingInit, Off
<1>3. RenderInv
  BY <1>1, <1>2 DEF RenderInv, Drawn, Chosen, Fresh, Faithful, Enhanced, Faced
<1>4. row.status = "none" /\ ~row.expired /\ deletion = "none" /\ ~sweep.listed
      /\ sweep.stage = "idle"
  BY DEF Init, RenderingInit
<1> QED
  BY <1>2, <1>3, <1>4 DEF StorageInv, Landed, Linking, Closed, Gone, Locked, Open

LEMMA StorageStep == TypeInv /\ StorageInv /\ [Next]_vars => StorageInv'
<1> SUFFICES ASSUME TypeInv, StorageInv, [Next]_vars PROVE StorageInv'  OBVIOUS
<1>1. row \in Row /\ sweep \in Sweep  BY DEF TypeInv, RowsOK
<1>2. CASE UNCHANGED vars
  BY <1>2, StorageAside DEF vars, rendering, custody
<1>3. CASE Trains
  <2>1. UNCHANGED <<row, blobs, run, cand, image, sweep, deletion, orphans, torn>>
    BY <1>3 DEF Trains, UploadPhotos, BeginTrain, WriteCrop, Purge, Reserve, ReadCrops,
       SaveAdapter, Succeeds, FailTraining, Settled, ElsewhereUnchanged, rendering
  <2> QED  BY <2>1, StorageAside
<1> QED
  BY <1>1, <1>2, <1>3, RendersStorage, PaysStorage, DeletesStorage, SweepsStorage DEF Next

\* The links of a completed job lead to images, and what is deleted, with the row
\* (delete_job) or at the deadline (retention_cleanup), stays deleted, however uploads,
\* deletions, expiry and deaths interleave, unless storage refused or the container was
\* still at work.
THEOREM RowsAndResultsAgree == Spec => []StorageAgrees
<1>1. Init => TypeInv /\ StorageInv  BY TypeInit, StorageInit
<1>2. TypeInv /\ StorageInv /\ [Next]_vars => (TypeInv /\ StorageInv)'
  BY TypeStep, StorageStep
<1>3. TypeInv /\ StorageInv => StorageAgrees
  BY StorageImplied DEF TypeInv, RowsOK
<1> QED  BY <1>1, <1>2, <1>3, PTL DEF Spec

-----------------------------------------------------------------------------
(* What ships.                                                             *)

\* Only the container completes a job, with what it has not lost, and what is in its
\* memory then has passed every stage.
LEMMA ShippedStep ==
  ASSUME StorageInv, row \in Row, Next, row.status # "completed", row'.status = "completed"
  PROVE  /\ row'.paths # {} /\ row'.paths = Slots \ run.lost
         /\ run.lost = {} /\ run.round = 0 =>
              /\ \E s \in Slots : ~Shown(s).blank
              /\ \E s \in Slots : ~Shown(s).rough
              /\ \A s \in Slots : Shown(s).slot = s /\ Shown(s).score = Winner(s).score
<1>1. Complete
  <2>1. CASE Trains \/ Pays \/ Deletes \/ Sweeps
    <3>1. row' = row \/ row'.status \in {"queued", "deleted", row.status}
      BY <2>1 DEF Trains, UploadPhotos, BeginTrain, WriteCrop, Purge, Reserve, ReadCrops,
         SaveAdapter, Succeeds, FailTraining, Settled, ElsewhereUnchanged, rendering,
         Pays, BuyPack, Subscribe, PlanEnds, DeadlinePasses, Submit, StartClock, Account,
         Deletes, DeleteRow, CleanResults, DeleteAdapter, ResetModel,
         Sweeps, List, Lock, SweepInputs, SweepAdapter, SweepResults, SweepCommit, SweepDies,
         Goes, Row
    <3> QED  BY <3>1
  <2>2. CASE Renders
    <3>1. CASE Boot
      BY <3>1 DEF Boot, Write, Row
    <3>2. CASE Fail \/ FailedElsewhere
      BY <3>2 DEF Fail, FailedElsewhere, Write, Row
    <3>3. CASE LoadModel \/ LoadIdentity \/ LoadReference \/ Generate \/ Retry \/ Select
                \/ Enhance \/ FaceGate \/ Upload \/ Raise \/ Dies
      BY <3>3 DEF LoadModel, LoadIdentity, LoadReference, Generate, Retry, Select, Enhance,
         FaceGate, Upload, Raise, Dies, Inside
    <3> QED  BY <2>2, <3>1, <3>2, <3>3 DEF Renders, Container
  <2> QED  BY <2>1, <2>2 DEF Next
<1>2. /\ run.step = "upload" /\ row'.paths = Slots \ run.lost /\ run.lost # Slots
      /\ run.lost \subseteq Slots
  BY <1>1 DEF Complete, Write, Row, StorageInv, RenderInv, MemoryOK, Progress
<1>3. ASSUME run.round = 0
      PROVE  /\ \E s \in Slots : ~Shown(s).blank
             /\ \E s \in Slots : ~Shown(s).rough
             /\ \A s \in Slots : Shown(s).slot = s /\ Shown(s).score = Winner(s).score
  <2>1. \A s \in Slots : Winner(s).key = s /\ Winner(s).score = image[s].score
                         /\ image[s].slot = s
    <3> SUFFICES ASSUME NEW s \in Slots
                 PROVE  /\ Winner(s).key = s /\ Winner(s).score = image[s].score
                        /\ image[s].slot = s
      OBVIOUS
    <3> DEFINE e == [key |-> s, score |-> image[s].score]
    <3>1. cand[s] = <<e>> /\ image[s].slot = s
      BY <1>2, <1>3 DEF StorageInv, RenderInv, Faithful, Chosen
    <3>2. e.key = s /\ e.score = image[s].score  OBVIOUS
    <3> HIDE DEF e
    <3>3. Winner(s) = e  BY <3>1 DEF Winner
    <3> QED  BY <3>1, <3>2, <3>3
  <2>2. \A s \in Slots : Shown(s) = image[s]  BY <2>1 DEF Shown
  <2> QED
    BY <1>2, <1>3, <2>1, <2>2 DEF StorageInv, RenderInv, Enhanced, Faced
<1> QED  BY <1>2, <1>3

\* A job that completes lists the images that were not lost, and, unless a slot was
\* retried, each is the one that was rendered and scored for its slot, with a face seen in
\* one and enhancement come through on one (run_inference.py).
THEOREM OnlyFitWorkShips == Spec => ShippedWell
<1>1. Init => TypeInv /\ StorageInv  BY TypeInit, StorageInit
<1>2. TypeInv /\ StorageInv /\ [Next]_vars => (TypeInv /\ StorageInv)'
  BY TypeStep, StorageStep
<1>3. TypeInv /\ StorageInv /\ [Next]_vars =>
        [row.status # "completed" /\ row'.status = "completed" =>
           /\ row'.paths # {} /\ row'.paths = Slots \ run.lost
           /\ run.lost = {} /\ run.round = 0 =>
                /\ \E s \in Slots : ~Shown(s).blank
                /\ \E s \in Slots : ~Shown(s).rough
                /\ \A s \in Slots : Shown(s).slot = s /\ Shown(s).score = Winner(s).score
        ]_rendering
  <2>1. row' = row => ~(row.status # "completed" /\ row'.status = "completed")  OBVIOUS
  <2> QED  BY <2>1, ShippedStep DEF vars, rendering, TypeInv, RowsOK
<1> QED  BY <1>1, <1>2, <1>3, PTL DEF Spec, ShippedWell
=============================================================================
