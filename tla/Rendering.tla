------------------------------ MODULE Rendering ------------------------------
(***************************************************************************)
(* The inference container that serves one generation job: it loads the    *)
(* person's adapter and reference crops, renders a candidate for every     *)
(* slot, may retry slots whose candidates are not good enough, enhances    *)
(* the winners, looks for faces, uploads what it has and writes the job's  *)
(* row.                                                                    *)
(*                                                                         *)
(* An image is what the gates tell apart: the slot it was rendered for,    *)
(* its identity score, whether enhancement failed on it (rough) and        *)
(* whether the detector finds no face in it (blank). Enhancement's stages  *)
(* are alike and modelled by one. Everything but the row, the results and  *)
(* what is loaded is the container's own memory.                           *)
(***************************************************************************)
EXTENDS Integers, Sequences, FiniteSets

CONSTANTS
  Count,    \* image_count
  Budget,   \* candidate_budget of the quality gate
  Retries,  \* retry_limit of the quality gate
  Bar,      \* acceptance_threshold
  Scores,   \* identity scores
  Gates,    \* whether QUALITY_GATE may be off, on, or either
  Crops,    \* indices of reference crops
  None

ASSUME RenderingConstants ==
  /\ Count \in Nat \ {0} /\ Budget \in Nat /\ Retries \in Nat
  /\ Scores \subseteq Nat /\ 0 \in Scores /\ Bar \in Nat
  /\ Gates \subseteq BOOLEAN /\ Gates # {} /\ None \notin Nat

Slots == 0 .. Count - 1

VARIABLES
  row,      \* the row of the job
  blobs,    \* its results in storage: by slot, the slot the image was rendered for
  adapter,  \* the person's adapter in storage: whose run saved it, or None
  crops,    \* the crops in storage: by index, whose they are
  run,      \* how far the container is
  cand,     \* by slot, the scored candidates: the key of an image, its score
  image     \* the images in memory, by key

rendering == <<row, blobs, adapter, crops, run, cand, image>>

NoCandidates == [s \in Slots |-> <<>>]
NoImages ==
  [k \in Slots |-> [slot |-> None, score |-> 0, rough |-> FALSE, blank |-> FALSE]]
Off == [step |-> "off", gate |-> FALSE, round |-> 0, used |-> 0, next |-> 0, lost |-> {}]

RenderingInit ==
  /\ row = [status |-> "none", paths |-> {}, expired |-> FALSE]
  /\ blobs = [s \in Slots |-> None]
  /\ adapter = None
  /\ crops = [i \in Crops |-> None]
  /\ run = Off
  /\ cand = NoCandidates /\ image = NoImages

Open == row.status \in {"queued", "processing"}
Working == run.step \notin {"off", "done", "dead"}

\* update_job_status writes a row that is there and not terminal, and otherwise nothing.
Write(status, paths) ==
  row' = IF Open THEN [row EXCEPT !.status = status, !.paths = paths] ELSE row

Go(from, to) ==
  /\ run.step = from
  /\ run' = [run EXCEPT !.step = to]

\* The container exits, and what it had in memory is gone.
Exit(from, to) ==
  /\ run.step = from
  /\ run' = [Off EXCEPT !.step = to]
  /\ cand' = NoCandidates /\ image' = NoImages

\* The container finds its job, unless the row is gone or terminal.
Boot ==
  \/ /\ Open /\ Go("off", "model")
     /\ Write("processing", {})
     /\ UNCHANGED <<blobs, adapter, crops, cand, image>>
  \/ /\ ~Open /\ row.status # "none" /\ Exit("off", "dead")
     /\ UNCHANGED <<row, blobs, adapter, crops>>

Inside == UNCHANGED <<row, blobs, adapter, crops>>

\* Base model and stages. An enabled stage that does not come up is fatal (see Raise).
LoadModel == Go("model", "identity") /\ UNCHANGED <<cand, image>> /\ Inside

\* Without the adapter it renders nothing ...
LoadIdentity ==
  /\ Go("identity", IF adapter = None THEN "failing" ELSE "reference")
  /\ UNCHANGED <<cand, image>> /\ Inside

\* ... nor without a crop to refer to.
References == {i \in Crops : crops[i] # None}

LoadReference ==
  /\ Go("reference", IF References = {} THEN "failing" ELSE "generate")
  /\ UNCHANGED <<cand, image>> /\ Inside

-----------------------------------------------------------------------------
(* Candidates. The i-th image of a call of generate has key i.             *)

Prompts == Slots  \* build: one prompt per slot
Rendered(s, score) == [slot |-> s, score |-> score, rough |-> FALSE, blank |-> FALSE]
Graded(gate) == IF gate THEN Scores ELSE {0}

Generate ==
  /\ run.step = "generate"
  /\ \E gate \in Gates : \E score \in [Prompts -> Graded(gate)] :
       /\ image' = [s \in Slots |-> Rendered(s, score[s])]
       /\ cand' = [s \in Slots |-> <<[key |-> s, score |-> score[s]]>>]
       /\ run' = [run EXCEPT !.step = "gate", !.gate = gate, !.used = Count]
  /\ Inside

\* The first of the best, which select takes.
Best(c) == CHOOSE x \in DOMAIN c :
  \A y \in DOMAIN c : c[y].score < c[x].score \/ (c[y].score = c[x].score /\ x <= y)
Failing == {s \in Slots : cand[s][Best(cand[s])].score < Bar}

\* Those that the budget allows, in the order of the slots.
Retried ==
  {s \in Failing : Cardinality({t \in Failing : t < s}) < Budget - run.used}
KeyOf(s) == Cardinality({t \in Retried : t < s})

May == run.gate /\ run.round < Retries /\ Retried # {}

\* One round of retries. Their prompts are counted from 0 again, so that the new images
\* get the keys of the first ones, and what was under those keys is gone.
Retry ==
  /\ run.step = "gate" /\ May
  /\ \E score \in [Retried -> Scores] :
       /\ image' = [k \in Slots |-> IF \E s \in Retried : KeyOf(s) = k
            THEN LET s == CHOOSE s \in Retried : KeyOf(s) = k IN Rendered(s, score[s])
            ELSE image[k]]
       /\ cand' = [s \in Slots |-> IF s \in Retried
            THEN Append(cand[s], [key |-> KeyOf(s), score |-> score[s]]) ELSE cand[s]]
  /\ run' = [run EXCEPT !.round = @ + 1, !.used = @ + Cardinality(Retried)]
  /\ Inside

\* One winner per slot, whether it clears the bar or not.
Select ==
  /\ ~May /\ Go("gate", "enhance")
  /\ cand' = [s \in Slots |-> <<cand[s][Best(cand[s])]>>]
  /\ UNCHANGED image /\ Inside

Winner(s) == cand[s][1]
Shown(s) == image[Winner(s).key]

-----------------------------------------------------------------------------
(* The winners: enhancement, the face gate, delivery.                      *)

\* A stage applies to a winner, fails on it, or has nothing to do there.
Outcomes == {o \in [tried : SUBSET Slots, failed : SUBSET Slots] : o.failed \subseteq o.tried}

\* Winner by winner; one key's later winner overwrites the earlier one's image. It raises
\* if enhancement was tried and failed on every winner it was tried on.
Enhance ==
  /\ run.step = "enhance"
  /\ \E o \in Outcomes :
       /\ image' = [k \in Slots |->
            LET users == {s \in Slots : Winner(s).key = k} IN
            [image[k] EXCEPT !.rough = \E s \in users \cap o.failed : \A t \in users : t <= s]]
       /\ run' = [run EXCEPT !.step =
            IF o.tried # {} /\ o.failed = o.tried THEN "failing" ELSE "faces"]
  /\ UNCHANGED cand /\ Inside

\* Mutated form of FaceGate: one faceless image more.
FaceGateLax ==
  /\ run.step = "faces"
  /\ \E blank \in SUBSET {Winner(s).key : s \in Slots} :
       /\ image' = [k \in Slots |-> [image[k] EXCEPT !.blank = k \in blank]]
       /\ run' = [run EXCEPT !.step =
            IF Cardinality({s \in Slots : Winner(s).key \in blank}) > Count
            THEN "failing" ELSE "upload"]
  /\ UNCHANGED cand /\ Inside

\* It raises if it finds a face in none of them. (The detector comes with FACE_REFINE, as
\* is the default; without a detector every image passes.)
FaceGate ==
  /\ run.step = "faces"
  /\ \E blank \in SUBSET {Winner(s).key : s \in Slots} :
       /\ image' = [k \in Slots |-> [image[k] EXCEPT !.blank = k \in blank]]
       /\ run' = [run EXCEPT !.step =
            IF Cardinality({s \in Slots : Winner(s).key \in blank}) >= Count
            THEN "failing" ELSE "upload"]
  /\ UNCHANGED cand /\ Inside

\* One image after the other; an upload may fail for good.
Upload ==
  /\ run.step = "upload" /\ run.next < Count
  /\ \/ /\ blobs' = [blobs EXCEPT ![run.next] = Shown(run.next).slot]
        /\ run' = [run EXCEPT !.next = @ + 1]
     \/ /\ run' = [run EXCEPT !.next = @ + 1, !.lost = @ \cup {run.next}]
        /\ UNCHANGED blobs
  /\ UNCHANGED <<row, adapter, crops, cand, image>>

\* What has landed is listed, and the job is completed; nothing at all is a failure.
Complete ==
  /\ run.step = "upload" /\ run.next = Count
  /\ IF run.lost = Slots
     THEN Go("upload", "failing") /\ UNCHANGED <<row, cand, image>>
     ELSE Exit("upload", "done") /\ Write("completed", Slots \ run.lost)
  /\ UNCHANGED <<blobs, adapter, crops>>

\* Whatever raises before the images are delivered: a stage that does not come up, ...
Raise ==
  /\ Working /\ run.step # "failing" /\ run.next = 0
  /\ run' = [run EXCEPT !.step = "failing"]
  /\ UNCHANGED <<cand, image>> /\ Inside

\* ... and its handler.
Fail ==
  /\ Exit("failing", "done") /\ Write("failed", {})
  /\ UNCHANGED <<blobs, adapter, crops>>

\* The container is killed, or cannot write the row for good.
Dies ==
  /\ Working /\ Exit(run.step, "dead")
  /\ Inside

\* The reaper, a cancellation or an administrator fails the job.
FailedElsewhere ==
  /\ Open /\ Write("failed", {})
  /\ UNCHANGED <<blobs, adapter, crops, run, cand, image>>

Container ==
  \/ Boot \/ LoadModel \/ LoadIdentity \/ LoadReference \/ Generate \/ Retry \/ Select
  \/ Enhance \/ FaceGate \/ Upload \/ Complete \/ Raise \/ Dies

-----------------------------------------------------------------------------

\* A job that completes has images, and lists exactly those that were not lost on the way.
\* If none was lost and no slot was retried, then a face is seen in one of them, one of
\* them is enhanced, and each is the image that was rendered and scored for its slot.
ShippedWell ==
  [][row.status # "completed" /\ row'.status = "completed" =>
       /\ row'.paths # {} /\ row'.paths = Slots \ run.lost
       /\ run.lost = {} /\ run.round = 0 =>
            /\ \E s \in Slots : ~Shown(s).blank
            /\ \E s \in Slots : ~Shown(s).rough
            /\ \A s \in Slots : Shown(s).slot = s /\ Shown(s).score = Winner(s).score]_rendering
=============================================================================
