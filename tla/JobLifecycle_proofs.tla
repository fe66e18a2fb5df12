------------------------ MODULE JobLifecycle_proofs ------------------------
(* Theorems about JobLifecycle, for any number of workers and reapers, any *)
(* retry budget and any bound on executions and messages: refunds and      *)
(* debts, the implementation of PaidJob, the retry budget, one live        *)
(* execution.                                                              *)
EXTENDS JobLifecycle, SequenceTheorems, FiniteSetTheorems, TLAPS

Row == [status : Statuses, ext : Nat, history : SUBSET Nat, corrupt : BOOLEAN,
        clock : Clocks, age : Ages, mark : Nat]
Balances == [restored : [Buckets -> Nat], ledger : Nat]
Payer == [funding : FundingKinds, evidence : BOOLEAN, target : BOOLEAN,
          subscribed : BOOLEAN]
Exec == [stage : Stages, fate : Fates]
Hand == [pc : WorkerSteps, exec : Nat]
Sight == [pc : ReaperSteps, exec : Nat, cand : Nat, class : Classes, seen : Params]

-----------------------------------------------------------------------------
(* What the transactions return.                                           *)

LEMMA SetStatusType ==
  ASSUME job \in Row, NEW s \in Statuses, SetStatus(s) PROVE job' \in Row
BY DEF SetStatus, Row

LEMMA RecordIdType ==
  ASSUME job \in Row, NEW e \in Nat, RecordId(e) PROVE job' \in Row
BY DEF RecordId, Row

LEMMA StampClockType ==
  ASSUME job \in Row, NEW e, StampClock(e) PROVE job' \in Row
BY DEF StampClock, Row, Clocks

LEMMA StampType ==
  ASSUME NEW p \in Params, NEW c \in Classes PROVE Stamp(p, c) \in Params
BY DEF Stamp, Params

LEMMA OweType ==
  ASSUME NEW p \in Params PROVE Owe(p) \in Params
BY DEF Owe, Params, Classes, Debts

LEMMA PayType ==
  ASSUME money \in Balances, Pay PROVE money' \in Balances
BY DEF Pay, Restore, Balances

LEMMA SettleType ==
  ASSUME money \in Balances, NEW paid \in Params, NEW owed \in Params, Settle(paid, owed)
  PROVE  money' \in Balances /\ params' \in Params
BY PayType DEF Settle

LEMMA TerminalizeType ==
  ASSUME job \in Row, params \in Params, money \in Balances,
         NEW paid \in Params, NEW owed \in Params, TerminalizeAndRefund(paid, owed)
  PROVE  job' \in Row /\ params' \in Params /\ money' \in Balances
<1>1. CASE job.status \in Terminal  BY <1>1 DEF TerminalizeAndRefund
<1>2. CASE job.status \notin Terminal
  <2>1. SetStatus("failed") /\ Settle(paid, owed)  BY <1>2 DEF TerminalizeAndRefund
  <2> QED  BY <2>1, SetStatusType, SettleType DEF Statuses, Terminal
<1> QED  BY <1>1, <1>2

LEMMA MarkFailedType ==
  ASSUME job \in Row, params \in Params, money \in Balances, MarkFailed
  PROVE  job' \in Row /\ params' \in Params /\ money' \in Balances
BY OweType, TerminalizeType DEF MarkFailed

LEMMA WorkerGoType ==
  ASSUME worker \in [Workers -> Hand], NEW w \in Workers, NEW s \in WorkerSteps,
         NEW e \in Nat, WorkerGo(w, s, e)
  PROVE  worker' \in [Workers -> Hand]
BY DEF WorkerGo, Hand

LEMMA RestType == Rest \in Sight
BY DEF Rest, Sight, ReaperSteps, Classes, Params, Debts

LEMMA DoingType ==
  ASSUME NEW s \in ReaperSteps, NEW e \in Nat PROVE Doing(s, e) \in Sight
BY DEF Doing, Rest, Sight, Classes, Params, Debts

LEMMA StampingType ==
  ASSUME NEW c \in Classes PROVE [Doing("stamp", 0) EXCEPT !.class = c] \in Sight
BY DEF Doing, Rest, Sight, Classes, Params, Debts, ReaperSteps

LEMMA ReaperGoType ==
  ASSUME reaper \in [Reapers -> Sight], NEW r \in Reapers, NEW n \in Sight, ReaperGo(r, n)
  PROVE  reaper' \in [Reapers -> Sight]
BY DEF ReaperGo

\* The newest of a set of executions is one of them, or 0.
LEMMA NewestIsMember ==
  ASSUME NEW S PROVE Newest(S) \in S \cup {0}
BY DEF Newest

LEMMA NewestType ==
  ASSUME NEW S, S \subseteq Listed, execs \in Seq(Exec) PROVE Newest(S) \in Nat
<1>1. \A e \in S : e \in Nat  BY DEF Listed, ExecIds
<1>2. Newest(S) \in S \/ Newest(S) = 0  BY NewestIsMember
<1> QED  BY <1>1, <1>2

\* One execution changes its stage, or fails: the others are left alone.
LEMMA ReplaceExec ==
  ASSUME execs \in Seq(Exec), NEW e, NEW x \in Exec, execs' = [execs EXCEPT ![e] = x]
  PROVE  /\ execs' \in Seq(Exec) /\ Len(execs') = Len(execs)
         /\ \A f \in ExecIds : execs'[f] = IF f = e THEN x ELSE execs[f]
<1>1. CASE e \in ExecIds
  <2>1. execs' \in Seq(Exec) /\ Len(execs') = Len(execs)
    BY <1>1, ExceptSeq DEF ExecIds
  <2> QED  BY <2>1 DEF ExecIds
<1>2. CASE e \notin ExecIds
  <2>1. execs' = execs  BY <1>2 DEF ExecIds
  <2> QED  BY <1>2, <2>1
<1> QED  BY <1>1, <1>2

LEMMA FailsExec ==
  ASSUME execs \in Seq(Exec), NEW e, NEW why \in Fates, Fails(e, why)
  PROVE  /\ execs' \in Seq(Exec) /\ Len(execs') = Len(execs)
         /\ \A f \in ExecIds : execs'[f] = IF f = e THEN [stage |-> "failed", fate |-> why]
                                                    ELSE execs[f]
<1>1. [stage |-> "failed", fate |-> why] \in Exec  BY DEF Exec, Stages
<1> QED  BY <1>1, ReplaceExec DEF Fails

LEMMA BecomesExec ==
  ASSUME execs \in Seq(Exec), NEW e, NEW s \in Stages, Becomes(e, s)
  PROVE  /\ execs' \in Seq(Exec) /\ Len(execs') = Len(execs)
         /\ \A f \in ExecIds : /\ execs'[f].fate = execs[f].fate
                               /\ execs'[f].stage = IF f = e THEN s ELSE execs[f].stage
<1> DEFINE x == [execs[e] EXCEPT !.stage = s]
<1>1. execs' = [execs EXCEPT ![e] = x]  BY DEF Becomes
<1>2. CASE e \in ExecIds
  <2>1. execs[e] \in Exec  BY <1>2 DEF ExecIds
  <2>2. x \in Exec /\ x.stage = s /\ x.fate = execs[e].fate  BY <2>1 DEF Exec
  <2> HIDE DEF x
  <2>3. /\ execs' \in Seq(Exec) /\ Len(execs') = Len(execs)
        /\ \A f \in ExecIds : execs'[f] = IF f = e THEN x ELSE execs[f]
    BY <1>1, <2>2, ReplaceExec
  <2> QED  BY <2>2, <2>3
<1>3. CASE e \notin ExecIds
  <2>1. execs' = execs  BY <1>1, <1>3 DEF ExecIds
  <2> QED  BY <1>3, <2>1
<1> QED  BY <1>2, <1>3

\* Every decision is one of the four actions, and a refund has a class.
LEMMA DecisionsType ==
  ASSUME NEW e, NEW d \in Decisions(e)
  PROVE  d.action \in {"wait", "retry", "verify", "refund"} /\ d.class \in Classes
<1>1. ASSUME NEW stage, NEW v, NEW clock
      PROVE  LET c == Classify(stage, v, clock) IN
               c.action \in {"wait", "retry", "refund"} /\ c.class \in Classes
  BY DEF Classify, Decision, Wait, Classes
<1>2. Wait.action = "wait" /\ Wait.class \in Classes  BY DEF Wait, Decision, Classes
<1>3. LET s == Decision("refund", "stalled") IN s.action = "refund" /\ s.class \in Classes
  BY DEF Decision, Classes
<1>4. LET v == Decision("verify", "absent") IN v.action = "verify" /\ v.class \in Classes
  BY DEF Decision, Classes
<1>5. \/ \E v \in Observations(execs[e], job.clock) : d = Classify(execs[e].stage, v, job.clock)
      \/ d \in {Wait, Decision("refund", "stalled"), Decision("verify", "absent")}
  BY DEF Decisions
<1> QED  BY <1>1, <1>2, <1>3, <1>4, <1>5

-----------------------------------------------------------------------------
(* Type correctness.                                                       *)

LEMMA TypeInit == Init => TypeOK
<1> SUFFICES ASSUME Init PROVE TypeOK  OBVIOUS
<1>1. job \in Row  BY DEF Init, Row, Statuses, Clocks, Ages
<1>2. params \in Params  BY DEF Init, Params, Classes, Debts
<1>3. money \in Balances  BY DEF Init, Balances
<1>4. account \in Payer  BY LifecycleConstants DEF Init, Payer
<1>5. execs \in Seq(Exec)  BY DEF Init
<1>9. messages \in Nat /\ delivered \in BOOLEAN  BY DEF Init
<1>6. worker \in [Workers -> Hand]  BY DEF Init, Hand, WorkerSteps
<1>7. reaper \in [Reapers -> Sight]  BY RestType DEF Init
<1>8. canceller \in [pc : CancellerSteps, exec : Nat]  BY DEF Init, CancellerSteps
<1> QED
  BY <1>1, <1>2, <1>3, <1>4, <1>5, <1>6, <1>7, <1>8, <1>9
  DEF TypeOK, Row, Balances, Payer, Exec, Hand, Sight

\* The variables that a step of each actor leaves alone are dealt with once.
DispatcherTypes ==
  /\ job \in Row /\ params \in Params /\ money \in Balances
  /\ messages \in Nat /\ execs \in Seq(Exec) /\ worker \in [Workers -> Hand]
WorldTypes ==
  /\ account \in Payer /\ delivered \in BOOLEAN
  /\ reaper \in [Reapers -> Sight]
  /\ canceller \in [pc : CancellerSteps, exec : Nat]

LEMMA TypeParts == TypeOK <=> DispatcherTypes /\ WorldTypes
BY DEF TypeOK, DispatcherTypes, WorldTypes, Row, Balances, Payer, Exec, Hand, Sight

LEMMA TypePartsPrime == TypeOK' <=> DispatcherTypes' /\ WorldTypes'
BY DEF TypeOK, DispatcherTypes, WorldTypes, Row, Balances, Payer, Exec, Hand, Sight

LEMMA DispatcherType ==
  ASSUME DispatcherTypes, NEW w \in Workers, Dispatcher(w) \/ Crash(w)
  PROVE  DispatcherTypes'
<1> USE DEF DispatcherTypes
<1>1. CASE Claim(w)
  <2>1. Len(execs) \in Nat  OBVIOUS
  <2>5. "dispatching" \in Statuses /\ 0 \in Ages  BY DEF Statuses, Ages
  <2>6. job' = [job EXCEPT !.status = "dispatching", !.age = 0, !.mark = Len(execs)]
    BY <1>1 DEF Claim
  <2>4. job' \in Row  BY <2>1, <2>5, <2>6 DEF Row
  <2>2. worker' \in [Workers -> Hand]  BY <1>1, WorkerGoType DEF Claim, WorkerSteps
  <2>3. messages' \in Nat  BY <1>1 DEF Claim
  <2> QED  BY <1>1, <2>4, <2>2, <2>3 DEF Claim
<1>2. CASE TurnAway(w)
  BY <1>2 DEF TurnAway
<1>3. CASE RecoverGap(w)
  <2>1. Newest(Listed) \in Nat  BY NewestType
  <2>2. worker' \in [Workers -> Hand]
    BY <1>3, <2>1, WorkerGoType DEF RecoverGap, WorkerSteps
  <2>3. messages' \in Nat  BY <1>3 DEF RecoverGap
  <2> QED  BY <1>3, <2>2, <2>3 DEF RecoverGap
<1>4. CASE GiveUp(w)
  <2>1. messages' \in Nat  BY <1>4 DEF GiveUp
  <2> QED  BY <1>4, <2>1, MarkFailedType DEF GiveUp
<1>5. CASE StartExec(w)
  <2>1. [stage |-> "hidden", fate |-> "none"] \in Exec  BY DEF Exec, Stages, Fates
  <2>2. execs' \in Seq(Exec)  BY <1>5, <2>1, AppendProperties DEF StartExec
  <2>3. worker' \in [Workers -> Hand]  BY <1>5, WorkerGoType DEF StartExec, WorkerSteps
  <2> QED  BY <1>5, <2>2, <2>3 DEF StartExec
<1>6. CASE StartRaises(w)
  <2>1. worker' \in [Workers -> Hand]  BY <1>6, WorkerGoType DEF StartRaises, WorkerSteps
  <2> QED  BY <1>6, <2>1 DEF StartRaises
<1>7. CASE Revert(w)
  <2>1. worker' \in [Workers -> Hand]  BY <1>7, WorkerGoType DEF Revert, WorkerSteps
  <2>2. (IF job.status = "dispatching" THEN "queued" ELSE job.status) \in Statuses
    BY DEF Row, Statuses
  <2>3. job' \in Row  BY <1>7, <2>2, SetStatusType DEF Revert
  <2>4. messages' \in Nat  BY <1>7 DEF Revert
  <2> QED  BY <1>7, <2>1, <2>3, <2>4 DEF Revert
<1>8. CASE Record(w)
  <2>1. worker[w].exec \in Nat  BY DEF Hand
  <2>2. job' \in Row  BY <1>8, <2>1, RecordIdType DEF Record
  <2>3. worker' \in [Workers -> Hand]  BY <1>8, WorkerGoType DEF Record, WorkerSteps
  <2> QED  BY <1>8, <2>2, <2>3 DEF Record
<1>9. CASE Crash(w)
  <2>1. worker' \in [Workers -> Hand]  BY <1>9, WorkerGoType DEF Crash, WorkerSteps
  <2>2. messages' \in Nat  BY <1>9 DEF Crash
  <2> QED  BY <1>9, <2>1, <2>2 DEF Crash
<1> QED
  BY <1>1, <1>2, <1>3, <1>4, <1>5, <1>6, <1>7, <1>8, <1>9 DEF Dispatcher

LEMMA DispatcherWorld ==
  ASSUME WorldTypes, NEW w \in Workers, Dispatcher(w) \/ Crash(w)
  PROVE  WorldTypes'
BY DEF WorldTypes, Dispatcher, Claim, TurnAway, RecoverGap, GiveUp, StartExec,
       StartRaises, Revert, Record, Crash

LEMMA ContainerType ==
  ASSUME DispatcherTypes, WorldTypes, NEW e \in ExecIds, Container(e)
  PROVE  DispatcherTypes' /\ WorldTypes'
<1> USE DEF DispatcherTypes
<1>1. job.status \in Statuses  BY DEF Row
<1>2. execs' \in Seq(Exec)
  <2>1. \/ \E s \in Stages : Becomes(e, s)
        \/ \E why \in Fates : Fails(e, why)
    BY Zenon DEF Container, Appears, ProvisionFails, Boots, Processing, Delivers,
       Completes, ContainerFails, Dies, Stages, Fates
  <2> QED  BY <2>1, BecomesExec, FailsExec
<1>3. job' \in Row
  <2>1. ASSUME NEW s \in Statuses, Verdict(s) PROVE job' \in Row
    BY <1>1, <2>1, SetStatusType DEF Verdict
  <2>2. job' = job \/ \E s \in Statuses : Verdict(s)
    BY DEF Container, Appears, ProvisionFails, Boots, Processing, Delivers,
       Completes, ContainerFails, Dies, Statuses, Terminal
  <2> QED  BY <2>1, <2>2
<1>4. money' \in Balances
  <2>1. \/ money' = money
        \/ money' = [money EXCEPT !.restored["aggregate"] = @ + 1]
    BY DEF Container, Appears, ProvisionFails, Boots, Processing, Delivers,
       Completes, ContainerFails, Dies
  <2> QED  BY <2>1 DEF Balances, Buckets
<1>5. UNCHANGED <<params, messages, worker, account, reaper, canceller>>
  BY DEF Container, Appears, ProvisionFails, Boots, Processing, Delivers,
     Completes, ContainerFails, Dies
<1>6. delivered' \in BOOLEAN
  BY DEF WorldTypes, Container, Appears, ProvisionFails, Boots, Processing, Delivers,
     Completes, ContainerFails, Dies
<1> QED  BY <1>2, <1>3, <1>4, <1>5, <1>6 DEF WorldTypes

-----------------------------------------------------------------------------
LEMMA ReaperType ==
  ASSUME DispatcherTypes, WorldTypes, NEW r \in Reapers, Reap(r)
  PROVE  DispatcherTypes' /\ WorldTypes'
<1> USE DEF DispatcherTypes, WorldTypes
<1> DEFINE Kept == UNCHANGED <<account, execs, delivered, worker, canceller>>
<1>0. Kept
  BY DEF Reap, Sweep, RecordFound, Fetch, Retry, Orphan, Adopt, AgeOrphan, Bury, Corrupt,
     VerifyDelivery, RecoverCompleted, ReadStamp, WriteStamp, FailJob, ReadDebt, PayDebt
<1>a. /\ job.ext \in Nat /\ job.status \in Statuses /\ job.clock \in Clocks
      /\ reaper[r] \in Sight
  BY DEF Row
<1>b. /\ reaper[r].exec \in Nat /\ reaper[r].cand \in Nat /\ reaper[r].class \in Classes
      /\ reaper[r].seen \in Params /\ Rest \in Sight
  BY <1>a, RestType DEF Sight
<1>1. CASE Sweep(r)
  <2>1. Newest(Listed \ job.history) \in Nat  BY NewestType
  <2>2. reaper' \in [Reapers -> Sight]
    BY <1>1, <2>1, DoingType, ReaperGoType DEF Sweep, ReaperSteps
  <2> QED  BY <1>0, <1>1, <2>2 DEF Sweep
<1>2. CASE RecordFound(r)
  <2>1. job' \in Row  BY <1>2, <1>b, RecordIdType DEF RecordFound
  <2>2. reaper' \in [Reapers -> Sight]  BY <1>2, <1>b, ReaperGoType DEF RecordFound
  <2> QED  BY <1>0, <1>2, <2>1, <2>2 DEF RecordFound
<1>3. CASE Fetch(r)
  <2>1. job' \in Row  BY <1>3, StampClockType DEF Fetch
  <2>2. reaper' \in [Reapers -> Sight]
    <3>1. "infra_timeout" \in Classes  BY DEF Classes
    <3>2. CASE ReaperGo(r, [Doing("stamp", 0) EXCEPT !.class = "infra_timeout"])
      BY <3>1, <3>2, StampingType, ReaperGoType
    <3>3. ASSUME NEW d \in Decisions(job.ext),
                 ReaperGo(r, CASE d.action = "wait"   -> Rest
                               [] d.action = "retry"  -> Doing("retry", job.ext)
                               [] d.action = "verify" -> Doing("verify", 0)
                               [] d.action = "refund" -> [Doing("stamp", 0) EXCEPT !.class = d.class])
          PROVE  reaper' \in [Reapers -> Sight]
      <4>1. d.action \in {"wait", "retry", "verify", "refund"} /\ d.class \in Classes
        BY DecisionsType
      <4>2. /\ [Doing("stamp", 0) EXCEPT !.class = d.class] \in Sight
            /\ Doing("retry", job.ext) \in Sight /\ Doing("verify", 0) \in Sight
        BY <1>a, <4>1, StampingType, DoingType DEF ReaperSteps
      <4>3. \E n \in Sight : ReaperGo(r, n)
        BY <1>b, <3>3, <4>1, <4>2
      <4> QED  BY <4>3, ReaperGoType
    <3> QED  BY <1>3, <3>2, <3>3 DEF Fetch
  <2> QED  BY <1>0, <1>3, <2>1, <2>2 DEF Fetch
<1>4. CASE Retry(r)
  <2>1. /\ Doing("orphan", reaper[r].exec) \in Sight /\ Doing("fail", 0) \in Sight
    BY <1>b, DoingType DEF ReaperSteps
  <2>2. reaper' \in [Reapers -> Sight]
    BY <1>4, <1>b, <2>1, ReaperGoType DEF Retry
  <2>3. CASE UNCHANGED <<job, params, money, messages>>
    BY <1>0, <2>2, <2>3
  <2>4. CASE Requeue(reaper[r].exec)
    <3>1. job' \in Row  BY <1>b, <2>4 DEF Requeue, Row, Statuses, Clocks
    <3> QED  BY <1>0, <2>2, <2>4, <3>1 DEF Requeue
  <2>5. CASE Exhaust(reaper[r].exec)
    <3>1. job' \in Row  BY <1>b, <2>5 DEF Exhaust, Row, Statuses, Terminal
    <3>2. "pre_container" \in Classes  BY DEF Classes
    <3>3. money' \in Balances /\ params' \in Params
      BY <2>5, <3>2, StampType, OweType, SettleType DEF Exhaust
    <3> QED  BY <1>0, <2>2, <2>5, <3>1, <3>3 DEF Exhaust
  <2> QED  BY <1>4, <2>3, <2>4, <2>5 DEF Retry
<1>5. CASE Orphan(r)
  <2> DEFINE S == {x \in Listed \ (job.history \cup {reaper[r].exec}) : x > job.mark}
  <2>1. Newest(S) \in Nat  BY NewestType
  <2>2. ASSUME NEW c \in Nat
        PROVE  [Doing("adopt", reaper[r].exec) EXCEPT !.cand = c] \in Sight
    BY <1>b DEF Doing, Rest, Sight, Classes, Params, Debts, ReaperSteps
  <2>3. /\ Doing("age", reaper[r].exec) \in Sight /\ Doing("bury", reaper[r].exec) \in Sight
        /\ Doing("corrupt", 0) \in Sight
    BY <1>b, DoingType DEF ReaperSteps
  <2>4. \E n \in Sight : ReaperGo(r, n)
    BY <1>5, <1>b, <2>1, <2>2, <2>3, 0 \in Nat DEF Orphan
  <2>5. reaper' \in [Reapers -> Sight]  BY <2>4, ReaperGoType
  <2> QED  BY <1>0, <1>5, <2>5 DEF Orphan
<1>6. CASE Adopt(r)
  <2>1. job' \in Row  BY <1>6, <1>b DEF Adopt, Row, Clocks
  <2>2. reaper' \in [Reapers -> Sight]  BY <1>6, <1>b, ReaperGoType DEF Adopt
  <2> QED  BY <1>0, <1>6, <2>1, <2>2 DEF Adopt
<1>7. CASE AgeOrphan(r)
  <2>1. job' \in Row  BY <1>7, StampClockType DEF AgeOrphan
  <2>2. reaper' \in [Reapers -> Sight]  BY <1>7, <1>b, ReaperGoType DEF AgeOrphan
  <2> QED  BY <1>0, <1>7, <2>1, <2>2 DEF AgeOrphan
<1>8. CASE Bury(r)
  <2> DEFINE stamped == Stamp(params, "unclassified")
  <2>1. stamped \in Params /\ Owe(stamped) \in Params
    BY StampType, OweType DEF Classes
  <2>2. job' \in Row /\ params' \in Params /\ money' \in Balances
    BY <1>8, <2>1, TerminalizeType DEF Bury
  <2>3. reaper' \in [Reapers -> Sight]  BY <1>8, <1>b, ReaperGoType DEF Bury
  <2> QED  BY <1>0, <1>8, <2>2, <2>3 DEF Bury
<1>9. CASE Corrupt(r)
  <2> DEFINE stamped == Stamp(params, "history_corrupt")
  <2>1. stamped \in Params /\ Owe(stamped) \in Params
    BY StampType, OweType DEF Classes
  <2>2. job' \in Row /\ params' \in Params /\ money' \in Balances
    BY <1>9, <2>1, TerminalizeType DEF Corrupt
  <2>3. reaper' \in [Reapers -> Sight]  BY <1>9, <1>b, ReaperGoType DEF Corrupt
  <2> QED  BY <1>0, <1>9, <2>2, <2>3 DEF Corrupt
<1>10. CASE VerifyDelivery(r)
  <2>1. /\ [Doing("stamp", 0) EXCEPT !.class = "delivery_missing"] \in Sight
        /\ Doing("complete", 0) \in Sight
    BY StampingType, DoingType DEF Classes, ReaperSteps
  <2>2. reaper' \in [Reapers -> Sight]
    BY <1>10, <1>b, <2>1, ReaperGoType DEF VerifyDelivery
  <2> QED  BY <1>0, <1>10, <2>2 DEF VerifyDelivery
<1>11. CASE RecoverCompleted(r)
  <2>1. job' \in Row
    BY <1>11, <1>a, SetStatusType DEF RecoverCompleted, Verdict, Statuses, Terminal
  <2>2. reaper' \in [Reapers -> Sight]  BY <1>11, <1>b, ReaperGoType DEF RecoverCompleted
  <2> QED  BY <1>0, <1>11, <2>1, <2>2 DEF RecoverCompleted
<1>12. CASE ReadStamp(r)
  <2>1. [reaper[r] EXCEPT !.pc = "write", !.seen = params] \in Sight
    BY <1>a DEF Sight, ReaperSteps
  <2>2. reaper' \in [Reapers -> Sight]  BY <1>12, <2>1, ReaperGoType DEF ReadStamp
  <2> QED  BY <1>0, <1>12, <2>2 DEF ReadStamp
<1>13. CASE WriteStamp(r)
  <2>1. params' \in Params  BY <1>13, <1>b, StampType DEF WriteStamp
  <2>2. reaper' \in [Reapers -> Sight]
    BY <1>13, DoingType, ReaperGoType DEF WriteStamp, ReaperSteps
  <2> QED  BY <1>0, <1>13, <2>1, <2>2 DEF WriteStamp
<1>14. CASE FailJob(r)
  <2>1. job' \in Row /\ params' \in Params /\ money' \in Balances
    BY <1>14, MarkFailedType DEF FailJob
  <2>2. reaper' \in [Reapers -> Sight]  BY <1>14, <1>b, ReaperGoType DEF FailJob
  <2> QED  BY <1>0, <1>14, <2>1, <2>2 DEF FailJob
<1>15. CASE ReadDebt(r)
  <2>1. [Doing("settle", 0) EXCEPT !.seen = params] \in Sight
    BY DEF Doing, Rest, Sight, Classes, ReaperSteps
  <2>2. reaper' \in [Reapers -> Sight]  BY <1>15, <2>1, ReaperGoType DEF ReadDebt
  <2> QED  BY <1>0, <1>15, <2>2 DEF ReadDebt
<1>16. CASE PayDebt(r)
  <2>1. params' \in Params  BY <1>16 DEF PayDebt, Params, Debts
  <2>2. money' \in Balances  BY <1>16, PayType DEF PayDebt
  <2>3. reaper' \in [Reapers -> Sight]  BY <1>16, <1>b, ReaperGoType DEF PayDebt
  <2> QED  BY <1>0, <1>16, <2>1, <2>2, <2>3 DEF PayDebt
<1> QED
  BY <1>1, <1>2, <1>3, <1>4, <1>5, <1>6, <1>7, <1>8, <1>9, <1>10, <1>11, <1>12, <1>13,
     <1>14, <1>15, <1>16 DEF Reap

LEMMA WorldType ==
  ASSUME DispatcherTypes, WorldTypes,
         Redeliver \/ Cancel \/ AdminRetry \/ Tick \/ CorruptHistory \/ PayerChanges
  PROVE  DispatcherTypes' /\ WorldTypes'
<1> USE DEF DispatcherTypes, WorldTypes
<1>1. CASE Redeliver
  BY <1>1 DEF Redeliver
<1>2. CASE Cancel
  <2>1. canceller' \in [pc : CancellerSteps, exec : Nat]
    BY <1>2 DEF Cancel, Row, CancellerSteps
  <2>2. execs' \in Seq(Exec)
    <3>1. execs' = execs \/ Becomes(canceller.exec, "stopped")  BY <1>2 DEF Cancel
    <3> QED  BY <3>1, BecomesExec DEF Stages
  <2>3. job' \in Row /\ params' \in Params /\ money' \in Balances
    <3>1. UNCHANGED <<job, params, money>> \/ MarkFailed  BY <1>2 DEF Cancel
    <3> QED  BY <3>1, MarkFailedType
  <2> QED  BY <1>2, <2>1, <2>2, <2>3 DEF Cancel
<1>3. CASE AdminRetry
  <2>1. job' \in Row  BY <1>3 DEF AdminRetry, Row, Statuses
  <2> QED  BY <1>3, <2>1 DEF AdminRetry
<1>4. CASE Tick
  <2>1. job.age \in 0..3 /\ (job.age < 3 => job.age + 1 \in 0..3)  BY DEF Row, Ages
  <2>2. \/ job' = [job EXCEPT !.clock = "graced"]
        \/ job' = [job EXCEPT !.clock = "expired"]
        \/ job' = [job EXCEPT !.age = job.age + 1] /\ job.age + 1 \in 0..3
    BY <1>4, <2>1 DEF Tick
  <2>3. job' \in Row  BY <2>2 DEF Row, Clocks, Ages
  <2> QED  BY <1>4, <2>3 DEF Tick
<1>5. CASE CorruptHistory
  <2>1. job' \in Row  BY <1>5 DEF CorruptHistory, Row
  <2> QED  BY <1>5, <2>1 DEF CorruptHistory
<1>6. CASE PayerChanges
  <2>1. account' \in Payer  BY <1>6 DEF PayerChanges, Payer
  <2> QED  BY <1>6, <2>1 DEF PayerChanges
<1> QED  BY <1>1, <1>2, <1>3, <1>4, <1>5, <1>6

LEMMA TypeStep == TypeOK /\ [Next]_vars => TypeOK'
<1> SUFFICES ASSUME DispatcherTypes, WorldTypes, [Next]_vars
             PROVE  DispatcherTypes' /\ WorldTypes'
  BY TypeParts, TypePartsPrime
<1>1. CASE \E w \in Workers : Dispatcher(w) \/ Crash(w)
  BY <1>1, DispatcherType, DispatcherWorld
<1>2. CASE \E e \in ExecIds : Container(e)
  BY <1>2, ContainerType
<1>3. CASE \E r \in Reapers : Reap(r)
  BY <1>3, ReaperType
<1>4. CASE Redeliver \/ Cancel \/ AdminRetry \/ Tick \/ CorruptHistory \/ PayerChanges
  BY <1>4, WorldType
<1>5. CASE UNCHANGED vars
  BY <1>5 DEF vars, DispatcherTypes, WorldTypes
<1> QED  BY <1>1, <1>2, <1>3, <1>4, <1>5 DEF Next

\* TypeOK is an invariant: whatever the funding, the faults and the number of
\* workers and reapers, the row, the money and every actor stay in their types.
THEOREM TypeCorrect == Spec => []TypeOK
<1>1. Init => TypeOK  BY TypeInit
<1>2. TypeOK /\ [Next]_vars => TypeOK'  BY TypeStep
<1> QED  BY <1>1, <1>2, PTL DEF Spec

-----------------------------------------------------------------------------
(* The refund. PaidUnlessFailed and RefundOnce are not inductive: a debt   *)
(* must also be known to be unpaid, and the copy of job_params that a      *)
(* reaper carries must not be able to bring a settled debt back.           *)

Untouched == money.ledger = 0 /\ \A b \in Buckets : money.restored[b] = 0
DebtUnpaid == params.debt # "none" => params.class # "absent" /\ Untouched
Settlement == PaidUnlessFailed /\ RefundOnce /\ DebtUnpaid
SeenOK ==
  \A r \in Reapers : reaper[r].seen.debt # "none" => reaper[r].seen.class # "absent"
MoneyInv == Settlement /\ SeenOK

\* No step but an administrator's retry takes a job out of 'failed'.
Calm == /\ UNCHANGED <<money, params, account>>
        /\ job'.status # "failed" => job.status # "failed"

LEMMA CalmStep ==
  ASSUME Settlement, Calm PROVE Settlement'
BY DEF Settlement, Calm, PaidUnlessFailed, RefundOnce, DebtUnpaid, Untouched

\* A refund that starts from untouched balances, and leaves no debt, restores each once.
LEMMA PayOnce ==
  ASSUME money \in Balances, Untouched, Pay, params'.debt = "none" PROVE RefundOnce'
BY DEF Pay, Restore, RefundOnce, Untouched, Balances

LEMMA OweRecorded == ASSUME NEW p \in Params PROVE Owe(p).class # "absent"
BY DEF Owe, Params

LEMMA StampKeepsDebt ==
  ASSUME NEW p \in Params, NEW c \in Classes
  PROVE  /\ Stamp(p, c).debt = p.debt
         /\ p.class # "absent" => Stamp(p, c).class # "absent"
BY DEF Stamp, Params

LEMMA SettleOnce ==
  ASSUME money \in Balances, params \in Params, Settlement, job.status \notin Terminal,
         job'.status = "failed",
         NEW paid \in Params, paid.debt = params.debt,
         NEW owed \in Params, owed.class # "absent", Settle(paid, owed)
  PROVE  Settlement'
<1>1. Untouched /\ params.debt = "none" /\ RefundOnce
  BY DEF Settlement, PaidUnlessFailed, Untouched, Terminal
<1>2. PaidUnlessFailed'  BY DEF PaidUnlessFailed
<1>3. CASE Pay /\ params' = paid
  <2>1. params'.debt = "none"  BY <1>1, <1>3
  <2>2. RefundOnce'  BY <1>1, <1>3, <2>1, PayOnce
  <2> QED  BY <1>2, <2>1, <2>2 DEF Settlement, DebtUnpaid
<1>4. CASE params' = owed /\ UNCHANGED money
  <2>1. RefundOnce' /\ Untouched'  BY <1>1, <1>4 DEF RefundOnce, Untouched
  <2> QED  BY <1>2, <1>4, <2>1 DEF Settlement, DebtUnpaid
<1> QED  BY <1>3, <1>4 DEF Settle

LEMMA TerminalizeOnce ==
  ASSUME job \in Row, money \in Balances, params \in Params, Settlement,
         NEW paid \in Params, paid.debt = params.debt,
         NEW owed \in Params, owed.class # "absent", TerminalizeAndRefund(paid, owed)
  PROVE  Settlement'
<1>1. CASE job.status \in Terminal
  <2>1. UNCHANGED <<job, params, money>>  BY <1>1 DEF TerminalizeAndRefund
  <2> QED  BY <2>1 DEF Settlement, PaidUnlessFailed, RefundOnce, DebtUnpaid, Untouched
<1>2. CASE job.status \notin Terminal
  <2>1. job'.status = "failed" /\ Settle(paid, owed)
    BY <1>2 DEF TerminalizeAndRefund, SetStatus, Row
  <2> QED  BY <1>2, <2>1, SettleOnce
<1> QED  BY <1>1, <1>2

LEMMA MarkFailedOnce ==
  ASSUME job \in Row, money \in Balances, params \in Params, Settlement, MarkFailed
  PROVE  Settlement'
BY OweType, OweRecorded, TerminalizeOnce DEF MarkFailed

LEMMA MoneyInit == Init => MoneyInv
BY DEF Init, MoneyInv, Settlement, SeenOK, PaidUnlessFailed, RefundOnce, DebtUnpaid,
       Untouched, Rest

LEMMA DispatcherSettles ==
  ASSUME DispatcherTypes, Settlement, NEW w \in Workers, Dispatcher(w) \/ Crash(w)
  PROVE  Settlement'
<1> USE DEF DispatcherTypes
<1>1. CASE GiveUp(w)
  BY <1>1, MarkFailedOnce DEF GiveUp
<1>2. CASE ~GiveUp(w)
  <2>1. UNCHANGED <<money, params, account>>
    BY <1>2 DEF Dispatcher, Claim, TurnAway, RecoverGap, StartExec, StartRaises, Revert,
       Record, Crash
  <2>2. job'.status # "failed" => job.status # "failed"
    BY <1>2 DEF Dispatcher, Claim, TurnAway, RecoverGap, StartExec, StartRaises, Revert,
       Record, Crash, SetStatus, RecordId, Row
  <2> QED  BY <2>1, <2>2, CalmStep DEF Calm
<1> QED  BY <1>1, <1>2

LEMMA ContainerSettles ==
  ASSUME DispatcherTypes, Settlement, NEW e \in ExecIds, Container(e)
  PROVE  Settlement'
<1> USE DEF DispatcherTypes
<1>1. CASE ContainerFails(e) /\ job.status \notin Terminal
  <2>1. Untouched /\ params.debt = "none" /\ RefundOnce
    BY <1>1 DEF Settlement, PaidUnlessFailed, Untouched, Terminal
  <2>2. job'.status = "failed" /\ params' = params
    BY <1>1 DEF ContainerFails, Verdict, SetStatus, Row
  <2>3. money' = money \/ money' = [money EXCEPT !.restored["aggregate"] = @ + 1]
    BY <1>1 DEF ContainerFails
  <2>4. RefundOnce'  BY <2>1, <2>3 DEF RefundOnce, Untouched, Balances, Buckets
  <2> QED  BY <2>1, <2>2, <2>4 DEF Settlement, PaidUnlessFailed, DebtUnpaid
<1>2. CASE ContainerFails(e) /\ job.status \in Terminal
  <2>1. UNCHANGED <<money, params, account>> /\ job'.status = job.status
    BY <1>2 DEF ContainerFails, Verdict, SetStatus, Row
  <2> QED  BY <2>1, CalmStep DEF Calm
<1>3. CASE ~ContainerFails(e)
  <2>1. UNCHANGED <<money, params, account>>
    BY <1>3 DEF Container, Appears, ProvisionFails, Boots, Processing, Delivers,
       Completes, Dies
  <2>2. job'.status # "failed" => job.status # "failed"
    BY <1>3 DEF Container, Appears, ProvisionFails, Boots, Processing, Delivers,
       Completes, Dies, Verdict, SetStatus, Row, Terminal
  <2> QED  BY <2>1, <2>2, CalmStep DEF Calm
<1> QED  BY <1>1, <1>2, <1>3

LEMMA ReaperSettles ==
  ASSUME DispatcherTypes, WorldTypes, MoneyInv, NEW r \in Reapers, Reap(r)
  PROVE  Settlement'
<1> USE DEF DispatcherTypes, MoneyInv
<1>1. CASE Retry(r)
  <2>1. CASE UNCHANGED <<job, params, money, messages>>
    BY <2>1 DEF Settlement, PaidUnlessFailed, RefundOnce, DebtUnpaid, Untouched
  <2>2. CASE Requeue(reaper[r].exec) /\ job.status \in {"processing", "dispatching"}
    <3>1. Calm  BY <1>1, <2>2 DEF Retry, Requeue, Calm, Row
    <3> QED  BY <3>1, CalmStep
  <2>3. CASE Exhaust(reaper[r].exec) /\ job.status \in {"processing", "dispatching"}
    <3> DEFINE c == "pre_container"
    <3>1. /\ Stamp(params, c) \in Params /\ Stamp(params, c).debt = params.debt
          /\ Stamp(Owe(params), c) \in Params /\ Stamp(Owe(params), c).class # "absent"
      BY StampType, OweType, OweRecorded, StampKeepsDebt DEF Classes
    <3>2. job'.status = "failed" /\ job.status \notin Terminal
      BY <2>3 DEF Exhaust, Row, Terminal
    <3>3. Settle(Stamp(params, c), Stamp(Owe(params), c))  BY <2>3 DEF Exhaust
    <3> QED  BY <3>1, <3>2, <3>3, SettleOnce
  <2> QED  BY <1>1, <2>1, <2>2, <2>3 DEF Retry
<1>2. CASE Bury(r)
  <2> DEFINE stamped == Stamp(params, "unclassified")
  <2>1. /\ stamped \in Params /\ stamped.debt = params.debt
        /\ Owe(stamped) \in Params /\ Owe(stamped).class # "absent"
    BY StampType, OweType, OweRecorded, StampKeepsDebt DEF Classes
  <2>2. \/ TerminalizeAndRefund(stamped, Owe(stamped))
        \/ UNCHANGED <<job, params, money>>
    BY <1>2 DEF Bury
  <2> HIDE DEF stamped
  <2>3. CASE TerminalizeAndRefund(stamped, Owe(stamped))
    BY <2>1, <2>3, TerminalizeOnce
  <2>4. CASE UNCHANGED <<job, params, money>>
    BY <2>4 DEF Settlement, PaidUnlessFailed, RefundOnce, DebtUnpaid, Untouched
  <2> QED  BY <2>2, <2>3, <2>4
<1>3. CASE Corrupt(r)
  <2> DEFINE stamped == Stamp(params, "history_corrupt")
  <2>1. /\ stamped \in Params /\ stamped.debt = params.debt
        /\ Owe(stamped) \in Params /\ Owe(stamped).class # "absent"
    BY StampType, OweType, OweRecorded, StampKeepsDebt DEF Classes
  <2>2. \/ TerminalizeAndRefund(stamped, Owe(stamped))
        \/ UNCHANGED <<job, params, money>>
    BY <1>3 DEF Corrupt
  <2> HIDE DEF stamped
  <2>3. CASE TerminalizeAndRefund(stamped, Owe(stamped))
    BY <2>1, <2>3, TerminalizeOnce
  <2>4. CASE UNCHANGED <<job, params, money>>
    BY <2>4 DEF Settlement, PaidUnlessFailed, RefundOnce, DebtUnpaid, Untouched
  <2> QED  BY <2>2, <2>3, <2>4
<1>4. CASE FailJob(r)
  BY <1>4, MarkFailedOnce DEF FailJob
<1>5. CASE WriteStamp(r)
  <2>1. CASE reaper[r].seen.class = "absent"
    <3>1. reaper[r].seen \in Params /\ reaper[r].class \in Classes
      BY DEF WorldTypes, Sight
    <3>2. reaper[r].seen.debt = "none"  BY <2>1 DEF SeenOK
    <3>3. params'.debt = "none"  BY <1>5, <2>1, <3>1, <3>2, StampKeepsDebt DEF WriteStamp
    <3>4. UNCHANGED <<job, money>>  BY <1>5 DEF WriteStamp
    <3> QED
      BY <3>3, <3>4 DEF Settlement, PaidUnlessFailed, RefundOnce, DebtUnpaid, Untouched
  <2>2. CASE reaper[r].seen.class # "absent"
    <3>1. Calm  BY <1>5, <2>2 DEF WriteStamp, Calm
    <3> QED  BY <3>1, CalmStep
  <2> QED  BY <2>1, <2>2
<1>6. CASE PayDebt(r)
  <2>1. CASE UNCHANGED <<params, money>>
    BY <1>6, <2>1 DEF PayDebt, Settlement, PaidUnlessFailed, RefundOnce, DebtUnpaid, Untouched
  <2>2. CASE /\ params.debt # "none" /\ params' = [params EXCEPT !.debt = "none"]
             /\ money.ledger = 1 \/ Pay
    <3>1. Untouched /\ job.status = "failed"
      BY <2>2 DEF Settlement, DebtUnpaid, PaidUnlessFailed
    <3>2. params'.debt = "none" /\ job' = job  BY <1>6, <2>2 DEF PayDebt, Params
    <3>3. RefundOnce'  BY <2>2, <3>1, <3>2, PayOnce DEF Untouched
    <3> QED  BY <3>1, <3>2, <3>3 DEF Settlement, PaidUnlessFailed, DebtUnpaid
  <2> QED  BY <1>6, <2>1, <2>2 DEF PayDebt
<1>7. CASE \/ Sweep(r) \/ RecordFound(r) \/ Fetch(r) \/ Orphan(r) \/ Adopt(r) \/ AgeOrphan(r)
           \/ VerifyDelivery(r) \/ RecoverCompleted(r) \/ ReadStamp(r) \/ ReadDebt(r)
  <2>1. UNCHANGED <<money, params, account>>
    BY <1>7 DEF Sweep, RecordFound, Fetch, Orphan, Adopt, AgeOrphan, VerifyDelivery,
       RecoverCompleted, ReadStamp, ReadDebt
  <2>2. job'.status # "failed" => job.status # "failed"
    BY <1>7 DEF Sweep, RecordFound, Fetch, Orphan, Adopt, AgeOrphan, VerifyDelivery,
       RecoverCompleted, ReadStamp, ReadDebt, RecordId, StampClock, Verdict, SetStatus,
       Row, Terminal
  <2> QED  BY <2>1, <2>2, CalmStep DEF Calm
<1> QED  BY <1>1, <1>2, <1>3, <1>4, <1>5, <1>6, <1>7 DEF Reap

LEMMA WorldSettles ==
  ASSUME DispatcherTypes, Settlement, "adminRetry" \notin Faults,
         Redeliver \/ Cancel \/ AdminRetry \/ Tick \/ CorruptHistory \/ PayerChanges
  PROVE  Settlement'
<1> USE DEF DispatcherTypes
<1>1. CASE Cancel
  <2>1. UNCHANGED <<job, params, money>> \/ MarkFailed  BY <1>1 DEF Cancel
  <2>2. CASE UNCHANGED <<job, params, money>>
    BY <2>2 DEF Settlement, PaidUnlessFailed, RefundOnce, DebtUnpaid, Untouched
  <2> QED  BY <2>1, <2>2, MarkFailedOnce
<1>2. CASE Redeliver \/ Tick \/ CorruptHistory \/ PayerChanges
  <2>1. UNCHANGED <<params, money>> /\ job'.status = job.status
    BY <1>2 DEF Redeliver, Tick, CorruptHistory, PayerChanges, Row
  <2> QED  BY <2>1 DEF Settlement, PaidUnlessFailed, RefundOnce, DebtUnpaid, Untouched
<1> QED  BY <1>1, <1>2 DEF AdminRetry

\* What a reaper carries of job_params is blank, or a copy of what they were.
LEMMA SeenStep ==
  ASSUME WorldTypes, MoneyInv, NEW r \in Reapers, Reap(r)
  PROVE  SeenOK'
<1> USE DEF MoneyInv, WorldTypes
<1>1. ASSUME NEW n, ReaperGo(r, n), n.seen \in {reaper[r].seen, params, Rest.seen}
      PROVE  SeenOK'
  <2>1. n.seen.debt # "none" => n.seen.class # "absent"
    BY <1>1 DEF SeenOK, Settlement, DebtUnpaid, Rest
  <2> QED  BY <1>1, <2>1 DEF SeenOK, ReaperGo
<1>2. /\ \A s, e : Doing(s, e).seen = Rest.seen
      /\ \A c : [Doing("stamp", 0) EXCEPT !.class = c].seen = Rest.seen
      /\ \A e, c : [Doing("adopt", e) EXCEPT !.cand = c].seen = Rest.seen
  BY DEF Doing, Rest
<1>3. CASE ReadStamp(r)
  <2>1. [reaper[r] EXCEPT !.pc = "write", !.seen = params].seen = params  BY DEF Sight
  <2> QED  BY <1>1, <1>3, <2>1 DEF ReadStamp
<1>4. CASE ReadDebt(r)
  <2>1. [Doing("settle", 0) EXCEPT !.seen = params].seen = params  BY DEF Doing, Rest
  <2> QED  BY <1>1, <1>4, <2>1 DEF ReadDebt
<1>5. CASE Fetch(r)
  <2>1. \/ ReaperGo(r, [Doing("stamp", 0) EXCEPT !.class = "infra_timeout"])
        \/ \E d \in Decisions(job.ext) :
             \/ ReaperGo(r, Rest) \/ ReaperGo(r, Doing("retry", job.ext))
             \/ ReaperGo(r, Doing("verify", 0))
             \/ ReaperGo(r, [Doing("stamp", 0) EXCEPT !.class = d.class])
    <3>1. ASSUME NEW d \in Decisions(job.ext)
          PROVE  d.action \in {"wait", "retry", "verify", "refund"}
      BY DecisionsType
    <3> QED  BY <1>5, <3>1 DEF Fetch
  <2> QED  BY <1>1, <1>2, <2>1
<1>6. CASE Orphan(r)
  <2>1. \/ ReaperGo(r, Rest) \/ (\E s, e : ReaperGo(r, Doing(s, e)))
        \/ \E e, c : ReaperGo(r, [Doing("adopt", e) EXCEPT !.cand = c])
    BY <1>6 DEF Orphan
  <2> QED  BY <1>1, <1>2, <2>1
<1>7. CASE \/ Sweep(r) \/ RecordFound(r) \/ Retry(r) \/ Adopt(r) \/ AgeOrphan(r) \/ Bury(r)
           \/ Corrupt(r) \/ VerifyDelivery(r) \/ RecoverCompleted(r) \/ WriteStamp(r)
           \/ FailJob(r) \/ PayDebt(r)
  <2>1. \/ ReaperGo(r, Rest) \/ (\E s, e : ReaperGo(r, Doing(s, e)))
        \/ \E c : ReaperGo(r, [Doing("stamp", 0) EXCEPT !.class = c])
    BY <1>7 DEF Sweep, RecordFound, Retry, Adopt, AgeOrphan, Bury, Corrupt,
       VerifyDelivery, RecoverCompleted, WriteStamp, FailJob, PayDebt
  <2> QED  BY <1>1, <1>2, <2>1
<1> QED  BY <1>3, <1>4, <1>5, <1>6, <1>7 DEF Reap

LEMMA MoneyStep ==
  ASSUME "adminRetry" \notin Faults
  PROVE  TypeOK /\ MoneyInv /\ [Next]_vars => MoneyInv'
<1> SUFFICES ASSUME DispatcherTypes, WorldTypes, MoneyInv, [Next]_vars PROVE MoneyInv'
  BY TypeParts
<1>1. ASSUME reaper' = reaper PROVE SeenOK'
  BY <1>1 DEF MoneyInv, SeenOK
<1>2. CASE \E w \in Workers : Dispatcher(w) \/ Crash(w)
  <2>1. reaper' = reaper
    BY <1>2 DEF Dispatcher, Claim, TurnAway, RecoverGap, GiveUp, StartExec, StartRaises,
       Revert, Record, Crash
  <2> QED  BY <1>1, <1>2, <2>1, DispatcherSettles DEF MoneyInv
<1>3. CASE \E e \in ExecIds : Container(e)
  <2>1. reaper' = reaper
    BY <1>3 DEF Container, Appears, ProvisionFails, Boots, Processing, Delivers, Completes,
       ContainerFails, Dies
  <2> QED  BY <1>1, <1>3, <2>1, ContainerSettles DEF MoneyInv
<1>4. CASE \E r \in Reapers : Reap(r)
  BY <1>4, ReaperSettles, SeenStep DEF MoneyInv
<1>5. CASE Redeliver \/ Cancel \/ AdminRetry \/ Tick \/ CorruptHistory \/ PayerChanges
  <2>1. reaper' = reaper
    BY <1>5 DEF Redeliver, Cancel, AdminRetry, Tick, CorruptHistory, PayerChanges
  <2> QED  BY <1>1, <1>5, <2>1, WorldSettles DEF MoneyInv
<1>6. CASE UNCHANGED vars
  BY <1>6 DEF vars, MoneyInv, SeenOK, Settlement, PaidUnlessFailed, RefundOnce,
     DebtUnpaid, Untouched
<1> QED  BY <1>2, <1>3, <1>4, <1>5, <1>6 DEF Next

\* As long as no administrator retries a failed job, its credits are restored at
\* most once and its ledger gets at most one refund row, whichever of the container,
\* the dispatcher, any number of reapers, the compensator and a cancellation fail it,
\* and in whatever order.
THEOREM RefundedAtMostOnce ==
  "adminRetry" \notin Faults => (Spec => []RefundOnce)
<1> SUFFICES ASSUME "adminRetry" \notin Faults PROVE Spec => []RefundOnce  OBVIOUS
<1>1. Init => TypeOK /\ MoneyInv  BY TypeInit, MoneyInit
<1>2. TypeOK /\ MoneyInv /\ [Next]_vars => (TypeOK /\ MoneyInv)'
  BY TypeStep, MoneyStep
<1>3. MoneyInv => RefundOnce  BY DEF MoneyInv, Settlement
<1> QED  BY <1>1, <1>2, <1>3, PTL DEF Spec

\* Under the same assumption a job that is in flight or delivered stays paid.
THEOREM PaidUntilFailed ==
  "adminRetry" \notin Faults => (Spec => []PaidUnlessFailed)
<1> SUFFICES ASSUME "adminRetry" \notin Faults PROVE Spec => []PaidUnlessFailed  OBVIOUS
<1>1. Init => TypeOK /\ MoneyInv  BY TypeInit, MoneyInit
<1>2. TypeOK /\ MoneyInv /\ [Next]_vars => (TypeOK /\ MoneyInv)'
  BY TypeStep, MoneyStep
<1>3. MoneyInv => PaidUnlessFailed  BY DEF MoneyInv, Settlement
<1> QED  BY <1>1, <1>2, <1>3, PTL DEF Spec

-----------------------------------------------------------------------------
(* The retry. That no execution in the history ever ran rests on what an   *)
(* execution's fate is, on the ids the actors carry being ids of           *)
(* executions, and on the evidence a reaper holds when it is about to      *)
(* retry.                                                                  *)

IdOrNull == ExecIds \cup {0}
FateIffFailed == \A e \in ExecIds : execs[e].fate # "none" <=> execs[e].stage = "failed"
IdsExist ==
  /\ job.ext \in IdOrNull /\ job.history \subseteq ExecIds
  /\ \A w \in Workers : worker[w].exec \in IdOrNull
  /\ \A r \in Reapers : reaper[r].exec \in IdOrNull /\ reaper[r].cand \in IdOrNull
RetryJustified ==
  \A r \in Reapers : reaper[r].pc = "retry" =>
    reaper[r].exec \in ExecIds /\ execs[reaper[r].exec].fate = "pre_container"
HistoryInv == FateIffFailed /\ IdsExist /\ RetryJustified /\ RetriedNeverRan

\* Executions are only added, and a verdict of the control plane stands.
Grows == /\ ExecIds \subseteq ExecIds'
         /\ \A e \in ExecIds :
              execs[e].fate = "pre_container" => execs'[e].fate = "pre_container"

LEMMA NewestId ==
  ASSUME NEW S, S \subseteq Listed PROVE Newest(S) \in IdOrNull
<1>1. Newest(S) \in S \/ Newest(S) = 0  BY NewestIsMember
<1> QED  BY <1>1 DEF IdOrNull, Listed

LEMMA BecomesGrows ==
  ASSUME execs \in Seq(Exec), FateIffFailed, NEW e, NEW s \in Stages \ {"failed"},
         e \in ExecIds => execs[e].stage # "failed", Becomes(e, s)
  PROVE  Grows /\ FateIffFailed'
<1>1. /\ execs' \in Seq(Exec) /\ Len(execs') = Len(execs)
      /\ \A f \in ExecIds : /\ execs'[f].fate = execs[f].fate
                            /\ execs'[f].stage = IF f = e THEN s ELSE execs[f].stage
  BY BecomesExec
<1>2. ExecIds' = ExecIds  BY <1>1 DEF ExecIds
<1> QED  BY <1>1, <1>2 DEF Grows, FateIffFailed

LEMMA FailsGrows ==
  ASSUME execs \in Seq(Exec), FateIffFailed, NEW e \in ExecIds, NEW why \in Fates \ {"none"},
         execs[e].stage # "failed", Fails(e, why)
  PROVE  Grows /\ FateIffFailed'
<1>1. /\ execs' \in Seq(Exec) /\ Len(execs') = Len(execs)
      /\ \A f \in ExecIds : execs'[f] = IF f = e THEN [stage |-> "failed", fate |-> why]
                                                 ELSE execs[f]
  BY FailsExec
<1>2. ExecIds' = ExecIds  BY <1>1 DEF ExecIds
<1>3. execs[e].fate = "none"  BY DEF FateIffFailed
<1> QED  BY <1>1, <1>2, <1>3 DEF Grows, FateIffFailed

LEMMA StartGrows ==
  ASSUME execs \in Seq(Exec), FateIffFailed,
         execs' = Append(execs, [stage |-> "hidden", fate |-> "none"])
  PROVE  Grows /\ FateIffFailed' /\ Len(execs) + 1 \in ExecIds'
<1> DEFINE x == [stage |-> "hidden", fate |-> "none"]
<1>1. x \in Exec  BY DEF Exec, Stages, Fates
<1>2. /\ Len(execs') = Len(execs) + 1 /\ Len(execs) \in Nat
      /\ \A e \in 1..Len(execs) : execs'[e] = execs[e]
      /\ execs'[Len(execs) + 1] = x
  BY <1>1, AppendProperties
<1>3. /\ x.fate = "none" /\ x.stage = "hidden"  OBVIOUS
<1> HIDE DEF x
<1>4. ExecIds' = ExecIds \cup {Len(execs) + 1}  BY <1>2 DEF ExecIds
<1> QED  BY <1>2, <1>3, <1>4 DEF Grows, FateIffFailed, ExecIds

LEMMA SameGrows ==
  ASSUME execs' = execs, FateIffFailed PROVE Grows /\ FateIffFailed'
BY DEF Grows, FateIffFailed, ExecIds

LEMMA GrowStep ==
  ASSUME DispatcherTypes, WorldTypes, FateIffFailed, [Next]_vars
  PROVE  Grows /\ FateIffFailed'
<1> USE DEF DispatcherTypes
<1>1. CASE execs' = execs  BY <1>1, SameGrows
<1>2. ASSUME NEW w \in Workers, StartExec(w) PROVE Grows /\ FateIffFailed'
  BY <1>2, StartGrows DEF StartExec
<1>3. ASSUME NEW e \in ExecIds, Container(e) PROVE Grows /\ FateIffFailed'
  <2>1. \/ \E s \in Stages \ {"failed"} : Becomes(e, s)
        \/ \E why \in Fates \ {"none"} : Fails(e, why)
    BY <1>3, Zenon DEF Container, Appears, ProvisionFails, Boots, Processing, Delivers,
       Completes, ContainerFails, Dies, Stages, Fates
  <2>2. execs[e].stage # "failed"
    BY <1>3 DEF Container, Appears, ProvisionFails, Boots, Processing, Delivers,
       Completes, ContainerFails, Dies
  <2> QED  BY <2>1, <2>2, BecomesGrows, FailsGrows
<1>4. ASSUME Cancel, execs' # execs PROVE Grows /\ FateIffFailed'
  <2>1. Live(canceller.exec) /\ Becomes(canceller.exec, "stopped")  BY <1>4 DEF Cancel
  <2> QED  BY <2>1, BecomesGrows DEF Live, Ended, Stages
<1>5. ASSUME execs' # execs
      PROVE  \/ \E w \in Workers : StartExec(w)
             \/ \E e \in ExecIds : Container(e)
             \/ Cancel
  <2>1. ASSUME NEW w \in Workers, Dispatcher(w) \/ Crash(w) PROVE StartExec(w)
    BY <1>5, <2>1 DEF Dispatcher, Claim, TurnAway, RecoverGap, GiveUp, StartRaises, Revert,
       Record, Crash
  <2>2. ASSUME NEW r \in Reapers, Reap(r) PROVE FALSE
    BY <1>5, <2>2 DEF Reap, Sweep, RecordFound, Fetch, Retry, Orphan, Adopt, AgeOrphan, Bury,
       Corrupt, VerifyDelivery, RecoverCompleted, ReadStamp, WriteStamp, FailJob, ReadDebt,
       PayDebt
  <2>3. ~(Redeliver \/ AdminRetry \/ Tick \/ CorruptHistory \/ PayerChanges \/ UNCHANGED vars)
    BY <1>5 DEF Redeliver, AdminRetry, Tick, CorruptHistory, PayerChanges, vars
  <2> QED  BY <2>1, <2>2, <2>3 DEF Next
<1> QED  BY <1>1, <1>2, <1>3, <1>4, <1>5

\* The decision to retry is taken of a run whose container never started: past the
\* ingestion grace a container that started would have been seen.
LEMMA RetryMeansNeverRan ==
  ASSUME DispatcherTypes, FateIffFailed, job.ext \in ExecIds,
         NEW d \in Decisions(job.ext), d.action = "retry"
  PROVE  execs[job.ext].fate = "pre_container"
<1> DEFINE x == execs[job.ext]
<1>1. x \in Exec /\ job.clock \in Clocks  BY DEF DispatcherTypes, ExecIds, Row
<1>2. PICK v \in Observations(x, job.clock) :
        x.stage \in {"failed", "stopped"} /\ d = Classify(x.stage, v, job.clock)
  <2>1. Wait.action # "retry" /\ Decision("refund", "stalled").action # "retry"
        /\ Decision("verify", "absent").action # "retry"
    BY DEF Wait, Decision
  <2>2. \/ /\ x.stage \in {"failed", "stopped"}
           /\ \E v \in Observations(x, job.clock) : d = Classify(x.stage, v, job.clock)
        \/ d \in {Wait, Decision("refund", "stalled"), Decision("verify", "absent")}
    BY DEF Decisions
  <2> QED  BY <2>1, <2>2
<1>3. /\ x.stage # "stopped" /\ v.backoff /\ ~v.ran
      /\ job.clock \notin {"null", "fresh"}
  BY <1>2 DEF Classify, Decision, Wait
<1>4. /\ v.backoff => v.tel
      /\ (v.tel /\ x.fate \in {"probe", "container"} /\ job.clock \in {"graced", "expired"})
           => v.ran
  BY <1>2 DEF Observations
<1>5. x.fate # "none"  BY <1>2, <1>3 DEF FateIffFailed
<1> QED  BY <1>1, <1>3, <1>4, <1>5 DEF Exec, Fates, Clocks

\* A step that keeps the history and the reapers keeps what they rest on.
LEMMA CarryOver ==
  ASSUME HistoryInv, Grows, job'.history = job.history, reaper' = reaper,
         job'.ext \in IdOrNull', \A w \in Workers : worker'[w].exec \in IdOrNull'
  PROVE  IdsExist' /\ RetryJustified' /\ RetriedNeverRan'
BY DEF HistoryInv, Grows, IdsExist, RetryJustified, RetriedNeverRan, IdOrNull

LEMMA DispatcherHistory ==
  ASSUME DispatcherTypes, HistoryInv, Grows, NEW w \in Workers, Dispatcher(w) \/ Crash(w)
  PROVE  IdsExist' /\ RetryJustified' /\ RetriedNeverRan'
<1> USE DEF DispatcherTypes
<1>1. IdOrNull \subseteq IdOrNull' /\ 0 \in IdOrNull'  BY DEF Grows, IdOrNull
<1>2. reaper' = reaper
  BY DEF Dispatcher, Claim, TurnAway, RecoverGap, GiveUp, StartExec, StartRaises, Revert,
     Record, Crash
<1>3. job'.history = job.history /\ job'.ext \in {job.ext, worker[w].exec}
  BY DEF Dispatcher, Claim, TurnAway, RecoverGap, GiveUp, StartExec, StartRaises, Revert,
     Record, Crash, MarkFailed, TerminalizeAndRefund, SetStatus, RecordId, Row
<1>4. job'.ext \in IdOrNull'  BY <1>1, <1>3 DEF HistoryInv, IdsExist
<1>5. ASSUME NEW e \in IdOrNull', NEW pc, WorkerGo(w, pc, e)
      PROVE  \A v \in Workers : worker'[v].exec \in IdOrNull'
  BY <1>1, <1>5 DEF WorkerGo, HistoryInv, IdsExist
<1>6. \A v \in Workers : worker'[v].exec \in IdOrNull'
  <2>1. CASE worker' = worker  BY <1>1, <2>1 DEF HistoryInv, IdsExist
  <2>2. CASE RecoverGap(w)
    <3>1. Newest(Listed) \in IdOrNull'  BY <1>1, NewestId
    <3> QED  BY <1>5, <2>1, <2>2, <3>1 DEF RecoverGap
  <2>3. CASE StartExec(w)
    <3>1. Len(execs) + 1 \in IdOrNull'
      BY <2>3, StartGrows DEF StartExec, HistoryInv, IdOrNull
    <3> QED  BY <1>5, <2>3, <3>1 DEF StartExec
  <2>4. CASE Claim(w) \/ StartRaises(w) \/ Revert(w) \/ Record(w) \/ Crash(w)
    BY <1>1, <1>5, <2>4 DEF Claim, StartRaises, Revert, Record, Crash
  <2>5. CASE TurnAway(w) \/ GiveUp(w)
    BY <2>1, <2>5 DEF TurnAway, GiveUp
  <2> QED  BY <2>2, <2>3, <2>4, <2>5 DEF Dispatcher
<1> QED  BY <1>2, <1>3, <1>4, <1>6, CarryOver

LEMMA ContainerHistory ==
  ASSUME DispatcherTypes, HistoryInv, Grows, NEW e \in ExecIds, Container(e)
  PROVE  IdsExist' /\ RetryJustified' /\ RetriedNeverRan'
<1> USE DEF DispatcherTypes
<1>1. /\ reaper' = reaper /\ worker' = worker
      /\ job'.history = job.history /\ job'.ext = job.ext
  BY DEF Container, Appears, ProvisionFails, Boots, Processing, Delivers, Completes,
     ContainerFails, Dies, Verdict, SetStatus, Row
<1>2. IdOrNull \subseteq IdOrNull'  BY DEF Grows, IdOrNull
<1> QED  BY <1>1, <1>2, CarryOver DEF HistoryInv, IdsExist

LEMMA WorldHistory ==
  ASSUME DispatcherTypes, HistoryInv, Grows,
         Redeliver \/ Cancel \/ AdminRetry \/ Tick \/ CorruptHistory \/ PayerChanges
  PROVE  IdsExist' /\ RetryJustified' /\ RetriedNeverRan'
<1> USE DEF DispatcherTypes
<1>1. /\ reaper' = reaper /\ worker' = worker
      /\ job'.history = job.history /\ job'.ext \in {job.ext, 0}
  BY DEF Redeliver, Cancel, AdminRetry, Tick, CorruptHistory, PayerChanges, MarkFailed,
     TerminalizeAndRefund, SetStatus, Row
<1>2. IdOrNull \subseteq IdOrNull' /\ 0 \in IdOrNull'  BY DEF Grows, IdOrNull
<1> QED  BY <1>1, <1>2, CarryOver DEF HistoryInv, IdsExist

LEMMA ReaperHistory ==
  ASSUME DispatcherTypes, WorldTypes, HistoryInv, NEW r \in Reapers, Reap(r)
  PROVE  IdsExist' /\ RetryJustified' /\ RetriedNeverRan'
<1> USE DEF DispatcherTypes, WorldTypes
<1>1. /\ execs' = execs /\ worker' = worker /\ ExecIds' = ExecIds /\ IdOrNull' = IdOrNull
  BY DEF Reap, Sweep, RecordFound, Fetch, Retry, Orphan, Adopt, AgeOrphan, Bury, Corrupt,
     VerifyDelivery, RecoverCompleted, ReadStamp, WriteStamp, FailJob, ReadDebt, PayDebt,
     ExecIds, IdOrNull
<1>2. reaper[r].exec \in IdOrNull /\ reaper[r].cand \in IdOrNull /\ 0 \in IdOrNull
  BY DEF HistoryInv, IdsExist, IdOrNull
<1>3. job.ext \in IdOrNull  BY DEF HistoryInv, IdsExist
<1>4. job'.ext \in IdOrNull
  <2>1. job'.ext \in {job.ext, 0, reaper[r].exec, reaper[r].cand}
    BY DEF Reap, Sweep, RecordFound, Fetch, Retry, Requeue, Exhaust, Orphan, Adopt, AgeOrphan,
       Bury, Corrupt, VerifyDelivery, RecoverCompleted, ReadStamp, WriteStamp, FailJob,
       ReadDebt, PayDebt, MarkFailed, TerminalizeAndRefund, SetStatus, Verdict, RecordId,
       StampClock, Row
  <2> QED  BY <1>2, <1>3, <2>1
<1>5. /\ job'.history \subseteq job.history \cup {reaper[r].exec}
      /\ job'.history # job.history => reaper[r].pc = "retry"
  BY DEF Reap, Sweep, RecordFound, Fetch, Retry, Requeue, Exhaust, Orphan, Adopt, AgeOrphan,
     Bury, Corrupt, VerifyDelivery, RecoverCompleted, ReadStamp, WriteStamp, FailJob,
     ReadDebt, PayDebt, MarkFailed, TerminalizeAndRefund, SetStatus, Verdict, RecordId,
     StampClock, At, Row
<1>6. RetriedNeverRan' /\ job'.history \subseteq ExecIds
  BY <1>1, <1>5 DEF HistoryInv, IdsExist, RetryJustified, RetriedNeverRan
<1>7. ASSUME NEW n, ReaperGo(r, n), n.exec \in IdOrNull, n.cand \in IdOrNull,
             n.pc = "retry" => n.exec \in ExecIds /\ execs[n.exec].fate = "pre_container"
      PROVE  IdsExist' /\ RetryJustified'
  BY <1>1, <1>4, <1>6, <1>7 DEF ReaperGo, HistoryInv, IdsExist, RetryJustified
<1>8. ASSUME ReaperGo(r, Rest) PROVE IdsExist' /\ RetryJustified'
  <2>1. Rest.pc = "idle" /\ Rest.exec = 0 /\ Rest.cand = 0  BY DEF Rest
  <2> QED  BY <1>2, <1>7, <1>8, <2>1
<1>9. ASSUME NEW s, s # "retry", NEW e \in IdOrNull, ReaperGo(r, Doing(s, e))
      PROVE  IdsExist' /\ RetryJustified'
  <2> DEFINE n == Doing(s, e)
  <2>1. n.pc = s /\ n.exec = e /\ n.cand = 0  BY DEF Doing, Rest
  <2>2. ReaperGo(r, n)  BY <1>9
  <2> HIDE DEF n
  <2> QED  BY <1>2, <1>7, <1>9, <2>1, <2>2
<1>10. ASSUME NEW c, ReaperGo(r, [Doing("stamp", 0) EXCEPT !.class = c])
       PROVE  IdsExist' /\ RetryJustified'
  <2> DEFINE n == [Doing("stamp", 0) EXCEPT !.class = c]
  <2>1. n.pc = "stamp" /\ n.exec = 0 /\ n.cand = 0  BY DEF Doing, Rest
  <2>2. ReaperGo(r, n)  BY <1>10
  <2> HIDE DEF n
  <2> QED  BY <1>2, <1>7, <2>1, <2>2
<1>11. CASE Sweep(r)
  <2>1. Newest(Listed \ job.history) \in IdOrNull  BY NewestId
  <2>2. \/ ReaperGo(r, Doing("fetch", 0)) \/ ReaperGo(r, Doing("corrupt", 0))
        \/ ReaperGo(r, Doing("record", Newest(Listed \ job.history)))
    BY <1>11 DEF Sweep
  <2> QED  BY <1>2, <1>6, <1>9, <2>1, <2>2
<1>12. CASE Fetch(r)
  <2>1. ASSUME NEW d \in Decisions(job.ext), job.ext # 0,
               ReaperGo(r, CASE d.action = "wait"   -> Rest
                             [] d.action = "retry"  -> Doing("retry", job.ext)
                             [] d.action = "verify" -> Doing("verify", 0)
                             [] d.action = "refund" -> [Doing("stamp", 0) EXCEPT !.class = d.class])
        PROVE  IdsExist' /\ RetryJustified'
    <3>1. d.action \in {"wait", "retry", "verify", "refund"}  BY DecisionsType
    <3>2. job.ext \in ExecIds  BY <1>3, <2>1 DEF IdOrNull
    <3>3. CASE d.action = "retry"
      <4> DEFINE n == Doing("retry", job.ext)
      <4>1. execs[job.ext].fate = "pre_container"
        BY <2>1, <3>2, <3>3, RetryMeansNeverRan DEF HistoryInv
      <4>2. ReaperGo(r, n)  BY <2>1, <3>3
      <4>3. n.pc = "retry" /\ n.exec = job.ext /\ n.cand = 0  BY DEF Doing, Rest
      <4> HIDE DEF n
      <4> QED  BY <1>2, <1>3, <1>7, <3>2, <4>1, <4>2, <4>3
    <3>4. CASE d.action # "retry"
      <4>1. \/ ReaperGo(r, Rest) \/ ReaperGo(r, Doing("verify", 0))
            \/ ReaperGo(r, [Doing("stamp", 0) EXCEPT !.class = d.class])
        BY <2>1, <3>1, <3>4
      <4> QED  BY <1>2, <1>8, <1>9, <1>10, <4>1
    <3> QED  BY <3>3, <3>4
  <2> QED  BY <1>6, <1>10, <1>12, <2>1 DEF Fetch
<1>13. CASE Orphan(r)
  <2> DEFINE S == {x \in Listed \ (job.history \cup {reaper[r].exec}) : x > job.mark}
  <2>1. Newest(S) \in IdOrNull  BY NewestId
  <2>2. \/ ReaperGo(r, Rest)
        \/ \E s \in {"corrupt", "age", "bury"}, e \in {0, reaper[r].exec} : ReaperGo(r, Doing(s, e))
        \/ \E c \in {0, Newest(S)} : ReaperGo(r, [Doing("adopt", reaper[r].exec) EXCEPT !.cand = c])
    BY <1>13 DEF Orphan
  <2> HIDE DEF S
  <2>3. ASSUME NEW c \in {0, Newest(S)},
               ReaperGo(r, [Doing("adopt", reaper[r].exec) EXCEPT !.cand = c])
        PROVE  IdsExist' /\ RetryJustified'
    <3> DEFINE n == [Doing("adopt", reaper[r].exec) EXCEPT !.cand = c]
    <3>1. n.pc = "adopt" /\ n.exec = reaper[r].exec /\ n.cand = c  BY DEF Doing, Rest
    <3>2. ReaperGo(r, n)  BY <2>3
    <3> HIDE DEF n
    <3> QED  BY <1>2, <1>7, <2>1, <2>3, <3>1, <3>2
  <2> QED  BY <1>2, <1>6, <1>8, <1>9, <2>2, <2>3
<1>14. CASE Retry(r)
  <2>1. ReaperGo(r, Rest) \/ ReaperGo(r, Doing("orphan", reaper[r].exec))
        \/ ReaperGo(r, Doing("fail", 0))
    BY <1>14 DEF Retry
  <2> QED  BY <1>2, <1>6, <1>8, <1>9, <2>1
<1>15. CASE ReadStamp(r)
  <2> DEFINE n == [reaper[r] EXCEPT !.pc = "write", !.seen = params]
  <2>1. n.pc = "write" /\ n.exec = reaper[r].exec /\ n.cand = reaper[r].cand  BY DEF Sight
  <2>2. ReaperGo(r, n)  BY <1>15 DEF ReadStamp
  <2> HIDE DEF n
  <2> QED  BY <1>2, <1>6, <1>7, <2>1, <2>2
<1>16. CASE ReadDebt(r)
  <2> DEFINE n == [Doing("settle", 0) EXCEPT !.seen = params]
  <2>1. n.pc = "settle" /\ n.exec = 0 /\ n.cand = 0  BY DEF Doing, Rest
  <2>2. ReaperGo(r, n)  BY <1>16 DEF ReadDebt
  <2> HIDE DEF n
  <2> QED  BY <1>2, <1>6, <1>7, <2>1, <2>2
<1>17. CASE VerifyDelivery(r)
  <2>1. \/ ReaperGo(r, Rest) \/ ReaperGo(r, Doing("complete", 0))
        \/ ReaperGo(r, [Doing("stamp", 0) EXCEPT !.class = "delivery_missing"])
    BY <1>17 DEF VerifyDelivery
  <2> QED  BY <1>2, <1>6, <1>8, <1>9, <1>10, <2>1
<1>18. CASE WriteStamp(r)
  BY <1>2, <1>6, <1>9, <1>18 DEF WriteStamp
<1>19. CASE \/ RecordFound(r) \/ Adopt(r) \/ AgeOrphan(r) \/ Bury(r) \/ Corrupt(r)
            \/ RecoverCompleted(r) \/ FailJob(r) \/ PayDebt(r)
  <2>1. ReaperGo(r, Rest)
    BY <1>19 DEF RecordFound, Adopt, AgeOrphan, Bury, Corrupt, RecoverCompleted, FailJob,
       PayDebt
  <2> QED  BY <1>6, <1>8, <2>1
<1> QED
  BY <1>11, <1>12, <1>13, <1>14, <1>15, <1>16, <1>17, <1>18, <1>19 DEF Reap

LEMMA HistoryInit == Init => HistoryInv
<1> SUFFICES ASSUME Init PROVE HistoryInv  OBVIOUS
<1>1. ExecIds = {}  BY DEF Init, ExecIds
<1> QED
  BY <1>1 DEF Init, HistoryInv, FateIffFailed, IdsExist, IdOrNull, RetryJustified,
     RetriedNeverRan, Rest

LEMMA HistoryStep == TypeOK /\ HistoryInv /\ [Next]_vars => HistoryInv'
<1> SUFFICES ASSUME DispatcherTypes, WorldTypes, HistoryInv, [Next]_vars PROVE HistoryInv'
  BY TypeParts
<1>1. Grows /\ FateIffFailed'  BY GrowStep DEF HistoryInv
<1>2. CASE \E w \in Workers : Dispatcher(w) \/ Crash(w)
  BY <1>1, <1>2, DispatcherHistory DEF HistoryInv
<1>3. CASE \E e \in ExecIds : Container(e)
  BY <1>1, <1>3, ContainerHistory DEF HistoryInv
<1>4. CASE \E r \in Reapers : Reap(r)
  BY <1>1, <1>4, ReaperHistory DEF HistoryInv
<1>5. CASE Redeliver \/ Cancel \/ AdminRetry \/ Tick \/ CorruptHistory \/ PayerChanges
  BY <1>1, <1>5, WorldHistory DEF HistoryInv
<1>6. CASE UNCHANGED vars
  BY <1>6 DEF vars, HistoryInv, FateIffFailed, IdsExist, IdOrNull, ExecIds,
     RetryJustified, RetriedNeverRan
<1> QED  BY <1>2, <1>3, <1>4, <1>5, <1>6 DEF Next

\* Whatever is lost, duplicated, retried by hand or killed, an execution that the
\* provisioning retry replaced is one whose container never started.
THEOREM RetriesNeverRan == Spec => []RetriedNeverRan
<1>1. Init => TypeOK /\ HistoryInv  BY TypeInit, HistoryInit
<1>2. TypeOK /\ HistoryInv /\ [Next]_vars => (TypeOK /\ HistoryInv)'
  BY TypeStep, HistoryStep
<1>3. HistoryInv => RetriedNeverRan  BY DEF HistoryInv
<1> QED  BY <1>1, <1>2, <1>3, PTL DEF Spec
-----------------------------------------------------------------------------
(* The ledger and the balances. Only a refund moves them, and it moves     *)
(* both; the container's own refund moves one, and is excluded by name.    *)

LEMMA MoneyMoves ==
  ASSUME "appFails" \notin Faults, DispatcherTypes, WorldTypes, [Next]_vars
  PROVE  (money' = money \/ Pay) /\ account'.funding = account.funding
<1> USE DEF MarkFailed, TerminalizeAndRefund, Settle
<1>1. ASSUME NEW w \in Workers, Dispatcher(w) \/ Crash(w)
      PROVE  (money' = money \/ Pay) /\ account' = account
  BY <1>1 DEF Dispatcher, Claim, TurnAway, RecoverGap, GiveUp, StartExec, StartRaises, Revert,
     Record, Crash
<1>2. ASSUME NEW e \in ExecIds, Container(e) PROVE money' = money /\ account' = account
  BY <1>2 DEF Container, Appears, ProvisionFails, Boots, Processing, Delivers, Completes,
     ContainerFails, Dies
<1>3. ASSUME NEW r \in Reapers, Reap(r) PROVE (money' = money \/ Pay) /\ account' = account
  BY <1>3 DEF Reap, Sweep, RecordFound, Fetch, Retry, Requeue, Exhaust, Orphan, Adopt,
     AgeOrphan, Bury, Corrupt, VerifyDelivery, RecoverCompleted, ReadStamp, WriteStamp,
     FailJob, ReadDebt, PayDebt
<1>4. ASSUME Redeliver \/ Cancel \/ AdminRetry \/ Tick \/ CorruptHistory \/ UNCHANGED vars
      PROVE  (money' = money \/ Pay) /\ account' = account
  BY <1>4 DEF Redeliver, Cancel, AdminRetry, Tick, CorruptHistory, vars
<1>5. CASE PayerChanges
  BY <1>5 DEF PayerChanges, WorldTypes, Payer
<1> QED  BY <1>1, <1>2, <1>3, <1>4, <1>5 DEF Next

\* A refund restores the balance the job was charged to, and no other than those charged.
LEMMA PayMatches ==
  ASSUME money \in Balances, account \in Payer, LedgerMatchesBalances, Pay,
         account'.funding = account.funding
  PROVE  LedgerMatchesBalances'
<1>1. account.funding \in FundingKinds  BY DEF Payer
<1>2. Primary \in Charged(account.funding) /\ Primary # "monthly" /\ Primary \in Buckets
  BY <1>1 DEF Primary, Charged, FundingKinds, Buckets
<1>3. Primary' = Primary /\ Charged(account.funding)' = Charged(account.funding)
  BY DEF Primary, Charged
<1>4. /\ money'.ledger = money.ledger + 1
      /\ \A b \in Buckets : money'.restored[b] =
           money.restored[b] + (IF /\ b \in Charged(account.funding)
                                   /\ b = "monthly" => account.subscribed THEN 1 ELSE 0)
  BY DEF Pay, Restore
<1>5. money'.restored[Primary] = money.restored[Primary] + 1  BY <1>2, <1>4
<1>6. \A b \in Buckets \ Charged(account.funding) : money'.restored[b] = money.restored[b] + 0
  BY <1>4
<1>7. \A b \in Buckets : money.restored[b] + 0 = money.restored[b]  BY DEF Balances
<1> QED  BY <1>3, <1>4, <1>5, <1>6, <1>7 DEF LedgerMatchesBalances

\* Whoever fails the job, however often it is put back to work and whatever the payer's
\* row and subscription do meanwhile, the ledger says how often the charged balance was
\* restored, and nothing else was; unless the container refunds, which writes no ledger.
THEOREM LedgerTellsTheBalance ==
  "appFails" \notin Faults => (Spec => []LedgerMatchesBalances)
<1> SUFFICES ASSUME "appFails" \notin Faults PROVE Spec => []LedgerMatchesBalances
  OBVIOUS
<1>1. Init => TypeOK /\ LedgerMatchesBalances
  <2>1. Init => LedgerMatchesBalances
    <3> SUFFICES ASSUME Init PROVE LedgerMatchesBalances  OBVIOUS
    <3>1. Primary \in Buckets  BY DEF Primary, Buckets
    <3> QED  BY <3>1 DEF Init, LedgerMatchesBalances
  <2> QED  BY <2>1, TypeInit
<1>2. TypeOK /\ LedgerMatchesBalances /\ [Next]_vars => (TypeOK /\ LedgerMatchesBalances)'
  <2> SUFFICES ASSUME TypeOK, LedgerMatchesBalances, [Next]_vars PROVE LedgerMatchesBalances'
    BY TypeStep
  <2>1. DispatcherTypes /\ WorldTypes  BY TypeParts
  <2>2. (money' = money \/ Pay) /\ account'.funding = account.funding  BY <2>1, MoneyMoves
  <2>3. CASE Pay  BY <2>1, <2>2, <2>3, PayMatches DEF DispatcherTypes, WorldTypes
  <2>4. CASE money' = money
    <3>1. Primary' = Primary /\ Charged(account.funding)' = Charged(account.funding)
      BY <2>2 DEF Primary, Charged
    <3> QED  BY <2>4, <3>1 DEF LedgerMatchesBalances
  <2> QED  BY <2>2, <2>3, <2>4
<1> QED  BY <1>1, <1>2, PTL DEF Spec

-----------------------------------------------------------------------------
(* A failed job is settled. The stamp writes back a copy of job_params     *)
(* read one step earlier; a debt recorded in between would be lost. With   *)
(* one reaper, and nobody else who fails jobs, there is none.              *)

\* The copy a reaper is about to write back is what job_params still hold.
WritesBackWhatIs ==
  \A r \in Reapers : reaper[r].pc = "write" /\ reaper[r].seen.class = "absent"
                       => reaper[r].seen = params
SettledInv == FailedIsSettled /\ WritesBackWhatIs

Paid == money.ledger > 0 \/ params.debt # "none"

LEMMA OweOwes == ASSUME NEW p PROVE Owe(p).debt # "none"
BY DEF Owe

LEMMA StampOwes ==
  ASSUME NEW p \in Params, NEW c, p.debt # "none" PROVE Stamp(p, c).debt # "none"
BY DEF Stamp, Params

LEMMA SettlePays ==
  ASSUME money \in Balances, NEW paid, NEW owed, owed.debt # "none", Settle(paid, owed)
  PROVE  Paid'
BY DEF Settle, Pay, Paid, Balances

LEMMA TerminalizePays ==
  ASSUME job \in Row, money \in Balances, FailedIsSettled,
         NEW paid, NEW owed, owed.debt # "none", TerminalizeAndRefund(paid, owed)
  PROVE  FailedIsSettled'
<1>1. CASE job.status \in Terminal
  BY <1>1 DEF TerminalizeAndRefund, FailedIsSettled
<1>2. CASE job.status \notin Terminal
  BY <1>2, SettlePays DEF TerminalizeAndRefund, FailedIsSettled, Paid
<1> QED  BY <1>1, <1>2

\* A reaper is about to write a copy back only when it has just read it.
LEMMA OnlyStampsWrite ==
  ASSUME WorldTypes, NEW r \in Reapers, Reap(r), ~ReadStamp(r)
  PROVE  reaper'[r].pc # "write"
<1>1. ASSUME NEW n, ReaperGo(r, n), n.pc # "write" PROVE reaper'[r].pc # "write"
  BY <1>1 DEF ReaperGo, WorldTypes
<1>2. /\ Rest.pc = "idle"
      /\ \A s, e : Doing(s, e).pc = s
      /\ \A c : [Doing("stamp", 0) EXCEPT !.class = c].pc = "stamp"
      /\ \A e, c : [Doing("adopt", e) EXCEPT !.cand = c].pc = "adopt"
      /\ \A p : [Doing("settle", 0) EXCEPT !.seen = p].pc = "settle"
  BY DEF Doing, Rest
<1>3. CASE Fetch(r)
  <2>1. ASSUME NEW d \in Decisions(job.ext)
        PROVE  d.action \in {"wait", "retry", "verify", "refund"}
    BY DecisionsType
  <2>2. \/ ReaperGo(r, Rest)
        \/ \E s \in {"retry", "verify"} : \E e : ReaperGo(r, Doing(s, e))
        \/ \E c : ReaperGo(r, [Doing("stamp", 0) EXCEPT !.class = c])
    BY <1>3, <2>1 DEF Fetch
  <2> QED  BY <1>1, <1>2, <2>2
<1>4. CASE Orphan(r)
  <2>1. \/ ReaperGo(r, Rest)
        \/ \E s \in {"corrupt", "age", "bury"} : \E e : ReaperGo(r, Doing(s, e))
        \/ \E e, c : ReaperGo(r, [Doing("adopt", e) EXCEPT !.cand = c])
    BY <1>4 DEF Orphan
  <2> QED  BY <1>1, <1>2, <2>1
<1>5. CASE ~Fetch(r) /\ ~Orphan(r)
  <2>1. \/ ReaperGo(r, Rest)
        \/ \E s \in {"fetch", "corrupt", "record", "orphan", "fail", "complete"} : \E e :
             ReaperGo(r, Doing(s, e))
        \/ \E c : ReaperGo(r, [Doing("stamp", 0) EXCEPT !.class = c])
        \/ \E p : ReaperGo(r, [Doing("settle", 0) EXCEPT !.seen = p])
    BY <1>5 DEF Reap, Sweep, RecordFound, Retry, Adopt, AgeOrphan, Bury, Corrupt,
       VerifyDelivery, RecoverCompleted, WriteStamp, FailJob, ReadDebt, PayDebt
  <2> QED  BY <1>1, <1>2, <2>1
<1> QED  BY <1>3, <1>4, <1>5

LEMMA ReaperPays ==
  ASSUME DispatcherTypes, WorldTypes, SettledInv, NEW r \in Reapers, Reap(r)
  PROVE  FailedIsSettled'
<1> USE DEF DispatcherTypes, SettledInv
<1>1. CASE Retry(r)
  <2>1. CASE UNCHANGED <<job, params, money>>  BY <2>1 DEF FailedIsSettled
  <2>2. CASE Requeue(reaper[r].exec)  BY <2>2 DEF Requeue, FailedIsSettled, Row
  <2>3. CASE Exhaust(reaper[r].exec)
    <3>1. Stamp(Owe(params), "pre_container").debt # "none"
      BY OweType, OweOwes, StampOwes
    <3>2. Paid'  BY <2>3, <3>1, SettlePays DEF Exhaust
    <3> QED  BY <3>2 DEF Paid, FailedIsSettled
  <2> QED  BY <1>1, <2>1, <2>2, <2>3 DEF Retry
<1>2. CASE Bury(r) \/ Corrupt(r) \/ FailJob(r)
  <2>1. \/ UNCHANGED <<job, params, money>>
        \/ \E p : TerminalizeAndRefund(p, Owe(p))
    BY <1>2 DEF Bury, Corrupt, FailJob, MarkFailed
  <2> QED  BY <2>1, OweOwes, TerminalizePays DEF FailedIsSettled
<1>3. CASE WriteStamp(r)
  <2>1. params'.debt = params.debt
    <3>1. CASE reaper[r].seen.class = "absent"
      <4>1. reaper[r].seen = params  BY <1>3, <3>1 DEF WriteStamp, At, WritesBackWhatIs
      <4> QED  BY <1>3, <3>1, <4>1 DEF WriteStamp, Stamp, Params
    <3>2. CASE reaper[r].seen.class # "absent"  BY <1>3, <3>2 DEF WriteStamp
    <3> QED  BY <3>1, <3>2
  <2> QED  BY <1>3, <2>1 DEF WriteStamp, FailedIsSettled
<1>4. CASE PayDebt(r)
  <2>1. CASE UNCHANGED <<params, money>>
    BY <1>4, <2>1 DEF PayDebt, FailedIsSettled
  <2>2. CASE (money.ledger = 1 /\ money' = money) \/ Pay
    BY <2>2 DEF Pay, Balances, FailedIsSettled
  <2> QED  BY <1>4, <2>1, <2>2 DEF PayDebt
<1>5. CASE \/ Sweep(r) \/ RecordFound(r) \/ Fetch(r) \/ Orphan(r) \/ Adopt(r) \/ AgeOrphan(r)
           \/ VerifyDelivery(r) \/ RecoverCompleted(r) \/ ReadStamp(r) \/ ReadDebt(r)
  <2>1. UNCHANGED <<money, params>> /\ (job'.status = "failed" => job.status = "failed")
    BY <1>5 DEF Sweep, RecordFound, Fetch, Orphan, Adopt, AgeOrphan, VerifyDelivery,
       RecoverCompleted, ReadStamp, ReadDebt, RecordId, StampClock, Verdict, SetStatus,
       Row, Terminal
  <2> QED  BY <2>1 DEF FailedIsSettled
<1> QED  BY <1>1, <1>2, <1>3, <1>4, <1>5 DEF Reap

\* With one reaper, and nobody else who records a debt, its copy of job_params is current.
LEMMA CopyStep ==
  ASSUME {"giveUp", "cancel"} \cap Faults = {}, \A r, s \in Reapers : r = s,
         WorldTypes, WritesBackWhatIs, [Next]_vars
  PROVE  WritesBackWhatIs'
<1>1. CASE \E r \in Reapers : Reap(r)
  <2>1. PICK r \in Reapers : Reap(r)  BY <1>1
  <2>2. ASSUME NEW s \in Reapers, reaper'[s].pc = "write", reaper'[s].seen.class = "absent"
        PROVE  reaper'[s].seen = params'
    <3>1. s = r  OBVIOUS
    <3>2. ReadStamp(r)  BY <2>1, <2>2, <3>1, OnlyStampsWrite
    <3>3. reaper'[r].seen = params /\ params' = params
      BY <3>2 DEF ReadStamp, ReaperGo, WorldTypes, Sight
    <3> QED  BY <3>1, <3>3
  <2> QED  BY <2>2 DEF WritesBackWhatIs
<1>2. CASE ~\E r \in Reapers : Reap(r)
  <2>1. UNCHANGED <<params, reaper>>
    BY <1>2 DEF Next, Dispatcher, Claim, TurnAway, RecoverGap, GiveUp, StartExec, StartRaises,
       Revert, Record, Crash, Container, Appears, ProvisionFails, Boots, Processing, Delivers,
       Completes, ContainerFails, Dies, Redeliver, Cancel, AdminRetry, Tick, CorruptHistory,
       PayerChanges, vars
  <2> QED  BY <2>1 DEF WritesBackWhatIs
<1> QED  BY <1>1, <1>2

LEMMA SettledStep ==
  ASSUME {"appFails", "giveUp", "cancel"} \cap Faults = {}, \A r, s \in Reapers : r = s,
         DispatcherTypes, WorldTypes, SettledInv, [Next]_vars
  PROVE  SettledInv'
<1> USE DEF DispatcherTypes
<1>1. ASSUME UNCHANGED <<money, params, reaper>>, job'.status = "failed" => job.status = "failed"
      PROVE  SettledInv'
  BY <1>1 DEF SettledInv, FailedIsSettled, WritesBackWhatIs
<1>2. ASSUME NEW w \in Workers, Dispatcher(w) \/ Crash(w) PROVE SettledInv'
  <2>1. UNCHANGED <<money, params, reaper>> /\ (job'.status = "failed" => job.status = "failed")
    BY <1>2 DEF Dispatcher, Claim, TurnAway, RecoverGap, GiveUp, StartExec, StartRaises,
       Revert, Record, Crash, SetStatus, RecordId, Row
  <2> QED  BY <1>1, <2>1
<1>3. ASSUME NEW e \in ExecIds, Container(e) PROVE SettledInv'
  <2>1. UNCHANGED <<money, params, reaper>> /\ (job'.status = "failed" => job.status = "failed")
    BY <1>3 DEF Container, Appears, ProvisionFails, Boots, Processing, Delivers, Completes,
       ContainerFails, Dies, Verdict, SetStatus, Row
  <2> QED  BY <1>1, <2>1
<1>4. ASSUME NEW r \in Reapers, Reap(r) PROVE SettledInv'
  <2>1. FailedIsSettled'  BY <1>4, ReaperPays
  <2>2. [Next]_vars  BY <1>4 DEF Next
  <2>3. WritesBackWhatIs'  BY <2>2, CopyStep DEF SettledInv
  <2> QED  BY <2>1, <2>3 DEF SettledInv
<1>5. CASE Redeliver \/ AdminRetry \/ Tick \/ CorruptHistory \/ PayerChanges \/ UNCHANGED vars
  <2>1. UNCHANGED <<money, params, reaper>> /\ (job'.status = "failed" => job.status = "failed")
    BY <1>5 DEF Redeliver, AdminRetry, Tick, CorruptHistory, PayerChanges, vars, Row
  <2> QED  BY <1>1, <2>1
<1>6. ~Cancel  BY DEF Cancel
<1> QED  BY <1>2, <1>3, <1>4, <1>5, <1>6 DEF Next

\* With one tick of the reaper at a time (a timer trigger is a singleton) and nobody else
\* who fails the job, a failed job is never left without a refund or a recorded debt:
\* through unreadable evidence, a payer who is gone, retries by hand and any number of
\* dispatchers. The container, which refunds outside the ledger, a cancellation and the
\* dispatcher's own failures are excluded by name.
THEOREM FailedJobsAreSettled ==
  ASSUME {"appFails", "giveUp", "cancel"} \cap Faults = {}, \A r, s \in Reapers : r = s
  PROVE  Spec => []FailedIsSettled
<1>1. Init => TypeOK /\ SettledInv
  <2> SUFFICES ASSUME Init PROVE SettledInv  BY TypeInit
  <2>1. FailedIsSettled  BY DEF Init, FailedIsSettled
  <2>2. Rest.pc = "idle"  BY DEF Rest
  <2>3. WritesBackWhatIs  BY <2>2 DEF Init, WritesBackWhatIs
  <2> QED  BY <2>1, <2>3 DEF SettledInv
<1>2. TypeOK /\ SettledInv /\ [Next]_vars => (TypeOK /\ SettledInv)'
  BY TypeStep, TypeParts, SettledStep
<1>3. SettledInv => FailedIsSettled  BY DEF SettledInv
<1> QED  BY <1>1, <1>2, <1>3, PTL DEF Spec

\* With evidence of the amount and the payer's row in place, no debt is needed.
RefundedIfFailed == job.status = "failed" => money.ledger > 0
RefundInv == account.evidence /\ account.target /\ RefundedIfFailed

\* Whoever fails a job whose refund can be paid, pays it in the same step.
LEMMA FailingPays ==
  ASSUME "appFails" \notin Faults, DispatcherTypes, WorldTypes, Payable, [Next]_vars,
         job'.status = "failed", job.status # "failed"
  PROVE  Pay
<1> USE DEF DispatcherTypes
<1>1. ASSUME NEW paid, NEW owed, TerminalizeAndRefund(paid, owed) PROVE Pay
  BY <1>1 DEF TerminalizeAndRefund, Settle
<1>2. ASSUME NEW w \in Workers, Dispatcher(w) \/ Crash(w) PROVE Pay
  <2>1. GiveUp(w)
    BY <1>2 DEF Dispatcher, Claim, TurnAway, RecoverGap, StartExec, StartRaises, Revert,
       Record, Crash, SetStatus, RecordId, Row
  <2> QED  BY <1>1, <2>1 DEF GiveUp, MarkFailed
<1>3. ASSUME NEW e \in ExecIds, Container(e) PROVE FALSE
  BY <1>3 DEF Container, Appears, ProvisionFails, Boots, Processing, Delivers, Completes,
     ContainerFails, Dies, Verdict, SetStatus, Row
<1>4. ASSUME NEW r \in Reapers, Reap(r) PROVE Pay
  <2>1. \/ \E paid, owed : TerminalizeAndRefund(paid, owed)
        \/ Exhaust(reaper[r].exec)
    BY <1>4 DEF Reap, Sweep, RecordFound, Fetch, Retry, Requeue, Orphan, Adopt, AgeOrphan,
       Bury, Corrupt, VerifyDelivery, RecoverCompleted, ReadStamp, WriteStamp, FailJob,
       ReadDebt, PayDebt, MarkFailed, RecordId, StampClock, Verdict, SetStatus, Row, Terminal
  <2> QED  BY <1>1, <2>1 DEF Exhaust, Settle
<1>5. CASE Cancel  BY <1>1, <1>5 DEF Cancel, MarkFailed
<1>6. ~(Redeliver \/ AdminRetry \/ Tick \/ CorruptHistory \/ PayerChanges \/ UNCHANGED vars)
  BY DEF Redeliver, AdminRetry, Tick, CorruptHistory, PayerChanges, vars, Row
<1> QED  BY <1>2, <1>3, <1>4, <1>5, <1>6 DEF Next

LEMMA PayerStands ==
  ASSUME "targetMissing" \notin Faults, WorldTypes, [Next]_vars
  PROVE  account'.evidence = account.evidence /\ account'.target = account.target
<1>1. ASSUME NEW w \in Workers, Dispatcher(w) \/ Crash(w) PROVE account' = account
  BY <1>1 DEF Dispatcher, Claim, TurnAway, RecoverGap, GiveUp, StartExec, StartRaises, Revert,
     Record, Crash
<1>2. ASSUME NEW e \in ExecIds, Container(e) PROVE account' = account
  BY <1>2 DEF Container, Appears, ProvisionFails, Boots, Processing, Delivers, Completes,
     ContainerFails, Dies
<1>3. ASSUME NEW r \in Reapers, Reap(r) PROVE account' = account
  BY <1>3 DEF Reap, Sweep, RecordFound, Fetch, Retry, Orphan, Adopt, AgeOrphan, Bury,
     Corrupt, VerifyDelivery, RecoverCompleted, ReadStamp, WriteStamp, FailJob, ReadDebt,
     PayDebt
<1>4. CASE Redeliver \/ Cancel \/ AdminRetry \/ Tick \/ CorruptHistory \/ UNCHANGED vars
  BY <1>4 DEF Redeliver, Cancel, AdminRetry, Tick, CorruptHistory, vars
<1>5. CASE PayerChanges  BY <1>5 DEF PayerChanges, WorldTypes, Payer
<1> QED  BY <1>1, <1>2, <1>3, <1>4, <1>5 DEF Next

\* Any number of reapers, dispatchers, cancellations and retries by hand: as long as the
\* reserve ledger justifies the amount and the payer's row exists, a job that is failed
\* has its refund in the ledger, unless it was the container that failed it.
THEOREM PayableFailuresAreRefunded ==
  ASSUME {"appFails", "badEvidence", "targetMissing"} \cap Faults = {}
  PROVE  Spec => [](FailedIsSettled /\ RefundedIfFailed)
<1>1. Init => TypeOK /\ RefundInv
  <2> SUFFICES ASSUME Init PROVE RefundInv  BY TypeInit
  <2>1. account \in [funding : Fundings, target : {TRUE}, subscribed : {TRUE},
                     evidence : {TRUE}]
    BY DEF Init
  <2>2. account.evidence /\ account.target  BY <2>1
  <2> QED  BY <2>2 DEF Init, RefundInv, RefundedIfFailed
<1>2. TypeOK /\ RefundInv /\ [Next]_vars => (TypeOK /\ RefundInv)'
  <2> SUFFICES ASSUME TypeOK, RefundInv, [Next]_vars PROVE RefundInv'
    BY TypeStep
  <2>1. DispatcherTypes /\ WorldTypes /\ Payable  BY TypeParts DEF RefundInv, Payable
  <2>2. account'.evidence /\ account'.target  BY <2>1, PayerStands DEF RefundInv
  <2>3. money' = money \/ Pay  BY <2>1, MoneyMoves
  <2>4. ASSUME job'.status = "failed" PROVE money'.ledger > 0
    <3>1. CASE Pay  BY <2>1, <3>1 DEF Pay, DispatcherTypes, WorldTypes, Balances
    <3>2. CASE money' = money /\ job.status = "failed"
      BY <3>2 DEF RefundInv, RefundedIfFailed
    <3> QED  BY <2>1, <2>3, <2>4, <3>1, <3>2, FailingPays
  <2> QED  BY <2>2, <2>4 DEF RefundInv, RefundedIfFailed
<1>3. RefundInv => FailedIsSettled /\ RefundedIfFailed
  BY DEF RefundInv, RefundedIfFailed, FailedIsSettled
<1> QED  BY <1>1, <1>2, <1>3, PTL DEF Spec

-----------------------------------------------------------------------------
(* The promise. Each step of the program is a step of PaidJob or leaves    *)
(* it alone. That needs the money's invariant, results wherever a job is   *)
(* about to be completed, and, where no debt may get lost, that there is   *)
(* none or that its copy is current.                                       *)

Shipped ==
  /\ \A e \in ExecIds : execs[e].stage = "uploaded" => delivered
  /\ \A r \in Reapers : reaper[r].pc = "complete" => delivered
Held ==
  /\ "targetMissing" \notin Faults => account.target
  /\ {"badEvidence", "targetMissing"} \cap Faults = {} => account.evidence /\ params.debt = "none"
  /\ {"giveUp", "cancel"} \cap Faults = {} /\ (\A r, s \in Reapers : r = s) => WritesBackWhatIs
PromiseInv == MoneyInv /\ Shipped /\ Held

\* Results stay, and an execution is through with its upload only after it delivered.
LEMMA ExecsShip ==
  ASSUME DispatcherTypes, WorldTypes, Shipped, [Next]_vars
  PROVE  /\ delivered => delivered'
         /\ \A e \in ExecIds' : execs'[e].stage = "uploaded" => delivered'
<1> USE DEF DispatcherTypes
<1>1. CASE execs' = execs /\ delivered' = delivered  BY <1>1 DEF Shipped, ExecIds
<1>2. ASSUME NEW e, NEW s \in Stages, Becomes(e, s), s = "uploaded" => delivered',
             delivered => delivered'
      PROVE  \A f \in ExecIds' : execs'[f].stage = "uploaded" => delivered'
  <2>1. /\ Len(execs') = Len(execs)
        /\ \A f \in ExecIds : execs'[f].stage = IF f = e THEN s ELSE execs[f].stage
    BY <1>2, BecomesExec
  <2>2. ExecIds' = ExecIds  BY <2>1 DEF ExecIds
  <2> QED  BY <1>2, <2>1, <2>2 DEF Shipped
<1>3. ASSUME NEW e, NEW why \in Fates, Fails(e, why), delivered' = delivered
      PROVE  \A f \in ExecIds' : execs'[f].stage = "uploaded" => delivered'
  <2>1. /\ Len(execs') = Len(execs)
        /\ \A f \in ExecIds : execs'[f] = IF f = e THEN [stage |-> "failed", fate |-> why]
                                                   ELSE execs[f]
    BY <1>3, FailsExec
  <2>2. ExecIds' = ExecIds  BY <2>1 DEF ExecIds
  <2>3. ASSUME NEW f \in ExecIds, execs'[f].stage = "uploaded" PROVE execs[f].stage = "uploaded"
    BY <2>1, <2>3
  <2> QED  BY <1>3, <2>2, <2>3 DEF Shipped
<1>4. ASSUME NEW w \in Workers, StartExec(w)
      PROVE  \A f \in ExecIds' : execs'[f].stage = "uploaded" => delivered'
  <2> DEFINE new == [stage |-> "hidden", fate |-> "none"]
  <2>1. new \in Exec  BY DEF Exec, Stages, Fates
  <2>2. execs' = Append(execs, new) /\ delivered' = delivered  BY <1>4 DEF StartExec
  <2>3. /\ Len(execs') = Len(execs) + 1 /\ Len(execs) \in Nat
        /\ \A f \in 1..Len(execs) : execs'[f] = execs[f]
        /\ execs'[Len(execs) + 1] = new
    BY <2>1, <2>2, AppendProperties
  <2> QED  BY <2>2, <2>3 DEF Shipped, ExecIds
<1>5. ASSUME NEW w \in Workers, Dispatcher(w) \/ Crash(w)
      PROVE  delivered' = delivered /\ (execs' = execs \/ StartExec(w))
  BY <1>5 DEF Dispatcher, Claim, TurnAway, RecoverGap, GiveUp, StartRaises, Revert, Record,
     StartExec, Crash
<1>6. ASSUME NEW e \in ExecIds, Container(e)
      PROVE  \/ \E s \in Stages \ {"uploaded"} : Becomes(e, s) /\ delivered' = delivered
             \/ Becomes(e, "uploaded") /\ delivered'
             \/ \E why \in Fates : Fails(e, why) /\ delivered' = delivered
  BY <1>6, Zenon DEF Container, Appears, ProvisionFails, Boots, Processing, Delivers,
     Completes, ContainerFails, Dies, Stages, Fates
<1>7. ASSUME NEW r \in Reapers, Reap(r) PROVE execs' = execs /\ delivered' = delivered
  BY <1>7 DEF Reap, Sweep, RecordFound, Fetch, Retry, Orphan, Adopt, AgeOrphan, Bury,
     Corrupt, VerifyDelivery, RecoverCompleted, ReadStamp, WriteStamp, FailJob, ReadDebt,
     PayDebt
<1>8. ASSUME Redeliver \/ Cancel \/ AdminRetry \/ Tick \/ CorruptHistory \/ PayerChanges
             \/ UNCHANGED vars
      PROVE  delivered' = delivered /\ (execs' = execs \/ Becomes(canceller.exec, "stopped"))
  BY <1>8 DEF Redeliver, Cancel, AdminRetry, Tick, CorruptHistory, PayerChanges, vars
<1>a. CASE \E w \in Workers : Dispatcher(w) \/ Crash(w)  BY <1>1, <1>4, <1>5, <1>a
<1>b. CASE \E e \in ExecIds : Container(e)
  <2> PICK e \in ExecIds : Container(e)  BY <1>b
  <2>1. CASE \E s \in Stages \ {"uploaded"} : Becomes(e, s) /\ delivered' = delivered
    BY <1>2, <2>1
  <2>2. CASE Becomes(e, "uploaded") /\ delivered'  BY <1>2, <2>2 DEF Stages
  <2>3. CASE \E why \in Fates : Fails(e, why) /\ delivered' = delivered  BY <1>3, <2>3
  <2> QED  BY <1>6, <2>1, <2>2, <2>3
<1>c. CASE \E r \in Reapers : Reap(r)  BY <1>1, <1>7, <1>c
<1>d. CASE Redeliver \/ Cancel \/ AdminRetry \/ Tick \/ CorruptHistory \/ PayerChanges
           \/ UNCHANGED vars
  BY <1>1, <1>2, <1>8, <1>d DEF Stages
<1> QED  BY <1>a, <1>b, <1>c, <1>d DEF Next

\* A reaper is about to complete a job only when it has just seen its results.
LEMMA OnlySeenResultsComplete ==
  ASSUME WorldTypes, NEW r \in Reapers, Reap(r), reaper'[r].pc = "complete"
  PROVE  delivered
<1>1. ASSUME NEW n, ReaperGo(r, n), n.pc # "complete" PROVE FALSE
  BY <1>1 DEF ReaperGo, WorldTypes
<1>2. /\ Rest.pc = "idle"
      /\ \A s, e : Doing(s, e).pc = s
      /\ \A c : [Doing("stamp", 0) EXCEPT !.class = c].pc = "stamp"
      /\ \A e, c : [Doing("adopt", e) EXCEPT !.cand = c].pc = "adopt"
      /\ \A p : [Doing("settle", 0) EXCEPT !.seen = p].pc = "settle"
      /\ \A p : [reaper[r] EXCEPT !.pc = "write", !.seen = p].pc = "write"
  BY DEF Doing, Rest, WorldTypes, Sight
<1>3. CASE Fetch(r)
  <2>1. ASSUME NEW d \in Decisions(job.ext)
        PROVE  d.action \in {"wait", "retry", "verify", "refund"}
    BY DecisionsType
  <2>2. \/ ReaperGo(r, Rest)
        \/ \E s \in {"retry", "verify"} : \E e : ReaperGo(r, Doing(s, e))
        \/ \E c : ReaperGo(r, [Doing("stamp", 0) EXCEPT !.class = c])
    BY <1>3, <2>1 DEF Fetch
  <2> QED  BY <1>1, <1>2, <2>2
<1>4. CASE Orphan(r)
  <2>1. \/ ReaperGo(r, Rest)
        \/ \E s \in {"corrupt", "age", "bury"} : \E e : ReaperGo(r, Doing(s, e))
        \/ \E e, c : ReaperGo(r, [Doing("adopt", e) EXCEPT !.cand = c])
    BY <1>4 DEF Orphan
  <2> QED  BY <1>1, <1>2, <2>1
<1>5. CASE VerifyDelivery(r)
  <2>1. ASSUME ~delivered
        PROVE  \/ ReaperGo(r, Rest)
               \/ \E c : ReaperGo(r, [Doing("stamp", 0) EXCEPT !.class = c])
    BY <1>5, <2>1 DEF VerifyDelivery
  <2> QED  BY <1>1, <1>2, <2>1
<1>6. CASE ~Fetch(r) /\ ~Orphan(r) /\ ~VerifyDelivery(r)
  <2>1. \/ ReaperGo(r, Rest)
        \/ \E s \in {"fetch", "corrupt", "record", "orphan", "fail"} : \E e :
             ReaperGo(r, Doing(s, e))
        \/ \E p : ReaperGo(r, [Doing("settle", 0) EXCEPT !.seen = p])
        \/ ReaperGo(r, [reaper[r] EXCEPT !.pc = "write", !.seen = params])
    BY <1>6 DEF Reap, Sweep, RecordFound, Retry, Adopt, AgeOrphan, Bury, Corrupt,
       RecoverCompleted, ReadStamp, WriteStamp, FailJob, ReadDebt, PayDebt
  <2> QED  BY <1>1, <1>2, <2>1
<1> QED  BY <1>3, <1>4, <1>5, <1>6

LEMMA ShippedStep ==
  ASSUME DispatcherTypes, WorldTypes, Shipped, [Next]_vars PROVE Shipped'
<1>1. /\ delivered => delivered'
      /\ \A e \in ExecIds' : execs'[e].stage = "uploaded" => delivered'
  BY ExecsShip
<1>2. ASSUME NEW r \in Reapers, reaper'[r].pc = "complete" PROVE delivered
  <2>1. CASE Reap(r)  BY <1>2, <2>1, OnlySeenResultsComplete
  <2>2. ASSUME NEW s \in Reapers, Reap(s), s # r PROVE reaper'[r] = reaper[r]
    BY <2>2 DEF WorldTypes, Reap, Sweep, RecordFound, Fetch, Retry, Orphan, Adopt, AgeOrphan,
       Bury, Corrupt, VerifyDelivery, RecoverCompleted, ReadStamp, WriteStamp, FailJob,
       ReadDebt, PayDebt, ReaperGo
  <2>3. CASE ~\E s \in Reapers : Reap(s)
    <3>1. reaper' = reaper
      BY <2>3 DEF Next, Dispatcher, Claim, TurnAway, RecoverGap, GiveUp, StartExec, StartRaises,
         Revert, Record, Crash, Container, Appears, ProvisionFails, Boots, Processing, Delivers,
         Completes, ContainerFails, Dies, Redeliver, Cancel, AdminRetry, Tick, CorruptHistory,
         PayerChanges, vars
    <3> QED  BY <1>2, <3>1 DEF Shipped
  <2> QED  BY <1>2, <2>1, <2>2, <2>3 DEF Shipped
<1> QED  BY <1>1, <1>2 DEF Shipped

\* A refund that can be paid leaves no debt, whoever fails the job.
LEMMA PayableOwesNothing ==
  ASSUME Payable, DispatcherTypes, WorldTypes, SeenOK, params.debt = "none", [Next]_vars
  PROVE  params'.debt = "none"
<1> USE DEF DispatcherTypes
<1>1. ASSUME NEW paid, NEW owed, paid.debt = "none", Settle(paid, owed)
      PROVE  params'.debt = "none"
  BY <1>1 DEF Settle
<1>2. ASSUME NEW paid, NEW owed, paid.debt = "none", TerminalizeAndRefund(paid, owed)
      PROVE  params'.debt = "none"
  BY <1>1, <1>2 DEF TerminalizeAndRefund
<1>3. ASSUME NEW c \in Classes PROVE Stamp(params, c).debt = "none"
  BY StampKeepsDebt
<1>4. ASSUME NEW w \in Workers, Dispatcher(w) \/ Crash(w) PROVE params'.debt = "none"
  <2>1. params' = params \/ MarkFailed
    BY <1>4 DEF Dispatcher, Claim, TurnAway, RecoverGap, GiveUp, StartExec, StartRaises,
       Revert, Record, Crash
  <2> QED  BY <1>2, <2>1 DEF MarkFailed
<1>5. ASSUME NEW e \in ExecIds, Container(e) PROVE params' = params
  BY <1>5 DEF Container, Appears, ProvisionFails, Boots, Processing, Delivers, Completes,
     ContainerFails, Dies
<1>6. ASSUME NEW r \in Reapers, Reap(r) PROVE params'.debt = "none"
  <2>1. CASE WriteStamp(r)
    <3>1. CASE reaper[r].seen.class = "absent"
      <4>1. reaper[r].seen \in Params /\ reaper[r].class \in Classes
        BY DEF WorldTypes, Sight
      <4>2. reaper[r].seen.debt = "none"  BY <3>1 DEF SeenOK
      <4> QED  BY <2>1, <3>1, <4>1, <4>2, StampKeepsDebt DEF WriteStamp
    <3>2. CASE reaper[r].seen.class # "absent"  BY <2>1, <3>2 DEF WriteStamp
    <3> QED  BY <3>1, <3>2
  <2>2. CASE PayDebt(r)  BY <2>2 DEF PayDebt
  <2>3. CASE Retry(r)
    <3>1. params' = params \/ \E owed : Settle(Stamp(params, "pre_container"), owed)
      BY <2>3 DEF Retry, Requeue, Exhaust
    <3> QED  BY <1>1, <1>3, <3>1 DEF Classes
  <2>4. CASE Bury(r) \/ Corrupt(r) \/ FailJob(r)
    <3>1. \/ params' = params \/ MarkFailed
          \/ \E c \in Classes : \E owed : TerminalizeAndRefund(Stamp(params, c), owed)
      BY <2>4 DEF Bury, Corrupt, FailJob, Classes
    <3> QED  BY <1>2, <1>3, <3>1 DEF MarkFailed
  <2>5. CASE \/ Sweep(r) \/ RecordFound(r) \/ Fetch(r) \/ Orphan(r) \/ Adopt(r) \/ AgeOrphan(r)
             \/ VerifyDelivery(r) \/ RecoverCompleted(r) \/ ReadStamp(r) \/ ReadDebt(r)
    BY <2>5 DEF Sweep, RecordFound, Fetch, Orphan, Adopt, AgeOrphan, VerifyDelivery,
       RecoverCompleted, ReadStamp, ReadDebt
  <2> QED  BY <1>6, <2>1, <2>2, <2>3, <2>4, <2>5 DEF Reap
<1>7. CASE Cancel
  <2>1. params' = params \/ MarkFailed  BY <1>7 DEF Cancel
  <2> QED  BY <1>2, <2>1 DEF MarkFailed
<1>8. CASE Redeliver \/ AdminRetry \/ Tick \/ CorruptHistory \/ PayerChanges \/ UNCHANGED vars
  BY <1>8 DEF Redeliver, AdminRetry, Tick, CorruptHistory, PayerChanges, vars
<1> QED  BY <1>4, <1>5, <1>6, <1>7, <1>8 DEF Next

LEMMA HeldStep ==
  ASSUME DispatcherTypes, WorldTypes, SeenOK, Held, [Next]_vars PROVE Held'
<1>1. ASSUME "targetMissing" \notin Faults
      PROVE  account'.target /\ account'.evidence = account.evidence
  BY <1>1, PayerStands DEF Held
<1>2. ASSUME {"badEvidence", "targetMissing"} \cap Faults = {}
      PROVE  account'.evidence /\ params'.debt = "none"
  <2>1. "targetMissing" \notin Faults /\ Payable /\ params.debt = "none"
    BY <1>2 DEF Held, Payable
  <2> QED  BY <1>1, <2>1, PayableOwesNothing DEF Payable
<1>3. ASSUME {"giveUp", "cancel"} \cap Faults = {}, \A r, s \in Reapers : r = s
      PROVE  WritesBackWhatIs'
  BY <1>3, CopyStep DEF Held
<1> QED  BY <1>1, <1>2, <1>3 DEF Held

LEMMA PromiseInit == Init => TypeOK /\ PromiseInv
<1> SUFFICES ASSUME Init PROVE Shipped /\ Held
  BY TypeInit, MoneyInit DEF PromiseInv
<1>1. ExecIds = {}  BY DEF Init, ExecIds
<1>2. Rest.pc = "idle"  BY DEF Rest
<1>3. Shipped /\ WritesBackWhatIs  BY <1>1, <1>2 DEF Init, Shipped, WritesBackWhatIs
<1>4. /\ account.target /\ params.debt = "none"
      /\ "badEvidence" \notin Faults => account.evidence
  <2>1. account \in [funding : Fundings, target : {TRUE}, subscribed : {TRUE},
                     evidence : IF "badEvidence" \in Faults THEN BOOLEAN ELSE {TRUE}]
    BY DEF Init
  <2> QED  BY <2>1 DEF Init
<1> QED  BY <1>3, <1>4 DEF Held

LEMMA PromiseStep ==
  ASSUME "adminRetry" \notin Faults
  PROVE  TypeOK /\ PromiseInv /\ [Next]_vars => (TypeOK /\ PromiseInv)'
BY TypeStep, TypeParts, MoneyStep, ShippedStep, HeldStep DEF PromiseInv, MoneyInv

\* A step that the promise does not see.
Still ==
  /\ Standing' = Standing /\ delivered' = delivered /\ money'.restored = money.restored
  /\ params'.debt # "none" <=> params.debt # "none"

LEMMA StillStutters == Still => UNCHANGED Promised!promise
BY Zenon DEF Still, Promised!promise

LEMMA PayRefunds ==
  ASSUME money \in Balances, account \in Payer, Untouched, Pay
  PROVE  money'.restored \in Promised!Refunds
<1>1. /\ money'.restored \in [Buckets -> Nat]
      /\ \A b \in Buckets : money'.restored[b] =
           (IF /\ b \in Charged(account.funding)
               /\ b = "monthly" => account.subscribed THEN 1 ELSE 0)
  <2>1. money' \in Balances  BY PayType
  <2> QED  BY <2>1 DEF Pay, Restore, Untouched, Balances
<1>2. money'.restored \in [Buckets -> {0, 1}]  BY <1>1
<1>3. \E b \in {"aggregate", "member"} : money'.restored[b] = 1
  <2>1. account.funding \in FundingKinds  BY DEF Payer
  <2>2. \E b \in {"aggregate", "member"} : b \in Charged(account.funding)
    BY <2>1 DEF Charged, FundingKinds
  <2> QED  BY <1>1, <2>2 DEF Buckets
<1>4. money'.restored # [b \in Buckets |-> 0]
  BY <1>3 DEF Buckets
<1> QED  BY <1>2, <1>4 DEF Promised!Refunds, Promised!Nothing

\* Who fails the job refunds it, or writes the debt down.
LEMMA SettleFails ==
  ASSUME DispatcherTypes, WorldTypes, Settlement, job.status \notin Terminal,
         job'.status = "failed", delivered' = delivered,
         NEW paid, paid.debt = params.debt, NEW owed, owed.debt # "none", Settle(paid, owed)
  PROVE  Promised!Fail
<1>1. Untouched /\ params.debt = "none"
  BY DEF Settlement, PaidUnlessFailed, Untouched, Terminal
<1>2. Standing = "paid" /\ Standing' = "failed"  BY DEF Standing, Terminal
<1>3. CASE Pay /\ params' = paid
  <2>1. money'.restored \in Promised!Refunds
    BY <1>1, <1>3, PayRefunds DEF DispatcherTypes, WorldTypes
  <2>2. (params.debt # "none")' = FALSE  BY <1>1, <1>3
  <2> QED  BY <1>2, <2>1, <2>2, Zenon DEF Promised!Fail, Promised!Refund
<1>4. CASE params' = owed /\ UNCHANGED money
  <2>1. (params.debt # "none")' = TRUE  BY <1>4
  <2> QED  BY <1>2, <1>4, <2>1, Zenon DEF Promised!Fail
<1> QED  BY <1>3, <1>4 DEF Settle

LEMMA TerminalizeFails ==
  ASSUME DispatcherTypes, WorldTypes, Settlement, delivered' = delivered,
         NEW paid, paid.debt = params.debt, NEW owed, owed.debt # "none",
         TerminalizeAndRefund(paid, owed)
  PROVE  Promised!Fail \/ Still
<1>1. CASE job.status \in Terminal
  BY <1>1 DEF TerminalizeAndRefund, Still, Standing
<1>2. CASE job.status \notin Terminal
  <2>1. job'.status = "failed" /\ Settle(paid, owed)
    BY <1>2 DEF TerminalizeAndRefund, SetStatus, DispatcherTypes, Row
  <2> QED  BY <1>2, <2>1, SettleFails
<1> QED  BY <1>1, <1>2

LEMMA MarkFailedFails ==
  ASSUME DispatcherTypes, WorldTypes, Settlement, delivered' = delivered, MarkFailed
  PROVE  Promised!Fail \/ Still
BY OweOwes, TerminalizeFails DEF MarkFailed

\* Only the row's status, the results, the restored balances and the debt are seen.
LEMMA UnseenStep ==
  ASSUME UNCHANGED <<money, params, delivered>>,
         job'.status = job.status \/ {job.status, job'.status} \cap Terminal = {}
  PROVE  Still
BY DEF Still, Standing, Terminal

LEMMA DispatcherPromise ==
  ASSUME DispatcherTypes, WorldTypes, Settlement, NEW w \in Workers, Dispatcher(w) \/ Crash(w)
  PROVE  Promised!Fail \/ Still
<1>1. CASE GiveUp(w)  BY <1>1, MarkFailedFails DEF GiveUp
<1>2. CASE ~GiveUp(w)
  <2>1. UNCHANGED <<money, params, delivered>>
    BY <1>2 DEF Dispatcher, Claim, TurnAway, RecoverGap, StartExec, StartRaises, Revert,
       Record, Crash
  <2>2. job'.status = job.status \/ {job.status, job'.status} \cap Terminal = {}
    BY <1>2 DEF Dispatcher, Claim, TurnAway, RecoverGap, StartExec, StartRaises, Revert,
       Record, Crash, SetStatus, RecordId, DispatcherTypes, Row, Terminal
  <2> QED  BY <2>1, <2>2, UnseenStep
<1> QED  BY <1>1, <1>2

\* A completion is written over the row only while it is neither completed nor failed.
LEMMA VerdictDelivers ==
  ASSUME DispatcherTypes, delivered, UNCHANGED <<money, params, delivered>>,
         Verdict("completed")
  PROVE  Promised!Deliver \/ Still
<1>1. CASE job.status \in Terminal
  BY <1>1 DEF Verdict, SetStatus, DispatcherTypes, Row, Still, Standing
<1>2. CASE job.status \notin Terminal
  <2>1. job'.status = "completed"
    BY <1>2 DEF Verdict, SetStatus, DispatcherTypes, Row
  <2>2. Standing = "paid" /\ Standing' = "delivered"
    BY <1>2, <2>1 DEF Standing, Terminal
  <2> QED  BY <2>2, Zenon DEF Promised!Deliver
<1> QED  BY <1>1, <1>2

LEMMA ContainerPromise ==
  ASSUME DispatcherTypes, WorldTypes, PromiseInv, NEW e \in ExecIds, Container(e)
  PROVE  Promised!Produce \/ Promised!Deliver \/ Promised!Fail \/ Still
<1> USE DEF DispatcherTypes
<1>1. CASE Delivers(e)
  <2>1. Standing' = Standing  BY <1>1 DEF Delivers, Standing
  <2> QED  BY <1>1, <2>1, Zenon DEF Delivers, Promised!Produce
<1>2. CASE Completes(e)
  BY <1>2, VerdictDelivers DEF Completes, PromiseInv, Shipped
<1>3. CASE ContainerFails(e) /\ job.status \in Terminal
  <2>1. UNCHANGED <<money, params, delivered>> /\ job'.status = job.status
    BY <1>3 DEF ContainerFails, Verdict, SetStatus, Row
  <2> QED  BY <2>1, UnseenStep
<1>4. CASE ContainerFails(e) /\ job.status \notin Terminal
  <2>1. Untouched /\ params.debt = "none"
    BY <1>4 DEF PromiseInv, MoneyInv, Settlement, PaidUnlessFailed, Untouched, Terminal
  <2>2. Standing = "paid" /\ Standing' = "failed"
    BY <1>4 DEF ContainerFails, Verdict, SetStatus, Row, Standing, Terminal
  <2>3. delivered' = delivered /\ (params.debt # "none")' = FALSE
    BY <1>4, <2>1 DEF ContainerFails
  <2>4. CASE money' = [money EXCEPT !.restored["aggregate"] = @ + 1]
    <3>1. money'.restored = [b \in Buckets |-> IF b = "aggregate" THEN 1 ELSE 0]
      BY <2>1, <2>4 DEF Untouched, Balances, Buckets
    <3>2. money'.restored \in Promised!Refunds
      <4>1. money'.restored \in [Buckets -> {0, 1}]  BY <3>1
      <4>2. money'.restored # [b \in Buckets |-> 0]  BY <3>1 DEF Buckets
      <4> QED  BY <4>1, <4>2 DEF Promised!Refunds, Promised!Nothing
    <3> QED  BY <2>2, <2>3, <3>2, Zenon DEF Promised!Fail, Promised!Refund
  <2>5. CASE money' = money /\ ~account.target
    <3>1. "appFails" \in Faults /\ "targetMissing" \in Faults
      BY <1>4, <2>5 DEF ContainerFails, PromiseInv, Held
    <3>2. MayForget  BY <3>1 DEF MayForget
    <3> QED  BY <2>2, <2>3, <2>5, <3>2, Zenon DEF Promised!Fail
  <2>6. \/ money' = [money EXCEPT !.restored["aggregate"] = @ + 1]
        \/ money' = money /\ ~account.target
    BY <1>4 DEF ContainerFails
  <2> QED  BY <2>4, <2>5, <2>6
<1>5. CASE ~Delivers(e) /\ ~Completes(e) /\ ~ContainerFails(e)
  <2>1. UNCHANGED <<money, params, delivered>>
    BY <1>5 DEF Container, Appears, ProvisionFails, Boots, Processing, Dies
  <2>2. job'.status = job.status \/ {job.status, job'.status} \cap Terminal = {}
    BY <1>5 DEF Container, Appears, ProvisionFails, Boots, Processing, Dies, Verdict,
       SetStatus, Row, Terminal
  <2> QED  BY <2>1, <2>2, UnseenStep
<1> QED  BY <1>1, <1>2, <1>3, <1>4, <1>5

\* A stamp loses a debt only where MayForget says so: where there may be a debt, and a
\* second actor may record it after the stamp's copy was taken.
LEMMA WriteStampPromise ==
  ASSUME DispatcherTypes, WorldTypes, PromiseInv, NEW r \in Reapers, WriteStamp(r)
  PROVE  Promised!Forget \/ Still
<1>1. UNCHANGED <<job, money, delivered>>  BY DEF WriteStamp
<1>2. Standing' = Standing  BY <1>1 DEF Standing
<1>3. CASE reaper[r].seen.class # "absent" \/ params.debt = "none"
  <2>1. params'.debt = params.debt
    <3>1. CASE reaper[r].seen.class # "absent"  BY <3>1 DEF WriteStamp
    <3>2. CASE reaper[r].seen.class = "absent"
      <4>1. reaper[r].seen \in Params /\ reaper[r].class \in Classes
        BY DEF WorldTypes, Sight
      <4>2. reaper[r].seen.debt = "none"  BY <3>2 DEF PromiseInv, MoneyInv, SeenOK
      <4> QED  BY <1>3, <3>2, <4>1, <4>2, StampKeepsDebt DEF WriteStamp
    <3> QED  BY <3>1, <3>2
  <2> QED  BY <1>1, <1>2, <2>1 DEF Still
<1>4. CASE reaper[r].seen.class = "absent" /\ params.debt # "none"
  <2>1. reaper[r].seen \in Params /\ reaper[r].class \in Classes
    BY DEF WorldTypes, Sight
  <2>2. reaper[r].seen.debt = "none"  BY <1>4 DEF PromiseInv, MoneyInv, SeenOK
  <2>3. (params.debt # "none")' = FALSE
    BY <1>4, <2>1, <2>2, StampKeepsDebt DEF WriteStamp
  <2>4. Standing = "failed"
    BY <1>4 DEF PromiseInv, MoneyInv, Settlement, PaidUnlessFailed, Standing
  <2>5. MayForget
    <3>1. {"badEvidence", "targetMissing"} \cap Faults # {}  BY <1>4 DEF PromiseInv, Held
    <3>2. ~WritesBackWhatIs  BY <1>4, <2>2 DEF WritesBackWhatIs, WriteStamp, At
    <3>3. {"giveUp", "cancel"} \cap Faults # {} \/ \E p, q \in Reapers : p # q
      BY <3>2 DEF PromiseInv, Held
    <3> QED  BY <3>1, <3>3 DEF MayForget
  <2> QED  BY <1>1, <1>2, <1>4, <2>3, <2>4, <2>5, Zenon DEF Promised!Forget
<1> QED  BY <1>3, <1>4

\* The compensator pays a debt only when nothing was restored yet, and clears it.
LEMMA PayDebtPromise ==
  ASSUME DispatcherTypes, WorldTypes, Settlement, NEW r \in Reapers, PayDebt(r)
  PROVE  Promised!Compensate \/ Still
<1>1. UNCHANGED <<job, delivered>>  BY DEF PayDebt
<1>2. Standing' = Standing  BY <1>1 DEF Standing
<1>3. CASE UNCHANGED <<params, money>>  BY <1>1, <1>2, <1>3 DEF Still
<1>4. CASE /\ params.debt # "none" /\ params' = [params EXCEPT !.debt = "none"]
           /\ money.ledger = 1 \/ Pay
  <2>1. Untouched /\ Standing = "failed"
    BY <1>4 DEF Settlement, DebtUnpaid, PaidUnlessFailed, Standing
  <2>2. Pay  BY <1>4, <2>1 DEF Untouched
  <2>3. money'.restored \in Promised!Refunds
    BY <2>1, <2>2, PayRefunds DEF DispatcherTypes, WorldTypes
  <2>4. (params.debt # "none")' = FALSE  BY <1>4 DEF DispatcherTypes, Params
  <2> QED
    BY <1>1, <1>2, <1>4, <2>1, <2>3, <2>4, Zenon DEF Promised!Compensate, Promised!Refund
<1> QED  BY <1>3, <1>4 DEF PayDebt

LEMMA ReaperPromise ==
  ASSUME DispatcherTypes, WorldTypes, PromiseInv, NEW r \in Reapers, Reap(r)
  PROVE  \/ Promised!Deliver \/ Promised!Fail \/ Promised!Compensate \/ Promised!Forget
         \/ Still
<1> USE DEF DispatcherTypes
<1>1. Settlement  BY DEF PromiseInv, MoneyInv
<1>2. CASE Retry(r)
  <2>1. delivered' = delivered  BY <1>2 DEF Retry
  <2>2. CASE UNCHANGED <<job, params, money, messages>>
    BY <2>1, <2>2, UnseenStep
  <2>3. CASE Requeue(reaper[r].exec) /\ job.status \in {"processing", "dispatching"}
    <3>1. job'.status = "queued"  BY <2>3 DEF Requeue, Row
    <3> QED  BY <2>1, <2>3, <3>1, UnseenStep DEF Requeue, Terminal
  <2>4. CASE Exhaust(reaper[r].exec) /\ job.status \in {"processing", "dispatching"}
    <3> DEFINE c == "pre_container"
    <3>1. Stamp(params, c).debt = params.debt /\ Stamp(Owe(params), c).debt # "none"
      BY OweType, OweOwes, StampOwes, StampKeepsDebt DEF Classes
    <3>2. job'.status = "failed" /\ job.status \notin Terminal
      BY <2>4 DEF Exhaust, Row, Terminal
    <3>3. Settle(Stamp(params, c), Stamp(Owe(params), c))  BY <2>4 DEF Exhaust
    <3> QED  BY <1>1, <2>1, <3>1, <3>2, <3>3, SettleFails
  <2> QED  BY <1>2, <2>2, <2>3, <2>4 DEF Retry
<1>3. CASE Bury(r) \/ Corrupt(r) \/ FailJob(r)
  <2>1. delivered' = delivered  BY <1>3 DEF Bury, Corrupt, FailJob
  <2>2. \/ UNCHANGED <<job, params, money>> \/ MarkFailed
        \/ \E c \in Classes : TerminalizeAndRefund(Stamp(params, c), Owe(Stamp(params, c)))
    BY <1>3 DEF Bury, Corrupt, FailJob, Classes
  <2>3. ASSUME NEW c \in Classes PROVE Stamp(params, c).debt = params.debt
    BY StampKeepsDebt
  <2>4. CASE UNCHANGED <<job, params, money>>  BY <2>1, <2>4, UnseenStep
  <2>5. CASE MarkFailed  BY <1>1, <2>1, <2>5, MarkFailedFails
  <2>6. ASSUME NEW c \in Classes, TerminalizeAndRefund(Stamp(params, c), Owe(Stamp(params, c)))
        PROVE  Promised!Fail \/ Still
    BY <1>1, <2>1, <2>3, <2>6, OweOwes, TerminalizeFails
  <2> QED  BY <2>2, <2>4, <2>5, <2>6
<1>4. CASE RecoverCompleted(r)
  BY <1>4, VerdictDelivers DEF RecoverCompleted, At, PromiseInv, Shipped
<1>5. CASE WriteStamp(r)  BY <1>5, WriteStampPromise
<1>6. CASE PayDebt(r)  BY <1>1, <1>6, PayDebtPromise
<1>7. CASE \/ Sweep(r) \/ RecordFound(r) \/ Fetch(r) \/ Orphan(r) \/ Adopt(r) \/ AgeOrphan(r)
           \/ VerifyDelivery(r) \/ ReadStamp(r) \/ ReadDebt(r)
  <2>1. UNCHANGED <<money, params, delivered>>
    BY <1>7 DEF Sweep, RecordFound, Fetch, Orphan, Adopt, AgeOrphan, VerifyDelivery,
       ReadStamp, ReadDebt
  <2>2. job'.status = job.status
    BY <1>7 DEF Sweep, RecordFound, Fetch, Orphan, Adopt, AgeOrphan, VerifyDelivery,
       ReadStamp, ReadDebt, RecordId, StampClock, Row
  <2> QED  BY <2>1, <2>2, UnseenStep
<1> QED  BY <1>2, <1>3, <1>4, <1>5, <1>6, <1>7 DEF Reap

LEMMA WorldPromise ==
  ASSUME DispatcherTypes, WorldTypes, Settlement,
         Redeliver \/ Cancel \/ Tick \/ CorruptHistory \/ PayerChanges \/ UNCHANGED vars
  PROVE  Promised!Fail \/ Still
<1>1. CASE Cancel
  <2>1. delivered' = delivered /\ (UNCHANGED <<job, params, money>> \/ MarkFailed)
    BY <1>1 DEF Cancel
  <2> QED  BY <2>1, UnseenStep, MarkFailedFails
<1>2. CASE Redeliver \/ Tick \/ CorruptHistory \/ PayerChanges \/ UNCHANGED vars
  <2>1. UNCHANGED <<money, params, delivered>> /\ job'.status = job.status
    BY <1>2 DEF Redeliver, Tick, CorruptHistory, PayerChanges, vars, DispatcherTypes, Row
  <2> QED  BY <2>1, UnseenStep
<1> QED  BY <1>1, <1>2

LEMMA PromiseNext ==
  ASSUME "adminRetry" \notin Faults, TypeOK, PromiseInv, [Next]_vars
  PROVE  [Promised!Next]_(Promised!promise)
<1> USE DEF Promised!Next
<1>1. DispatcherTypes /\ WorldTypes /\ Settlement
  BY TypeParts DEF PromiseInv, MoneyInv
<1>2. CASE \E w \in Workers : Dispatcher(w) \/ Crash(w)
  BY <1>1, <1>2, DispatcherPromise, StillStutters
<1>3. CASE \E e \in ExecIds : Container(e)
  BY <1>1, <1>3, ContainerPromise, StillStutters
<1>4. CASE \E r \in Reapers : Reap(r)
  BY <1>1, <1>4, ReaperPromise, StillStutters
<1>5. CASE Redeliver \/ Cancel \/ Tick \/ CorruptHistory \/ PayerChanges \/ UNCHANGED vars
  BY <1>1, <1>5, WorldPromise, StillStutters
<1>6. ~AdminRetry  BY DEF AdminRetry
<1> QED  BY <1>2, <1>3, <1>4, <1>5, <1>6 DEF Next

\* JobLifecycle implements PaidJob. Whatever crashes, is duplicated, late or lost, and
\* however many reapers, containers and cancellations end the job: it is delivered only
\* with its results, it fails once, its credits come back at most once and only then, and
\* until they do they stay owed. A debt is lost only under the conditions MayForget names.
THEOREM CreditsAreHonoured ==
  "adminRetry" \notin Faults => (Spec => PromiseKept)
<1> SUFFICES ASSUME "adminRetry" \notin Faults PROVE Spec => PromiseKept  OBVIOUS
<1>1. Init => TypeOK /\ PromiseInv  BY PromiseInit
<1>2. TypeOK /\ PromiseInv /\ [Next]_vars => (TypeOK /\ PromiseInv)'  BY PromiseStep
<1>3. Init => Promised!Init
  <2> SUFFICES ASSUME Init PROVE Promised!Init  OBVIOUS
  <2>1. Standing = "paid"  BY DEF Init, Standing
  <2>2. delivered = FALSE /\ money.restored = [b \in Buckets |-> 0] /\ params.debt = "none"
    BY DEF Init
  <2> QED  BY <2>1, <2>2, Zenon DEF Promised!Init, Promised!Nothing
<1>4. TypeOK /\ PromiseInv /\ [Next]_vars => [Promised!Next]_(Promised!promise)
  BY PromiseNext
<1> QED  BY <1>1, <1>2, <1>3, <1>4, PTL DEF Spec, PromiseKept, Promised!Spec

-----------------------------------------------------------------------------
(* The budget. The row and the history together are a lock: at most one    *)
(* execution is not in the history, and whoever may start the next one     *)
(* does so while there is none and the budget has room.                    *)

\* No execution is unaccounted for, and one more is within the budget.
Free == ExecIds \subseteq job.history /\ Len(execs) < MaxExecutions

\* Workers that have the claim and have started nothing under it.
Holding == {w \in Workers : worker[w].pc \in {"claimed", "revert"}}

OneOpen == \A e, f \in ExecIds \ job.history : e = f
ClaimIsFree ==
  /\ job.status = "queued" => Free /\ Holding = {}
  /\ Holding # {} => Free
  /\ \A v, w \in Holding : v = w
BudgetInv == OneOpen /\ ClaimIsFree /\ BudgetKept

LEMMA BudgetCarries ==
  ASSUME BudgetInv, Len(execs') = Len(execs), job'.history = job.history,
         job'.status = "queued" => job.status = "queued", Holding' \subseteq Holding
  PROVE  BudgetInv'
<1>1. ExecIds' = ExecIds  BY DEF ExecIds
<1>2. Free' <=> Free  BY <1>1 DEF Free
<1>3. OneOpen'  BY <1>1 DEF BudgetInv, OneOpen
<1>4. ClaimIsFree'  BY <1>2 DEF BudgetInv, ClaimIsFree
<1> QED  BY <1>3, <1>4 DEF BudgetInv, BudgetKept

LEMMA HoldingGo ==
  ASSUME worker \in [Workers -> Hand], NEW w \in Workers, NEW s, NEW e, WorkerGo(w, s, e)
  PROVE  Holding' = IF s \in {"claimed", "revert"} THEN Holding \cup {w} ELSE Holding \ {w}
BY DEF WorkerGo, Holding, Hand

LEMMA DispatcherBudget ==
  ASSUME "replyLost" \notin Faults, DispatcherTypes, BudgetInv,
         NEW w \in Workers, Dispatcher(w) \/ Crash(w)
  PROVE  BudgetInv'
<1> USE DEF DispatcherTypes
<1>1. CASE Claim(w)
  <2>1. /\ ExecIds' = ExecIds /\ Len(execs') = Len(execs) /\ job'.history = job.history
        /\ job'.status = "dispatching" /\ job.status = "queued"
    BY <1>1 DEF Claim, ExecIds, Row
  <2>2. Holding' = Holding \cup {w}  BY <1>1, HoldingGo DEF Claim
  <2>3. Holding = {} /\ Free  BY <2>1 DEF BudgetInv, ClaimIsFree
  <2>4. Free'  BY <2>1, <2>3 DEF Free
  <2>5. ClaimIsFree'  BY <2>1, <2>2, <2>3, <2>4 DEF ClaimIsFree
  <2> QED  BY <2>1, <2>5 DEF BudgetInv, OneOpen, BudgetKept
<1>2. CASE StartExec(w)
  <2>1. w \in Holding  BY <1>2 DEF StartExec, Holding
  <2>2. Free /\ Holding = {w} /\ job.status # "queued"
    BY <2>1 DEF BudgetInv, ClaimIsFree
  <2>3. Holding' = {}  BY <1>2, <2>2, HoldingGo DEF StartExec
  <2>4. Len(execs') = Len(execs) + 1 /\ Len(execs) \in Nat
    <3>1. [stage |-> "hidden", fate |-> "none"] \in Exec  BY DEF Exec, Stages, Fates
    <3> QED  BY <1>2, <3>1, AppendProperties DEF StartExec
  <2>5. ExecIds' = ExecIds \cup {Len(execs) + 1}  BY <2>4 DEF ExecIds
  <2>6. job' = job  BY <1>2 DEF StartExec
  <2>7. OneOpen'  BY <2>2, <2>5, <2>6 DEF OneOpen, Free
  <2>8. ClaimIsFree'  BY <2>2, <2>3, <2>6 DEF ClaimIsFree
  <2>9. BudgetKept'  BY <2>2, <2>4, LifecycleConstants DEF Free, BudgetKept
  <2> QED  BY <2>7, <2>8, <2>9 DEF BudgetInv
<1>3. CASE StartRaises(w)
  <2>1. w \in Holding /\ Holding' = Holding
    BY <1>3, HoldingGo DEF StartRaises, Holding
  <2> QED  BY <1>3, <2>1, BudgetCarries DEF StartRaises
<1>4. CASE Revert(w)
  <2>1. w \in Holding  BY <1>4 DEF Revert, Holding
  <2>2. Free /\ Holding = {w} /\ job.status # "queued"
    BY <2>1 DEF BudgetInv, ClaimIsFree
  <2>3. Holding' = {}  BY <1>4, <2>2, HoldingGo DEF Revert
  <2>4. ExecIds' = ExecIds /\ Len(execs') = Len(execs) /\ job'.history = job.history
    BY <1>4 DEF Revert, SetStatus, ExecIds, Row
  <2>5. Free'  BY <2>2, <2>4 DEF Free
  <2>6. ClaimIsFree'  BY <2>3, <2>5 DEF ClaimIsFree
  <2> QED  BY <2>4, <2>6 DEF BudgetInv, OneOpen, BudgetKept
<1>5. CASE TurnAway(w) \/ GiveUp(w)
  <2>1. /\ execs' = execs /\ Holding' = Holding /\ job'.history = job.history
        /\ job'.status = "queued" => job.status = "queued"
    BY <1>5 DEF TurnAway, GiveUp, MarkFailed, TerminalizeAndRefund, SetStatus, Holding, Row
  <2> QED  BY <2>1, BudgetCarries
<1>6. CASE RecoverGap(w) \/ Record(w) \/ Crash(w)
  <2>1. /\ execs' = execs /\ job'.history = job.history
        /\ job'.status = "queued" => job.status = "queued"
    BY <1>6 DEF RecoverGap, Record, Crash, RecordId, Row
  <2>2. worker' = worker \/ \E s \in {"idle", "recover"} : \E e : WorkerGo(w, s, e)
    BY <1>6 DEF RecoverGap, Record, Crash
  <2>3. Holding' \subseteq Holding
    <3>1. CASE worker' = worker  BY <3>1 DEF Holding
    <3>2. ASSUME NEW s \in {"idle", "recover"}, NEW e, WorkerGo(w, s, e)
          PROVE  Holding' \subseteq Holding
      BY <3>2, HoldingGo
    <3> QED  BY <2>2, <3>1, <3>2
  <2> QED  BY <2>1, <2>3, BudgetCarries
<1> QED  BY <1>1, <1>2, <1>3, <1>4, <1>5, <1>6 DEF Dispatcher

LEMMA UpTo == ASSUME NEW n \in Nat PROVE Cardinality(1..n) = n
<1>1. 1 \in Int /\ n \in Int  OBVIOUS
<1>2. Cardinality(1..n) = IF 1 > n THEN 0 ELSE n - 1 + 1  BY <1>1, FS_Interval, Zenon
<1> QED  BY <1>2

\* The retry requeues a job only while the execution it replaces is the one that is not
\* in the history, so the history then holds them all.
LEMMA RequeueIsFree ==
  ASSUME job \in Row, execs \in Seq(Exec), BudgetInv, job.history \subseteq ExecIds,
         NEW e \in ExecIds, e \notin job.history, BudgetLeft(e)
  PROVE  ExecIds \subseteq job.history \cup {e} /\ Len(execs) < MaxExecutions /\ Holding = {}
<1>1. ExecIds = job.history \cup {e}  BY DEF BudgetInv, OneOpen
<1>2. Len(execs) \in Nat  BY LenProperties
<1>3. Cardinality(1..Len(execs)) = Len(execs)  BY <1>2, UpTo
<1>4. Len(execs) < MaxExecutions  BY <1>1, <1>3 DEF BudgetLeft, ExecIds
<1>5. Holding = {}  BY DEF BudgetInv, ClaimIsFree, Free
<1> QED  BY <1>1, <1>4, <1>5

LEMMA ReaperBudget ==
  ASSUME DispatcherTypes, HistoryInv, BudgetInv, NEW r \in Reapers, Reap(r)
  PROVE  BudgetInv'
<1> USE DEF DispatcherTypes
<1>1. execs' = execs /\ Holding' = Holding /\ ExecIds' = ExecIds
  BY DEF Reap, Sweep, RecordFound, Fetch, Retry, Orphan, Adopt, AgeOrphan, Bury, Corrupt,
     VerifyDelivery, RecoverCompleted, ReadStamp, WriteStamp, FailJob, ReadDebt, PayDebt,
     Holding, ExecIds
<1>2. CASE Retry(r)
  <2> DEFINE e == reaper[r].exec
  <2>1. e \in ExecIds  BY <1>2 DEF Retry, At, HistoryInv, RetryJustified
  <2>2. \/ UNCHANGED job
        \/ e \notin job.history /\ BudgetLeft(e) /\ Requeue(e)
        \/ Exhaust(e)
    BY <1>2 DEF Retry
  <2>3. CASE UNCHANGED job  BY <1>1, <2>3, BudgetCarries
  <2>4. CASE e \notin job.history /\ BudgetLeft(e) /\ Requeue(e)
    <3>1. job'.history = job.history \cup {e}  BY <2>4 DEF Requeue, Row
    <3>2. ExecIds \subseteq job.history \cup {e} /\ Len(execs) < MaxExecutions /\ Holding = {}
      BY <2>1, <2>4, RequeueIsFree DEF HistoryInv, IdsExist
    <3>3. Free' /\ Holding' = {}  BY <1>1, <3>1, <3>2 DEF Free
    <3>4. ClaimIsFree' /\ OneOpen'  BY <3>3 DEF ClaimIsFree, OneOpen, Free
    <3> QED  BY <1>1, <3>4 DEF BudgetInv, BudgetKept
  <2>5. CASE Exhaust(e)
    <3>1. job'.history = job.history \cup {e} /\ job'.status = "failed"
      BY <2>5 DEF Exhaust, Row
    <3>2. OneOpen' /\ (Free => Free')  BY <1>1, <3>1 DEF BudgetInv, OneOpen, Free
    <3>3. ClaimIsFree'  BY <1>1, <3>1, <3>2 DEF BudgetInv, ClaimIsFree
    <3> QED  BY <1>1, <3>2, <3>3 DEF BudgetInv, BudgetKept
  <2> QED  BY <2>2, <2>3, <2>4, <2>5
<1>3. CASE ~Retry(r)
  <2>1. /\ job'.history = job.history
        /\ job'.status = "queued" => job.status = "queued"
    BY <1>3 DEF Reap, Sweep, RecordFound, Fetch, Orphan, Adopt, AgeOrphan, Bury, Corrupt,
       VerifyDelivery, RecoverCompleted, ReadStamp, WriteStamp, FailJob, ReadDebt, PayDebt,
       MarkFailed, TerminalizeAndRefund, RecordId, StampClock, Verdict, SetStatus, Row
  <2> QED  BY <1>1, <2>1, BudgetCarries
<1> QED  BY <1>2, <1>3

LEMMA ContainerBudget ==
  ASSUME DispatcherTypes, BudgetInv, NEW e \in ExecIds, Container(e)
  PROVE  BudgetInv'
<1> USE DEF DispatcherTypes
<1>1. /\ job'.history = job.history /\ worker' = worker
      /\ job'.status = "queued" => job.status = "queued"
  BY DEF Container, Appears, ProvisionFails, Boots, Processing, Delivers, Completes,
     ContainerFails, Dies, Verdict, SetStatus, Row
<1>2. \/ execs' = execs \/ \E s \in Stages : Becomes(e, s) \/ \E why \in Fates : Fails(e, why)
  BY DEF Container, Appears, ProvisionFails, Boots, Processing, Delivers, Completes,
     ContainerFails, Dies, Stages, Fates
<1>3. Len(execs') = Len(execs)
  <2>1. ASSUME NEW s \in Stages, Becomes(e, s) PROVE Len(execs') = Len(execs)
    BY <2>1, BecomesExec
  <2>2. ASSUME NEW why \in Fates, Fails(e, why) PROVE Len(execs') = Len(execs)
    BY <2>2, FailsExec
  <2> QED  BY <1>2, <2>1, <2>2
<1>4. Holding' = Holding  BY <1>1 DEF Holding
<1> QED  BY <1>1, <1>3, <1>4, BudgetCarries

LEMMA WorldBudget ==
  ASSUME DispatcherTypes, WorldTypes, BudgetInv,
         Redeliver \/ Cancel \/ Tick \/ CorruptHistory \/ PayerChanges \/ UNCHANGED vars
  PROVE  BudgetInv'
<1> USE DEF DispatcherTypes, WorldTypes
<1>1. /\ job'.history = job.history /\ worker' = worker
      /\ job'.status = "queued" => job.status = "queued"
  BY DEF Redeliver, Cancel, Tick, CorruptHistory, PayerChanges, vars, MarkFailed,
     TerminalizeAndRefund, SetStatus, Row
<1>2. execs' = execs \/ Becomes(canceller.exec, "stopped")
  BY DEF Redeliver, Cancel, Tick, CorruptHistory, PayerChanges, vars
<1>3. Len(execs') = Len(execs)  BY <1>2, BecomesExec DEF Stages
<1>4. Holding' = Holding  BY <1>1 DEF Holding
<1> QED  BY <1>1, <1>3, <1>4, BudgetCarries

LEMMA BudgetInit == Init => BudgetInv
<1> SUFFICES ASSUME Init PROVE BudgetInv  OBVIOUS
<1>1. ExecIds = {} /\ Len(execs) = 0  BY DEF Init, ExecIds
<1>2. Holding = {}  BY DEF Init, Holding
<1> QED
  BY <1>1, <1>2, LifecycleConstants DEF BudgetInv, OneOpen, ClaimIsFree, Free, BudgetKept

LEMMA BudgetStep ==
  ASSUME {"replyLost", "adminRetry"} \cap Faults = {},
         DispatcherTypes, WorldTypes, HistoryInv, BudgetInv, [Next]_vars
  PROVE  BudgetInv'
<1>1. "replyLost" \notin Faults /\ ~AdminRetry  BY DEF AdminRetry
<1> QED
  BY <1>1, DispatcherBudget, ContainerBudget, ReaperBudget, WorldBudget DEF Next

LEMMA BudgetAlways ==
  ASSUME {"replyLost", "adminRetry"} \cap Faults = {}
  PROVE  Spec => [](TypeOK /\ HistoryInv /\ BudgetInv)
<1>1. Init => TypeOK /\ HistoryInv /\ BudgetInv  BY TypeInit, HistoryInit, BudgetInit
<1>2. TypeOK /\ HistoryInv /\ BudgetInv /\ [Next]_vars
        => (TypeOK /\ HistoryInv /\ BudgetInv)'
  BY TypeStep, TypeParts, HistoryStep, BudgetStep
<1> QED  BY <1>1, <1>2, PTL DEF Spec

\* Through crashes, duplicated messages, failed start calls, slow replicas, cancellations
\* and any number of reapers that retry at the same time, a job never starts more
\* executions than its budget. A start call that raises after it was submitted, or an
\* administrator's retry, hides an execution from the budget and is excluded by name.
THEOREM RetryBudgetIsKept ==
  ASSUME {"replyLost", "adminRetry"} \cap Faults = {}
  PROVE  Spec => []BudgetKept
<1>1. BudgetInv => BudgetKept  BY DEF BudgetInv
<1> QED  BY <1>1, BudgetAlways, PTL

\* Under the same conditions a retry replaces a dead attempt: two executions of a job are
\* never alive together.
THEOREM AtMostOneLiveExecution ==
  ASSUME {"replyLost", "adminRetry"} \cap Faults = {}
  PROVE  Spec => []OneLiveExecution
<1>1. TypeOK /\ HistoryInv /\ BudgetInv => OneLiveExecution
  <2> SUFFICES ASSUME HistoryInv, BudgetInv PROVE OneLiveExecution  OBVIOUS
  <2> DEFINE S == {e \in ExecIds : Live(e)}
  <2>1. S \subseteq ExecIds \ job.history
    BY DEF HistoryInv, RetriedNeverRan, FateIffFailed, Live, Ended
  <2>2. \A e, f \in S : e = f  BY <2>1 DEF BudgetInv, OneOpen
  <2>3. S = {} \/ \E e : S = {e}  BY <2>2
  <2>4. Cardinality(S) \in {0, 1}  BY <2>3, FS_EmptySet, FS_Singleton
  <2> QED  BY <2>4 DEF OneLiveExecution
<1> QED  BY <1>1, BudgetAlways, PTL
=============================================================================
