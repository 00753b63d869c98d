----------------------------- MODULE LoadRamp -----------------------------
(***************************************************************************)
(* The load harness (posttrade/loadtest/load_harness.py): a ramp of steps, *)
(* each with publisher processes of its own, against one pool of workers   *)
(* that lives from the first step to the last.  A step judges the pool by  *)
(* the group's lag alone, the entries that no worker has read; the ramp    *)
(* ends with the first step that leaves any, and the workers are then      *)
(* told to stop.                                                           *)
(*                                                                         *)
(* The workers are those of TickWorkers, without limits and without a      *)
(* recoverer.  Harness, publishers and workers are processes that share    *)
(* nothing but Redis and the queue of results; rates and times are not     *)
(* modelled, so a publisher sends any number of batches and the grace      *)
(* period ends after any number of polls.                                  *)
(***************************************************************************)
EXTENDS TickWorkers, Sequences

CONSTANTS
    Publishers,     \* publisher_processes
    Steps           \* the number of rates

ASSUME RampAssumption ==
    /\ IsFiniteSet(Publishers)
    /\ Steps \in Nat \ {0}
    /\ Recoverers = {} /\ {MaxMessages, MaxIdleReads} = {None}

VARIABLES
    ramp,           \* where run_ramp is
    publisher,      \* where each publisher process of the step is
    sent,           \* the local variable published of each
    peak,           \* the largest of samples
    endLag,         \* lag_at_step_end
    results,        \* results of run_ramp
    base            \* auxiliary: entries in the stream when the step began

publishVars == <<publisher, sent>>
stepVars == <<peak, endLag, results, base>>
rampVars == <<ramp, publishVars, stepVars>>
allVars == <<vars, rampVars>>

Measuring == {"produce", "grace", "judge"}
StepResult == [published : Nat, peak : Nat, endLag : Nat, caughtUp : BOOLEAN]

RampTypeOK ==
    /\ TypeOK
    /\ ramp \in {"idle", "begin", "stop", "over"} \cup Measuring
    /\ publisher \in [Publishers -> {"none", "sending", "reported", "dead"}]
    /\ sent \in [Publishers -> 0 .. MaxPublished]
    /\ {peak, endLag, base} \subseteq 0 .. MaxPublished
    /\ results \in Seq(StepResult) /\ Len(results) <= Steps

RampInit ==
    /\ Init
    /\ ramp = "idle"
    /\ publisher = [p \in Publishers |-> "none"]
    /\ sent = [p \in Publishers |-> 0]
    /\ peak = 0 /\ endLag = 0 /\ results = <<>> /\ base = 0

(* _get_lag: the lag of XINFO GROUPS, which leaves out what is pending;    *)
(* Redis knows it as long as no entry is deleted, and none is.             *)
Lag == published - cursor

Larger(a, b) == IF a < b THEN b ELSE a

-----------------------------------------------------------------------------
(* Faulty variants of definitions below, to test the properties against. *)
SomeExited == \E p \in Publishers : publisher[p] # "sending"
AllReported == \A p \in Publishers : publisher[p] = "reported"
GoesOnAnyway(caughtUp) == Len(results) + 1 < Steps
TerminateKilling(w) ==
    /\ ramp = "stop"
    /\ phase[w] \in {"down"} \cup InLoop
    /\ phase' = [phase EXCEPT ![w] = "stopped"]
    /\ batch' = [batch EXCEPT ![w] = {}]
    /\ running' = [running EXCEPT ![w] = FALSE]
    /\ UNCHANGED <<groupVars, processed, idle, rows, runs, crashes, claims, rampVars>>

-----------------------------------------------------------------------------
(* start_workers: the bootstrap consumer creates the group. *)
StartWorkers ==
    /\ ramp = "idle"
    /\ CreateGroup
    /\ ramp' = "begin"
    /\ UNCHANGED <<published, owner, loopVars, rows, runs, crashes, claims,
                   publishVars, stepVars>>

(* A worker process, from p.start() until something ends it. *)
WorkerRuns(w) ==
    /\ ramp # "idle"
    /\ \/ phase[w] = "down" /\ Start(w)
       \/ Read(w) \/ ReadNothing(w) \/ Write(w) \/ Ack(w) \/ Crash(w)
    /\ UNCHANGED rampVars

(* run_step up to the start of its publishers. *)
BeginStep ==
    /\ ramp = "begin"
    /\ ramp' = "produce"
    /\ publisher' = [p \in Publishers |-> "sending"]
    /\ base' = published
    /\ UNCHANGED <<vars, sent, peak, endLag, results>>

(* A turn of the loop of _publish_process. *)
SendBatch(p) ==
    /\ publisher[p] = "sending"
    /\ XAdd(PublishBatch)
    /\ sent' = [sent EXCEPT ![p] = @ + PublishBatch]
    /\ UNCHANGED <<cursor, owner, loopVars, rows, runs, crashes, claims,
                   ramp, publisher, stepVars>>

(* Its time is over: it puts its count into the queue and exits. *)
Report(p) ==
    /\ publisher[p] = "sending"
    /\ publisher' = [publisher EXCEPT ![p] = "reported"]
    /\ UNCHANGED <<vars, ramp, sent, stepVars>>

(* An exception, or the death of the process: its count is missing. *)
PublisherDies(p) ==
    /\ publisher[p] = "sending"
    /\ crashes < MaxCrashes
    /\ crashes' = crashes + 1
    /\ publisher' = [publisher EXCEPT ![p] = "dead"]
    /\ sent' = [sent EXCEPT ![p] = 0]
    /\ UNCHANGED <<groupVars, loopVars, rows, runs, claims, ramp, stepVars>>

AllExited == \A p \in Publishers : publisher[p] # "sending"

(* The polling loop of _produce takes a sample now and then ... *)
Sample ==
    /\ ramp = "produce"
    /\ peak' = Larger(peak, Lag)
    /\ UNCHANGED <<vars, ramp, publishVars, endLag, results, base>>

(* ... and ends with the publishers; lag_at_step_end is read next. *)
EndProduce ==
    /\ ramp = "produce"
    /\ AllExited
    /\ endLag' = Lag
    /\ ramp' = "grace"
    /\ UNCHANGED <<vars, publishVars, peak, results, base>>

(* A turn of the grace loop: it breaks without a lag, or may run out of    *)
(* time after its pause.                                                   *)
AfterPoll == IF Lag = 0 THEN {"judge"} ELSE {"grace", "judge"}

GracePoll ==
    /\ ramp = "grace"
    /\ peak' = Larger(peak, Lag)
    /\ ramp' \in AfterPoll
    /\ UNCHANGED <<vars, publishVars, endLag, results, base>>

(* The counts that are in the queue, added up. *)
Counted == SumFunctionOnSet(sent, {p \in Publishers : publisher[p] = "reported"})

(* run_ramp goes on to the next rate unless the pool has not caught up. *)
GoesOn(caughtUp) == caughtUp /\ Len(results) + 1 < Steps

(* lag_after_grace and the result, a query of its own after the loop's.    *)
Judge ==
    /\ ramp = "judge"
    /\ results' = Append(results, [published |-> Counted, peak |-> peak,
                                   endLag |-> endLag, caughtUp |-> Lag = 0])
    /\ ramp' = IF GoesOn(Lag = 0) THEN "begin" ELSE "stop"
    /\ publisher' = [p \in Publishers |-> "none"]
    /\ sent' = [p \in Publishers |-> 0]
    /\ peak' = 0 /\ endLag' = 0 /\ base' = 0
    /\ UNCHANGED vars

(* A query of the harness raises: the finally block stops the workers, and *)
(* the publishers of the step go on.                                       *)
StepRaises ==
    /\ ramp \in Measuring
    /\ crashes < MaxCrashes
    /\ crashes' = crashes + 1
    /\ ramp' = "stop"
    /\ peak' = 0 /\ endLag' = 0 /\ base' = 0
    /\ UNCHANGED <<groupVars, loopVars, rows, runs, claims, publishVars, results>>

(* p.terminate(): SIGTERM, which a process that has not yet installed its  *)
(* handler does not survive.                                               *)
Terminate(w) ==
    /\ ramp = "stop"
    /\ \/ Signal(w)
       \/ /\ phase[w] = "down"
          /\ phase' = [phase EXCEPT ![w] = "stopped"]
          /\ UNCHANGED <<groupVars, batch, processed, idle, running, rows, runs, crashes, claims>>
    /\ UNCHANGED rampVars

(* p.join(timeout=10): returns whether the worker has ended or not. *)
Join ==
    /\ ramp = "stop"
    /\ \A w \in Workers : phase[w] # "down" /\ (phase[w] \in InLoop => ~running[w])
    /\ ramp' = "over"
    /\ UNCHANGED <<vars, publishVars, stepVars>>

Harness ==
    \/ StartWorkers \/ BeginStep \/ EndProduce \/ GracePoll \/ Judge
    \/ \E w \in Workers : Terminate(w)
    \/ Join

RampNext ==
    \/ Harness \/ Sample \/ StepRaises
    \/ \E p \in Publishers : SendBatch(p) \/ Report(p) \/ PublisherDies(p)
    \/ \E w \in Workers : WorkerRuns(w)

RampSpec == RampInit /\ [][RampNext]_allVars

(* Every process is scheduled and every call returns; a publisher's time   *)
(* and the grace period are over some day.  That a batch is sent, that a   *)
(* lag is sampled and that something fails is not owed to anybody.         *)
RampFairness ==
    /\ WF_allVars(Harness)
    /\ \A p \in Publishers : WF_allVars(Report(p))
    /\ \A w \in Workers : WF_allVars(WorkerRuns(w) /\ crashes' = crashes)

FairRampSpec == RampSpec /\ RampFairness

-----------------------------------------------------------------------------
(* The steps do not run into each other: while one is measured, nothing an *)
(* earlier one published is still waiting to be read, so no step is blamed *)
(* for the backlog of another.                                             *)
StepsAreApart == ramp \in Measuring => base <= cursor

(* What the results say of the steps adds up to what is in the stream, and *)
(* no step shows a larger lag than it has published itself, as long as no  *)
(* publisher dies with its count.                                          *)
ResultsAddUp ==
    crashes = 0 =>
        /\ ramp \in {"begin", "stop", "over"} =>
            published = FoldFunction(LAMBDA r, total : r.published + total, 0, results)
        /\ \A i \in DOMAIN results :
            {results[i].peak, results[i].endLag} \subseteq 0 .. results[i].published

(* A lag of zero does not mean stored, but the shutdown makes good for it: *)
(* after a ramp whose last step was caught up, and when the workers have   *)
(* followed their signal, every entry ever published is stored exactly     *)
(* once and nothing is left pending.                                       *)
Ended == ramp = "over" /\ \A w \in Workers : phase[w] \notin InLoop

StoppedIsStored ==
    Ended /\ crashes = 0 /\ results[Len(results)].caughtUp =>
        \A m \in 1 .. published : m \in Settled /\ rows[m] = 1

(* The ramp comes to an end whatever dies on the way: publishers without a *)
(* count, all of the workers, or a query in the middle of a step.          *)
RampEnds == <>(ramp = "over")
=============================================================================
