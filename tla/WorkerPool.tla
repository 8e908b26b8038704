----------------------------- MODULE WorkerPool -----------------------------
(***************************************************************************)
(* The worker pool of internal/oci/collector.go: the goroutines and the two *)
(* channels that searchAllRegions (184-249), getAllDatabases (305-357) and  *)
(* getAllComputeInstances (382-436) all build in the same way.              *)
(*                                                                          *)
(*   producer  --jobs (unbuffered)-->  workers  --results (buffered)-->     *)
(*   consumer (the calling goroutine);  closer: wg.Wait, close(results)     *)
(*                                                                          *)
(* Jobs are the positions 1..count of the slice the pool ranges over. What  *)
(* a call of the cloud API returns is reduced to whether its error is nil.  *)
(***************************************************************************)
EXTENDS Naturals, Sequences, Functions

CONSTANTS
    Workers,  \* cfg.Workers
    MaxJobs   \* bound on the length of the slice of jobs

\* config.Validate accepts from 1 to 128 workers.
ASSUME WorkersAssumption == Workers \in 1..128
ASSUME MaxJobsAssumption == MaxJobs \in Nat

VARIABLES
    count,          \* len(regions) or len(refs)
    capacity,       \* cap(results)
    next,           \* the position the producer's loop offers, count + 1 after it
    jobsClosed,
    pc,             \* where each worker is
    job,            \* the job each busy worker has received, 0 for the others
    ok,             \* whether its call has returned no error
    results,        \* the buffered results, oldest first
    resultsClosed,
    records,        \* the jobs of the records appended, in order of arrival
    failures,       \* the jobs of the errors appended, in order of arrival
    returned,       \* the pool function has returned
    expired         \* ctx is done

producer == <<next, jobsClosed>>
workers  == <<pc, job, ok>>
channel  == <<results, resultsClosed>>
output   == <<records, failures, returned>>
params   == <<count, capacity>>
vars     == <<params, producer, workers, channel, output, expired>>

Lesser(a, b) == IF a <= b THEN a ELSE b

\* The goroutine identities there can be; Started is the number there are.
Worker  == 1..Workers
Started == Lesser(Workers, count)
Busy    == {w \in Worker : pc[w] \in {"calling", "sending"}}

Result == [job : 1..count, ok : BOOLEAN]

-----------------------------------------------------------------------------
(* The search pool buffers a result per region, the two detail pools one    *)
(* per worker; the context may be done before the pool starts.              *)

Init == /\ count \in 0..MaxJobs
        /\ capacity \in {count, Lesser(count, Workers)}
        /\ next = 1
        /\ jobsClosed = FALSE
        /\ pc = [w \in Worker |-> IF w <= Started THEN "receiving" ELSE "done"]
        /\ job = [w \in Worker |-> 0]
        /\ ok = [w \in Worker |-> FALSE]
        /\ results = <<>>
        /\ resultsClosed = FALSE
        /\ records = <<>>
        /\ failures = <<>>
        /\ returned = FALSE
        /\ expired \in BOOLEAN

-----------------------------------------------------------------------------
(* The producer. A select with both cases ready picks either, so a job may  *)
(* still be handed out after the deadline.                                  *)

DispatchOffByOne(w) ==
    /\ ~jobsClosed
    /\ next <= count + 1
    /\ pc[w] = "receiving"
    /\ pc' = [pc EXCEPT ![w] = "calling"]
    /\ job' = [job EXCEPT ![w] = next]
    /\ next' = next + 1
    /\ UNCHANGED <<params, jobsClosed, ok, channel, output, expired>>

Dispatch(w) ==
    /\ ~jobsClosed
    /\ next <= count
    /\ pc[w] = "receiving"
    /\ pc' = [pc EXCEPT ![w] = "calling"]
    /\ job' = [job EXCEPT ![w] = next]
    /\ next' = next + 1
    /\ UNCHANGED <<params, jobsClosed, ok, channel, output, expired>>

\* case <-ctx.Done(): return, and the deferred close(jobs).
ProducerStop ==
    /\ ~jobsClosed
    /\ next <= count
    /\ expired
    /\ jobsClosed' = TRUE
    /\ UNCHANGED <<params, next, workers, channel, output, expired>>

ProducerFinishWithoutDefer ==
    /\ ~jobsClosed
    /\ next = count + 1
    /\ expired
    /\ jobsClosed' = TRUE
    /\ UNCHANGED <<params, next, workers, channel, output, expired>>

\* The loop is over: the deferred close(jobs).
ProducerFinish ==
    /\ ~jobsClosed
    /\ next = count + 1
    /\ jobsClosed' = TRUE
    /\ UNCHANGED <<params, next, workers, channel, output, expired>>

-----------------------------------------------------------------------------
(* A worker: receive a job, make the call, send its result, receive again.  *)

CallReturns(w) ==
    /\ pc[w] = "calling"
    /\ pc' = [pc EXCEPT ![w] = "sending"]
    /\ \E isNil \in BOOLEAN : ok' = [ok EXCEPT ![w] = isNil]
    /\ UNCHANGED <<params, producer, job, channel, output, expired>>

SendResult(w) ==
    /\ pc[w] = "sending"
    /\ Len(results) < capacity
    /\ results' = Append(results, [job |-> job[w], ok |-> ok[w]])
    /\ pc' = [pc EXCEPT ![w] = "receiving"]
    /\ job' = [job EXCEPT ![w] = 0]
    /\ ok' = [ok EXCEPT ![w] = FALSE]
    /\ UNCHANGED <<params, producer, resultsClosed, output, expired>>

WorkerExitOnDeadline(w) ==
    /\ pc[w] = "receiving"
    /\ jobsClosed \/ expired
    /\ pc' = [pc EXCEPT ![w] = "done"]
    /\ UNCHANGED <<params, producer, job, ok, channel, output, expired>>

\* range jobs ends when the channel is closed: wg.Done.
WorkerExit(w) ==
    /\ pc[w] = "receiving"
    /\ jobsClosed
    /\ pc' = [pc EXCEPT ![w] = "done"]
    /\ UNCHANGED <<params, producer, job, ok, channel, output, expired>>

-----------------------------------------------------------------------------
(* The closer goroutine.                                                    *)

CloseResultsEarly ==
    /\ ~resultsClosed
    /\ jobsClosed
    /\ resultsClosed' = TRUE
    /\ UNCHANGED <<params, producer, workers, results, output, expired>>

CloseResults ==
    /\ ~resultsClosed
    /\ \A w \in Worker : pc[w] = "done"
    /\ resultsClosed' = TRUE
    /\ UNCHANGED <<params, producer, workers, results, output, expired>>

-----------------------------------------------------------------------------
(* The consumer: the goroutine that called the pool function.               *)

ConsumeDroppingErrors ==
    /\ ~returned
    /\ results # <<>>
    /\ results' = Tail(results)
    /\ records' = IF Head(results).ok
                  THEN Append(records, Head(results).job) ELSE records
    /\ UNCHANGED <<params, producer, workers, resultsClosed,
                   failures, returned, expired>>

ConsumeWithoutContinue ==
    /\ ~returned
    /\ results # <<>>
    /\ results' = Tail(results)
    /\ records' = Append(records, Head(results).job)
    /\ failures' = IF Head(results).ok
                   THEN failures ELSE Append(failures, Head(results).job)
    /\ UNCHANGED <<params, producer, workers, resultsClosed, returned, expired>>

Consume ==
    /\ ~returned
    /\ results # <<>>
    /\ results' = Tail(results)
    /\ \/ /\ Head(results).ok
          /\ records' = Append(records, Head(results).job)
          /\ UNCHANGED failures
       \/ /\ ~Head(results).ok
          /\ failures' = Append(failures, Head(results).job)
          /\ UNCHANGED records
    /\ UNCHANGED <<params, producer, workers, resultsClosed, returned, expired>>

ReturnOnDeadline ==
    /\ ~returned
    /\ results = <<>>
    /\ resultsClosed \/ expired
    /\ returned' = TRUE
    /\ UNCHANGED <<params, producer, workers, channel, records, failures, expired>>

\* range results ends: the channel is closed and empty.
Return ==
    /\ ~returned
    /\ results = <<>>
    /\ resultsClosed
    /\ returned' = TRUE
    /\ UNCHANGED <<params, producer, workers, channel, records, failures, expired>>

-----------------------------------------------------------------------------
\* The deadline of context.WithTimeout passes.
Expire ==
    /\ ~expired
    /\ ~returned
    /\ expired' = TRUE
    /\ UNCHANGED <<params, producer, workers, channel, output>>

Produce == \/ \E w \in Worker : Dispatch(w)
           \/ ProducerStop
           \/ ProducerFinish

Work(w) == CallReturns(w) \/ SendResult(w) \/ WorkerExit(w)

Next == \/ Produce
        \/ \E w \in Worker : Work(w)
        \/ CloseResults
        \/ Consume
        \/ Return
        \/ Expire

Spec == Init /\ [][Next]_vars

\* Every goroutine that can run does run, and every call of the API returns:
\* at the latest the context ends it. The deadline itself need not pass.
FairSpec == /\ Spec
            /\ WF_vars(Produce)
            /\ \A w \in Worker : WF_vars(Work(w))
            /\ WF_vars(CloseResults)
            /\ WF_vars(Consume)
            /\ WF_vars(Return)

-----------------------------------------------------------------------------
TypeOK ==
    /\ count \in 0..MaxJobs
    /\ capacity \in {count, Lesser(count, Workers)}
    /\ next \in 1..(count + 1)
    /\ jobsClosed \in BOOLEAN
    /\ pc \in [Worker -> {"receiving", "calling", "sending", "done"}]
    /\ job \in [Worker -> 0..count]
    /\ ok \in [Worker -> BOOLEAN]
    /\ results \in Seq(Result)
    /\ Len(results) <= capacity
    /\ resultsClosed \in BOOLEAN
    /\ records \in Seq(1..count)
    /\ failures \in Seq(1..count)
    /\ returned \in BOOLEAN
    /\ expired \in BOOLEAN

\* Where a job can be once the producer has handed it out.
InFlight == {job[w] : w \in Busy}
Buffered == {results[i].job : i \in DOMAIN results}
Settled  == Range(records) \cup Range(failures)

\* Every job handed out is at exactly one place: with a worker, in the results
\* channel, or answered; no job is fetched, buffered or reported twice, and a
\* job still with the producer is nowhere (collector.go:206-226 and its twins).
AccountedOnce ==
    /\ InFlight \cup Buffered \cup Settled = 1..(next - 1)
    /\ InFlight \cap Buffered = {}
    /\ (InFlight \cup Buffered) \cap Settled = {}
    /\ Range(records) \cap Range(failures) = {}
    /\ \A v, w \in Busy : job[v] = job[w] => v = w
    /\ \A h, i \in DOMAIN results : results[h].job = results[i].job => h = i
    /\ IsInjective(records) /\ IsInjective(failures)

\* When the pool returns, every job it handed out has its record or its error;
\* what the deadline cuts off is a tail of the list, and without the deadline
\* nothing is cut off (collector.go:213-217, 330-339, 408-417).
OnlyTailLost ==
    returned => /\ Settled = 1..(next - 1)
                /\ expired \/ Settled = 1..count

\* results is closed only after the last send: no worker can send on a closed
\* channel (collector.go:221-224).
NoSendOnClosedChannel ==
    resultsClosed => \A w \in Worker : pc[w] = "done"

\* A pool that has returned leaves nothing behind: no worker, no buffered
\* result, and, unless the list was empty, no producer.
NoGoroutineLeft ==
    returned => /\ \A w \in Worker : pc[w] = "done"
                /\ resultsClosed /\ results = <<>>
                /\ count > 0 => jobsClosed

\* The pool keeps the promise of JobSettlement.
Settlement == INSTANCE JobSettlement WITH
                  jobs <- 1..count,
                  retrieved <- Range(records),
                  failed <- Range(failures)

\* Every step of the pool is a step of JobSettlement or leaves its state alone.
ImplementsSettlement == Settlement!Spec

\* The pool function returns, whatever the calls answer and whether or not the
\* deadline passes: no send or receive blocks for ever (collector.go:199-226).
Terminates == <>returned
=============================================================================
