-------------------------- MODULE WorkerPoolProofs --------------------------
(***************************************************************************)
(* Proofs about WorkerPool, for every number of workers that                *)
(* config.Validate accepts, every length of the list of jobs, and both      *)
(* capacities of the results channel.                                       *)
(***************************************************************************)
EXTENDS WorkerPool, FiniteSetTheorems, TLAPS

USE DEF Worker

-----------------------------------------------------------------------------
(* Sequences.                                                               *)

\* Appending adds exactly the new element to the set of the elements.
LEMMA RangeAppend ==
    ASSUME NEW S, NEW s \in Seq(S), NEW x \in S
    PROVE  Range(Append(s, x)) = Range(s) \cup {x}
<1>1. /\ DOMAIN s = 1..Len(s)
      /\ DOMAIN Append(s, x) = 1..(Len(s) + 1)
      /\ Len(s) \in Nat
  OBVIOUS
<1>2. \A i \in 1..Len(s) : Append(s, x)[i] = s[i]
  OBVIOUS
<1>3. Append(s, x)[Len(s) + 1] = x
  OBVIOUS
<1>4. \A i \in 1..(Len(s) + 1) : i \in 1..Len(s) \/ i = Len(s) + 1
  BY <1>1
<1>5. 1..Len(s) \subseteq 1..(Len(s) + 1) /\ Len(s) + 1 \in 1..(Len(s) + 1)
  BY <1>1
<1>6. QED  BY <1>1, <1>2, <1>3, <1>4, <1>5, Zenon DEF Range

\* A sequence without repetition stays so when a new element is appended.
LEMMA InjectiveAppend ==
    ASSUME NEW S, NEW s \in Seq(S), NEW x \in S,
           IsInjective(s), x \notin Range(s)
    PROVE  IsInjective(Append(s, x))
<1>1. \A a, b \in DOMAIN s : s[a] = s[b] => a = b
  BY DEF IsInjective
<1>2. \A a \in DOMAIN s : s[a] # x
  BY DEF Range
<1>3. \A a, b \in DOMAIN Append(s, x) :
          Append(s, x)[a] = Append(s, x)[b] => a = b
  BY <1>1, <1>2
<1>4. QED  BY <1>3 DEF IsInjective

-----------------------------------------------------------------------------
(* The inductive invariant. AccountedOnce alone says nothing of who may      *)
(* still move; what is missing is the order in which the goroutines end.     *)

\* A worker that has taken a job holds it.
BusyHaveJobs == \A w \in Busy : job[w] \in 1..count

\* The producer ends first, then the workers, then the closer, then the caller.
ShutdownOrder ==
    /\ jobsClosed => expired \/ next = count + 1
    /\ \A w \in Worker : pc[w] = "done" => jobsClosed \/ w > Started
    /\ NoSendOnClosedChannel
    /\ returned => resultsClosed /\ results = <<>>

IInv == TypeOK /\ BusyHaveJobs /\ AccountedOnce /\ ShutdownOrder

-----------------------------------------------------------------------------
(* The initial states.                                                      *)

LEMMA Sizes == TypeOK => count \in Nat /\ capacity \in Nat /\ next \in Nat
<1>1. Workers \in Nat /\ MaxJobs \in Nat
  BY WorkersAssumption, MaxJobsAssumption
<1>2. QED  BY <1>1 DEF TypeOK, Lesser

LEMMA InitTyped == Init => TypeOK
<1> SUFFICES ASSUME Init PROVE TypeOK
  OBVIOUS
<1>1. count \in 0..MaxJobs /\ count \in Nat /\ Workers \in Nat
  BY WorkersAssumption, MaxJobsAssumption DEF Init
<1>2. capacity \in Nat /\ capacity \in {count, Lesser(count, Workers)}
  BY <1>1 DEF Init, Lesser
<1>3. next \in 1..(count + 1)
  BY <1>1 DEF Init
<1>4. pc \in [Worker -> {"receiving", "calling", "sending", "done"}]
  BY DEF Init
<1>5. job \in [Worker -> 0..count] /\ ok \in [Worker -> BOOLEAN]
  BY <1>1 DEF Init
<1>6. results \in Seq(Result) /\ Len(results) <= capacity
  BY <1>2 DEF Init
<1>7. records \in Seq(1..count) /\ failures \in Seq(1..count)
  BY DEF Init
<1>8. QED  BY <1>1, <1>2, <1>3, <1>4, <1>5, <1>6, <1>7 DEF Init, TypeOK

LEMMA InitInvariant == Init => IInv
<1> SUFFICES ASSUME Init PROVE IInv
  OBVIOUS
<1>1. TypeOK
  BY InitTyped
<1>2. Busy = {} /\ results = <<>> /\ records = <<>> /\ failures = <<>> /\ next = 1
  BY DEF Init, Busy
<1>3. BusyHaveJobs
  BY <1>2 DEF BusyHaveJobs
<1>4. AccountedOnce
  <2>1. InFlight = {} /\ Buffered = {} /\ Settled = {}
    BY <1>2 DEF InFlight, Buffered, Settled, Range
  <2>2. IsInjective(records) /\ IsInjective(failures)
    BY <1>2 DEF IsInjective
  <2>3. QED  BY <1>2, <2>1, <2>2 DEF AccountedOnce, Settled
<1>5. ShutdownOrder
  <2>1. \A w \in Worker : pc[w] = "done" => w > Started
    BY WorkersAssumption, MaxJobsAssumption DEF Init, Started, Lesser
  <2>2. QED  BY <2>1 DEF Init, ShutdownOrder, NoSendOnClosedChannel
<1>6. QED  BY <1>1, <1>3, <1>4, <1>5 DEF IInv

-----------------------------------------------------------------------------
(* Type correctness is preserved.                                           *)

LEMMA StepTyped == IInv /\ [Next]_vars => TypeOK' /\ BusyHaveJobs'
<1> SUFFICES ASSUME TypeOK, BusyHaveJobs, [Next]_vars
             PROVE  TypeOK' /\ BusyHaveJobs'
  BY DEF IInv
<1> USE DEF TypeOK, BusyHaveJobs, Busy, params, producer, workers, channel, output
<1>0. count \in Nat /\ capacity \in Nat /\ next \in Nat
  BY Sizes
<1>1. ASSUME NEW w \in Worker, Dispatch(w) PROVE TypeOK' /\ BusyHaveJobs'
  <2>1. next \in 1..count /\ next' \in 1..(count + 1)
    BY <1>0, <1>1 DEF Dispatch
  <2>2. job' \in [Worker -> 0..count]
    BY <2>1, <1>0, <1>1 DEF Dispatch
  <2>3. pc' \in [Worker -> {"receiving", "calling", "sending", "done"}]
    BY <1>1 DEF Dispatch
  <2>4. BusyHaveJobs'
    BY <1>1, <2>1 DEF Dispatch
  <2>5. QED  BY <1>1, <2>1, <2>2, <2>3, <2>4 DEF Dispatch, Result, Lesser
<1>2. CASE ProducerStop
  BY <1>2 DEF ProducerStop, Result, Lesser
<1>3. CASE ProducerFinish
  BY <1>3 DEF ProducerFinish, Result, Lesser
<1>4. ASSUME NEW w \in Worker, CallReturns(w) PROVE TypeOK' /\ BusyHaveJobs'
  BY <1>4 DEF CallReturns, Result, Lesser
<1>5. ASSUME NEW w \in Worker, SendResult(w) PROVE TypeOK' /\ BusyHaveJobs'
  <2>1. [job |-> job[w], ok |-> ok[w]] \in Result
    BY <1>5, <1>0 DEF Result, SendResult
  <2>2. results' \in Seq(Result) /\ Len(results') = Len(results) + 1
    BY <2>1, <1>5 DEF SendResult
  <2>3. Len(results') <= capacity
    BY <2>2, <1>5, <1>0 DEF SendResult
  <2>4. pc' \in [Worker -> {"receiving", "calling", "sending", "done"}]
    BY <1>5 DEF SendResult
  <2>5. job' \in [Worker -> 0..count] /\ ok' \in [Worker -> BOOLEAN]
    BY <1>5, <1>0 DEF SendResult
  <2>6. BusyHaveJobs'
    BY <1>5 DEF SendResult
  <2>7. QED  BY <1>5, <2>2, <2>3, <2>4, <2>5, <2>6 DEF SendResult, Result, Lesser
<1>6. ASSUME NEW w \in Worker, WorkerExit(w) PROVE TypeOK' /\ BusyHaveJobs'
  BY <1>6 DEF WorkerExit, Result, Lesser
<1>7. CASE CloseResults
  BY <1>7 DEF CloseResults, Result, Lesser
<1>8. CASE Consume
  <2>1. Head(results) \in Result /\ Tail(results) \in Seq(Result)
    BY <1>8 DEF Consume
  <2>2. Head(results).job \in 1..count
    BY <2>1 DEF Result
  <2>3. Len(results') <= capacity
    BY <1>0, <1>8 DEF Consume
  <2>4. records' \in Seq(1..count) /\ failures' \in Seq(1..count)
    <3>1. \A s \in Seq(1..count) : Append(s, Head(results).job) \in Seq(1..count)
      BY <2>2
    <3>2. records' \in {records, Append(records, Head(results).job)}
      BY <1>8 DEF Consume
    <3>3. failures' \in {failures, Append(failures, Head(results).job)}
      BY <1>8 DEF Consume
    <3>4. QED  BY <3>1, <3>2, <3>3
  <2>5. QED  BY <1>8, <2>1, <2>3, <2>4 DEF Consume, Result, Lesser
<1>9. CASE Return
  BY <1>9 DEF Return, Result, Lesser
<1>10. CASE Expire
  BY <1>10 DEF Expire, Result, Lesser
<1>11. CASE UNCHANGED vars
  BY <1>11 DEF vars, Result, Lesser
<1>12. QED  BY <1>1, <1>2, <1>3, <1>4, <1>5, <1>6, <1>7, <1>8, <1>9, <1>10, <1>11
            DEF Next, Produce, Work

-----------------------------------------------------------------------------
(* Every job stays accounted for.                                           *)

LEMMA StepAccounted == IInv /\ [Next]_vars => AccountedOnce'
<1> SUFFICES ASSUME IInv, [Next]_vars PROVE AccountedOnce'
  OBVIOUS
<1> USE DEF params, producer, workers, channel, output
<1>0. /\ TypeOK /\ BusyHaveJobs /\ AccountedOnce
      /\ count \in Nat /\ capacity \in Nat /\ next \in Nat
  BY Sizes DEF IInv
<1>1. ASSUME NEW w \in Worker, Dispatch(w) PROVE AccountedOnce'
  <2>1. Busy' = Busy \cup {w} /\ w \notin Busy
    BY <1>0, <1>1 DEF Dispatch, Busy, TypeOK
  <2>2. job'[w] = next /\ \A v \in Busy : job'[v] = job[v]
    BY <1>0, <1>1, <2>1 DEF Dispatch, Busy, TypeOK
  <2>3. InFlight' = InFlight \cup {next}
    BY <2>1, <2>2 DEF InFlight
  <2>4. Buffered' = Buffered /\ Settled' = Settled
    BY <1>1 DEF Dispatch, Buffered, Settled
  <2>5. next \notin InFlight \cup Buffered \cup Settled
    BY <1>0 DEF AccountedOnce
  <2>6. 1..(next' - 1) = (1..(next - 1)) \cup {next}
    BY <1>0, <1>1 DEF Dispatch, TypeOK
  <2>7. \A v \in Busy : job[v] # next
    BY <2>5 DEF InFlight
  <2>8. \A u, v \in Busy' : job'[u] = job'[v] => u = v
    BY <1>0, <2>1, <2>2, <2>7 DEF AccountedOnce
  <2>9. QED  BY <1>0, <1>1, <2>3, <2>4, <2>5, <2>6, <2>8 DEF AccountedOnce, Dispatch
<1>2. CASE ProducerStop
  BY <1>0, <1>2 DEF ProducerStop, AccountedOnce, InFlight, Buffered, Settled, Busy
<1>3. CASE ProducerFinish
  BY <1>0, <1>3 DEF ProducerFinish, AccountedOnce, InFlight, Buffered, Settled, Busy
<1>4. ASSUME NEW w \in Worker, CallReturns(w) PROVE AccountedOnce'
  <2>1. Busy' = Busy
    BY <1>0, <1>4 DEF CallReturns, Busy, TypeOK
  <2>2. InFlight' = InFlight /\ Buffered' = Buffered /\ Settled' = Settled
    BY <1>4, <2>1 DEF CallReturns, InFlight, Buffered, Settled
  <2>3. QED  BY <1>0, <1>4, <2>1, <2>2 DEF AccountedOnce, CallReturns
<1>5. ASSUME NEW w \in Worker, SendResult(w) PROVE AccountedOnce'
  <2> DEFINE item == [job |-> job[w], ok |-> ok[w]]
  <2>1. w \in Busy /\ Busy' = Busy \ {w}
    BY <1>0, <1>5 DEF SendResult, Busy, TypeOK
  <2>2. \A v \in Busy' : job'[v] = job[v]
    BY <1>0, <1>5, <2>1 DEF SendResult, TypeOK
  <2>3. InFlight = InFlight' \cup {job[w]} /\ job[w] \notin InFlight'
    BY <1>0, <2>1, <2>2 DEF InFlight, AccountedOnce
  <2>4. /\ DOMAIN results = 1..Len(results) /\ Len(results) \in Nat
        /\ DOMAIN results' = 1..(Len(results) + 1)
        /\ \A i \in 1..Len(results) : results'[i] = results[i]
        /\ results'[Len(results) + 1] = item
    <3>1. item \in Result
      BY <1>0, <2>1 DEF BusyHaveJobs, TypeOK, Result, Busy
    <3>2. results \in Seq(Result) /\ results' = Append(results, item)
      BY <1>0, <1>5 DEF SendResult, TypeOK
    <3> HIDE DEF item
    <3>3. QED  BY <3>1, <3>2
  <2>5. Buffered' = Buffered \cup {job[w]}
    <3>1. \A i \in 1..(Len(results) + 1) : i \in 1..Len(results) \/ i = Len(results) + 1
      BY <2>4
    <3>2. 1..Len(results) \subseteq 1..(Len(results) + 1)
          /\ Len(results) + 1 \in 1..(Len(results) + 1)
      BY <2>4
    <3>3. QED  BY <2>4, <3>1, <3>2 DEF Buffered
  <2>6. job[w] \in InFlight /\ job[w] \notin Buffered
    BY <1>0, <2>1 DEF InFlight, AccountedOnce
  <2>7. \A h, i \in DOMAIN results' : results'[h].job = results'[i].job => h = i
    <3>1. \A i \in 1..Len(results) : results[i].job # job[w]
      BY <2>4, <2>6 DEF Buffered
    <3>2. \A h, i \in 1..Len(results) : results[h].job = results[i].job => h = i
      BY <1>0, <2>4 DEF AccountedOnce
    <3>3. \A i \in 1..(Len(results) + 1) : i \in 1..Len(results) \/ i = Len(results) + 1
      BY <2>4
    <3>4. QED  BY <2>4, <3>1, <3>2, <3>3
  <2>8. Settled' = Settled /\ records' = records /\ failures' = failures /\ next' = next
    BY <1>5 DEF SendResult, Settled
  <2>9. \A u, v \in Busy' : job'[u] = job'[v] => u = v
    BY <1>0, <2>1, <2>2 DEF AccountedOnce
  <2>10. QED  BY <1>0, <2>3, <2>5, <2>6, <2>7, <2>8, <2>9 DEF AccountedOnce
<1>6. ASSUME NEW w \in Worker, WorkerExit(w) PROVE AccountedOnce'
  <2>1. Busy' = Busy
    BY <1>0, <1>6 DEF WorkerExit, Busy, TypeOK
  <2>2. InFlight' = InFlight /\ Buffered' = Buffered /\ Settled' = Settled
    BY <1>6, <2>1 DEF WorkerExit, InFlight, Buffered, Settled
  <2>3. QED  BY <1>0, <1>6, <2>1, <2>2 DEF AccountedOnce, WorkerExit
<1>7. CASE CloseResults
  BY <1>0, <1>7 DEF CloseResults, AccountedOnce, InFlight, Buffered, Settled, Busy
<1>8. CASE Consume
  <2> DEFINE j == Head(results).job
  <2>1. /\ results # <<>> /\ results \in Seq(Result)
        /\ results' = Tail(results)
    BY <1>0, <1>8 DEF Consume, TypeOK
  <2>2. /\ DOMAIN results = 1..Len(results) /\ Len(results) \in Nat \ {0}
        /\ DOMAIN results' = 1..(Len(results) - 1)
        /\ \A i \in 1..(Len(results) - 1) : results'[i] = results[i + 1]
        /\ Head(results) = results[1]
    BY <2>1
  <2>3. \A h, i \in DOMAIN results : results[h].job = results[i].job => h = i
    BY <1>0 DEF AccountedOnce
  <2>4. \A i \in 1..(Len(results) - 1) : i + 1 \in 1..Len(results) /\ i + 1 # 1
    BY <2>2
  <2>5. \A i \in 1..Len(results) :
           i = 1 \/ (i - 1 \in 1..(Len(results) - 1) /\ (i - 1) + 1 = i)
    BY <2>2
  <2>6. 1 \in 1..Len(results)
    BY <2>2
  <2>7. Buffered = Buffered' \cup {j}
    <3>1. \A i \in 1..(Len(results) - 1) : results'[i].job \in Buffered
      BY <2>2, <2>4 DEF Buffered
    <3>2. j \in Buffered
      BY <2>2, <2>6 DEF Buffered
    <3>3. \A i \in 1..Len(results) : results[i].job = j \/ results[i].job \in Buffered'
      <4>1. TAKE i \in 1..Len(results)
      <4>2. CASE i = 1
        BY <4>2, <2>2
      <4>3. CASE i # 1
        <5>1. results'[i - 1] = results[i]
          BY <4>3, <2>2, <2>5
        <5>2. QED  BY <5>1, <4>3, <2>2, <2>5 DEF Buffered
      <4>4. QED  BY <4>2, <4>3
    <3>4. Buffered = {results[i].job : i \in 1..Len(results)}
      BY <2>2 DEF Buffered
    <3>5. Buffered' = {results'[i].job : i \in 1..(Len(results) - 1)}
      BY <2>2 DEF Buffered
    <3>6. QED  BY <3>1, <3>2, <3>3, <3>4, <3>5
  <2>8. j \notin Buffered'
    <3>1. \A i \in 1..(Len(results) - 1) : results'[i].job # j
      BY <2>2, <2>3, <2>4, <2>6
    <3>2. QED  BY <3>1, <2>2 DEF Buffered
  <2>9. \A h, i \in DOMAIN results' : results'[h].job = results'[i].job => h = i
    <3>1. SUFFICES ASSUME NEW h \in 1..(Len(results) - 1),
                          NEW i \in 1..(Len(results) - 1),
                          results'[h].job = results'[i].job
                   PROVE  h = i
      BY <2>2
    <3>2. results[h + 1].job = results[i + 1].job
      BY <2>2, <3>1
    <3>3. h + 1 = i + 1
      BY <2>2, <2>3, <2>4, <3>2
    <3>4. QED  BY <3>3
  <2>10. InFlight' = InFlight /\ Busy' = Busy /\ job' = job /\ next' = next
    BY <1>8 DEF Consume, InFlight, Busy
  <2>11. j \notin Settled /\ j \notin InFlight /\ j \in 1..count
    <3>1. j \in Buffered
      BY <2>7
    <3>2. results[1] \in Result
      BY <2>1, <2>2, <2>6
    <3>3. QED  BY <1>0, <2>2, <3>1, <3>2 DEF AccountedOnce, Result
  <2>12. /\ Settled' = Settled \cup {j}
         /\ Range(records)' \cap Range(failures)' = {}
         /\ IsInjective(records)' /\ IsInjective(failures)'
    <3>0. /\ records \in Seq(1..count) /\ failures \in Seq(1..count)
          /\ IsInjective(records) /\ IsInjective(failures)
          /\ Range(records) \cap Range(failures) = {}
          /\ j \notin Range(records) /\ j \notin Range(failures)
      BY <1>0, <2>11 DEF TypeOK, AccountedOnce, Settled
    <3>1. CASE records' = Append(records, j) /\ failures' = failures
      <4>1. Range(records') = Range(records) \cup {j} /\ IsInjective(records')
        BY <3>0, <3>1, <2>11, RangeAppend, InjectiveAppend
      <4>2. QED  BY <4>1, <3>0, <3>1 DEF Settled
    <3>2. CASE failures' = Append(failures, j) /\ records' = records
      <4>1. Range(failures') = Range(failures) \cup {j} /\ IsInjective(failures')
        BY <3>0, <3>2, <2>11, RangeAppend, InjectiveAppend
      <4>2. QED  BY <4>1, <3>0, <3>2 DEF Settled
    <3>3. QED  BY <1>8, <3>1, <3>2 DEF Consume
  <2>13. QED
    <3> HIDE DEF j
    <3>1. QED  BY <1>0, <2>7, <2>8, <2>9, <2>10, <2>11, <2>12 DEF AccountedOnce
<1>9. CASE Return
  BY <1>0, <1>9 DEF Return, AccountedOnce, InFlight, Buffered, Settled, Busy
<1>10. CASE Expire
  BY <1>0, <1>10 DEF Expire, AccountedOnce, InFlight, Buffered, Settled, Busy
<1>11. CASE UNCHANGED vars
  BY <1>0, <1>11 DEF vars, AccountedOnce, InFlight, Buffered, Settled, Busy
<1>12. QED  BY <1>1, <1>2, <1>3, <1>4, <1>5, <1>6, <1>7, <1>8, <1>9, <1>10, <1>11
            DEF Next, Produce, Work

-----------------------------------------------------------------------------
(* The goroutines end in their order.                                       *)

LEMMA StepShutdown == IInv /\ [Next]_vars => ShutdownOrder'
<1> SUFFICES ASSUME IInv, [Next]_vars PROVE ShutdownOrder'
  OBVIOUS
<1> USE DEF params, producer, workers, channel, output,
            ShutdownOrder, NoSendOnClosedChannel, Started, Lesser
<1>0. /\ TypeOK /\ ShutdownOrder
      /\ count \in Nat /\ next \in Nat /\ Workers \in Nat
  BY Sizes, WorkersAssumption DEF IInv
<1>1. ASSUME NEW w \in Worker, Dispatch(w) PROVE ShutdownOrder'
  BY <1>0, <1>1 DEF Dispatch, TypeOK
<1>2. CASE ProducerStop
  BY <1>0, <1>2 DEF ProducerStop
<1>3. CASE ProducerFinish
  BY <1>0, <1>3 DEF ProducerFinish
<1>4. ASSUME NEW w \in Worker, CallReturns(w) PROVE ShutdownOrder'
  BY <1>0, <1>4 DEF CallReturns, TypeOK
<1>5. ASSUME NEW w \in Worker, SendResult(w) PROVE ShutdownOrder'
  <2>1. ~resultsClosed /\ ~returned
    BY <1>0, <1>5 DEF SendResult
  <2>2. QED  BY <1>0, <1>5, <2>1 DEF SendResult, TypeOK
<1>6. ASSUME NEW w \in Worker, WorkerExit(w) PROVE ShutdownOrder'
  BY <1>0, <1>6 DEF WorkerExit, TypeOK
<1>7. CASE CloseResults
  BY <1>0, <1>7 DEF CloseResults
<1>8. CASE Consume
  BY <1>0, <1>8 DEF Consume
<1>9. CASE Return
  BY <1>0, <1>9 DEF Return
<1>10. CASE Expire
  BY <1>0, <1>10 DEF Expire
<1>11. CASE UNCHANGED vars
  BY <1>0, <1>11 DEF vars
<1>12. QED  BY <1>1, <1>2, <1>3, <1>4, <1>5, <1>6, <1>7, <1>8, <1>9, <1>10, <1>11
            DEF Next, Produce, Work

-----------------------------------------------------------------------------
(* What the invariant gives.                                                *)

LEMMA ReturnedAnswers == IInv => OnlyTailLost
<1> SUFFICES ASSUME IInv, returned PROVE OnlyTailLost
  BY DEF OnlyTailLost
<1>0. /\ TypeOK /\ AccountedOnce /\ ShutdownOrder
      /\ count \in Nat /\ next \in Nat /\ Workers \in Nat /\ Workers >= 1
  BY Sizes, WorkersAssumption DEF IInv
<1>1. results = <<>> /\ \A w \in Worker : pc[w] = "done"
  BY <1>0 DEF ShutdownOrder, NoSendOnClosedChannel
<1>2. InFlight = {} /\ Buffered = {}
  BY <1>1 DEF InFlight, Buffered, Busy
<1>3. Settled = 1..(next - 1)
  BY <1>0, <1>2 DEF AccountedOnce
<1>4. ASSUME ~expired PROVE next = count + 1
  <2>1. CASE count = 0
    BY <1>0, <2>1 DEF TypeOK
  <2>2. CASE count # 0
    <3>1. 1 \in Worker /\ ~(1 > Started)
      BY <1>0, <2>2 DEF Started, Lesser
    <3>2. jobsClosed
      BY <1>0, <1>1, <3>1 DEF ShutdownOrder
    <3>3. QED  BY <1>0, <1>4, <3>2 DEF ShutdownOrder
  <2>3. QED  BY <2>1, <2>2
<1>5. QED  BY <1>0, <1>3, <1>4 DEF OnlyTailLost

LEMMA NothingLeft == IInv => NoGoroutineLeft
<1> SUFFICES ASSUME IInv, returned PROVE NoGoroutineLeft
  BY DEF NoGoroutineLeft
<1>0. /\ ShutdownOrder /\ count \in Nat /\ Workers \in Nat /\ Workers >= 1
  BY Sizes, WorkersAssumption DEF IInv
<1>1. resultsClosed /\ results = <<>> /\ \A w \in Worker : pc[w] = "done"
  BY <1>0 DEF ShutdownOrder, NoSendOnClosedChannel
<1>2. ASSUME count > 0 PROVE jobsClosed
  <2>1. 1 \in Worker /\ ~(1 > Started)
    BY <1>0, <1>2 DEF Started, Lesser
  <2>2. QED  BY <1>0, <1>1, <2>1 DEF ShutdownOrder
<1>3. QED  BY <1>1, <1>2 DEF NoGoroutineLeft

LEMMA Invariant == Spec => []IInv
<1>1. Init => IInv
  BY InitInvariant
<1>2. IInv /\ [Next]_vars => IInv'
  BY StepTyped, StepAccounted, StepShutdown DEF IInv
<1>3. QED  BY <1>1, <1>2, PTL DEF Spec

\* The pool's state stays within its types: the position offered never runs
\* past the list and the buffer never past its capacity (collector.go:197-247).
THEOREM TypeCorrect == Spec => []TypeOK
<1>1. IInv => TypeOK
  BY DEF IInv
<1>2. QED  BY <1>1, Invariant, PTL

\* Every job handed out is in exactly one place until it is reported once, for
\* every number of workers and jobs (collector.go:206-226).
THEOREM JobsAccountedOnce == Spec => []AccountedOnce
<1>1. IInv => AccountedOnce
  BY DEF IInv
<1>2. QED  BY <1>1, Invariant, PTL

\* A returned pool has answered all it handed out, and without the deadline it
\* has handed out the whole list (collector.go:211-226).
THEOREM DeadlineLosesOnlyATail == Spec => []OnlyTailLost
<1>1. QED  BY ReturnedAnswers, Invariant, PTL

\* No worker sends on the closed results channel, which would panic
\* (collector.go:221-224).
THEOREM NoPanicOnSend == Spec => []NoSendOnClosedChannel
<1>1. IInv => NoSendOnClosedChannel
  BY DEF IInv, ShutdownOrder
<1>2. QED  BY <1>1, Invariant, PTL

\* No worker, producer or result outlives the call (collector.go:201-226).
THEOREM NothingOutlivesTheCall == Spec => []NoGoroutineLeft
<1>1. QED  BY NothingLeft, Invariant, PTL

-----------------------------------------------------------------------------
(* The pool implements JobSettlement.                                       *)

LEMMA StepSettles == IInv /\ [Next]_vars => [Settlement!Next]_(Settlement!vars)
<1> SUFFICES ASSUME IInv, [Next]_vars PROVE [Settlement!Next]_(Settlement!vars)
  OBVIOUS
<1> USE DEF params, producer, workers, channel, output, Settlement!vars
<1>0. /\ TypeOK /\ AccountedOnce /\ OnlyTailLost /\ ShutdownOrder
      /\ count \in Nat /\ next \in Nat
  BY Sizes, ReturnedAnswers DEF IInv
<1>1. ASSUME NEW w \in Worker, Dispatch(w) PROVE UNCHANGED Settlement!vars
  BY <1>1 DEF Dispatch
<1>2. CASE ProducerStop
  BY <1>2 DEF ProducerStop
<1>3. CASE ProducerFinish
  BY <1>3 DEF ProducerFinish
<1>4. ASSUME NEW w \in Worker, Work(w) PROVE UNCHANGED Settlement!vars
  BY <1>4 DEF Work, CallReturns, SendResult, WorkerExit
<1>5. CASE CloseResults
  BY <1>5 DEF CloseResults
<1>6. CASE Consume
  <2> DEFINE j == Head(results).job
  <2>1. results \in Seq(Result) /\ results # <<>>
    BY <1>0, <1>6 DEF TypeOK, Consume
  <2>2. j \in 1..count /\ j \in Buffered
    <3>1. Head(results) = results[1] /\ 1 \in DOMAIN results /\ Head(results) \in Result
      BY <2>1
    <3>2. QED  BY <3>1 DEF Buffered, Result
  <2>3. j \notin Settled
    BY <1>0, <2>2 DEF AccountedOnce
  <2>4. CASE records' = Append(records, j) /\ failures' = failures
    <3>1. Range(records') = Range(records) \cup {j}
      <4> DEFINE J == 1..count
      <4>1. records \in Seq(J)
        BY <1>0 DEF TypeOK
      <4>2. j \in J
        BY <2>2
      <4> HIDE DEF j, J
      <4>3. Range(Append(records, j)) = Range(records) \cup {j}
        BY <4>1, <4>2, RangeAppend
      <4>4. QED  BY <4>3, <2>4
    <3>2. Settlement!Record(j)
      BY <1>6, <2>2, <2>3, <2>4, <3>1
         DEF Consume, Settlement!Record, Settlement!settled, Settled
    <3>3. QED  BY <2>2, <3>2 DEF Settlement!Next, Settlement!Step
  <2>5. CASE failures' = Append(failures, j) /\ records' = records
    <3>1. Range(failures') = Range(failures) \cup {j}
      <4> DEFINE J == 1..count
      <4>1. failures \in Seq(J)
        BY <1>0 DEF TypeOK
      <4>2. j \in J
        BY <2>2
      <4> HIDE DEF j, J
      <4>3. Range(Append(failures, j)) = Range(failures) \cup {j}
        BY <4>1, <4>2, RangeAppend
      <4>4. QED  BY <4>3, <2>5
    <3>2. Settlement!Fail(j)
      BY <1>6, <2>2, <2>3, <2>5, <3>1
         DEF Consume, Settlement!Fail, Settlement!settled, Settled
    <3>3. QED  BY <2>2, <3>2 DEF Settlement!Next, Settlement!Step
  <2>6. QED  BY <1>6, <2>4, <2>5 DEF Consume
<1>7. CASE Return
  <2>1. IInv'
    BY StepTyped, StepAccounted, StepShutdown DEF IInv
  <2>2. OnlyTailLost'
    BY <2>1, ReturnedAnswers, PTL
  <2>3. expired \/ Settled = 1..count
    BY <1>7, <2>2 DEF OnlyTailLost, Return, Settled
  <2>4. Settlement!Return
    BY <1>7, <2>3 DEF Return, Settlement!Return, Settlement!settled, Settled
  <2>5. QED  BY <2>4 DEF Settlement!Next, Settlement!Step
<1>8. CASE Expire
  BY <1>8 DEF Expire, Settlement!Expire, Settlement!Next
<1>9. CASE UNCHANGED vars
  BY <1>9 DEF vars
<1>10. QED  BY <1>1, <1>2, <1>3, <1>4, <1>5, <1>6, <1>7, <1>8, <1>9
            DEF Next, Produce

\* The goroutines and channels of a pool keep the promise its caller relies on:
\* each job answered once, all of them unless the deadline passed, whatever the
\* interleaving (collector.go:184-249, 305-357, 382-436).
THEOREM PoolImplementsSettlement == Spec => ImplementsSettlement
<1>1. Init => Settlement!Init
  BY DEF Init, Settlement!Init, Range
<1>2. IInv /\ [Next]_vars => [Settlement!Next]_(Settlement!vars)
  BY StepSettles
<1>3. QED  BY <1>1, <1>2, Invariant, PTL DEF Spec, ImplementsSettlement, Settlement!Spec

-----------------------------------------------------------------------------
(* The pool comes to its end: there is always a step to take, and only so   *)
(* many steps. This is what Terminates adds to safety, but for the fairness *)
(* that makes the goroutines take their steps.                              *)

Live    == {w \in Worker : pc[w] # "done"}
Calling == {w \in Worker : pc[w] = "calling"}

Ahead(happened) == IF happened THEN 0 ELSE 1

\* What is left to do. A job has four steps before it: to be handed out, called,
\* sent and consumed.
Left == 4 * ((count + 1) - next)
            + (Cardinality(Live) + 2 * Cardinality(Busy) + Cardinality(Calling))
            + Len(results)
            + (Ahead(jobsClosed) + Ahead(resultsClosed) + Ahead(returned) + Ahead(expired))

\* A step of the pool itself, not of the deadline, has its guard satisfied.
ProducerCanStep == ~jobsClosed /\ (next = count + 1 \/ \E w \in Worker : pc[w] = "receiving")
WorkerCanStep(w) == \/ pc[w] = "calling"
                    \/ pc[w] = "sending" /\ Len(results) < capacity
                    \/ pc[w] = "receiving" /\ jobsClosed
CloserCanStep   == ~resultsClosed /\ \A w \in Worker : pc[w] = "done"
ConsumerCanStep == ~returned /\ (results # <<>> \/ resultsClosed)

CanStep == \/ ProducerCanStep
           \/ \E w \in Worker : WorkerCanStep(w)
           \/ CloserCanStep
           \/ ConsumerCanStep

LEMMA SomeoneCanStep == IInv => (~returned => CanStep)
<1> SUFFICES ASSUME IInv, ~returned, ~CanStep PROVE FALSE
  OBVIOUS
<1>1. count \in Nat /\ capacity \in Nat /\ next \in Nat
  BY Sizes DEF IInv
<1>2. results = <<>> /\ ~resultsClosed
  BY DEF CanStep, ConsumerCanStep
<1>3. PICK w \in Worker : pc[w] # "done"
  BY <1>2 DEF CanStep, CloserCanStep
<1>4. pc[w] \in {"receiving", "sending"}
  BY <1>3 DEF IInv, TypeOK, CanStep, WorkerCanStep
<1>5. CASE pc[w] = "receiving"
  BY <1>5 DEF IInv, TypeOK, CanStep, WorkerCanStep, ProducerCanStep
<1>6. CASE pc[w] = "sending"
  <2>1. job[w] \in 1..count
    BY <1>6 DEF IInv, BusyHaveJobs, Busy
  <2>2. capacity > 0
    BY <1>1, <2>1, WorkersAssumption DEF IInv, TypeOK, Lesser
  <2>3. Len(results) = 0
    BY <1>2
  <2>4. QED  BY <1>6, <2>2, <2>3 DEF CanStep, WorkerCanStep
<1>7. QED  BY <1>4, <1>5, <1>6

LEMMA WorkerSets ==
    \A S \in SUBSET Worker :
        /\ IsFiniteSet(S) /\ Cardinality(S) \in Nat
        /\ \A w \in Worker \ S : Cardinality(S \cup {w}) = Cardinality(S) + 1
        /\ \A w \in S : Cardinality(S \ {w}) = Cardinality(S) - 1
<1> SUFFICES ASSUME NEW S \in SUBSET Worker
             PROVE  /\ IsFiniteSet(S) /\ Cardinality(S) \in Nat
                    /\ \A w \in Worker \ S : Cardinality(S \cup {w}) = Cardinality(S) + 1
                    /\ \A w \in S : Cardinality(S \ {w}) = Cardinality(S) - 1
  OBVIOUS
<1>1. IsFiniteSet(Worker)
  BY WorkersAssumption, FS_Interval
<1>2. IsFiniteSet(S)
  BY <1>1, FS_Subset
<1>3. Cardinality(S) \in Nat
  BY <1>2, FS_CardinalityType
<1>4. \A w \in Worker \ S : Cardinality(S \cup {w}) = Cardinality(S) + 1
  BY <1>2, FS_AddElement
<1>5. \A w \in S : Cardinality(S \ {w}) = Cardinality(S) - 1
  BY <1>2, FS_RemoveElement
<1>6. QED  BY <1>2, <1>3, <1>4, <1>5

LEMMA LeftIsNatural == IInv => Left \in Nat
<1> SUFFICES ASSUME IInv PROVE Left \in Nat
  OBVIOUS
<1>1. (count + 1) - next \in Nat
  BY Sizes DEF IInv, TypeOK
<1>2. Live \in SUBSET Worker /\ Busy \in SUBSET Worker /\ Calling \in SUBSET Worker
  BY DEF Live, Busy, Calling
<1>3. /\ Cardinality(Live) \in Nat /\ Cardinality(Busy) \in Nat
      /\ Cardinality(Calling) \in Nat
  BY <1>2, WorkerSets
<1>4. Len(results) \in Nat
  BY DEF IInv, TypeOK
<1>5. \A b : Ahead(b) \in Nat
  BY DEF Ahead
<1>6. /\ Ahead(jobsClosed) \in Nat /\ Ahead(resultsClosed) \in Nat
      /\ Ahead(returned) \in Nat /\ Ahead(expired) \in Nat
  BY <1>5
<1>7. 4 * ((count + 1) - next) \in Nat
  BY <1>1
<1>8. Cardinality(Live) + 2 * Cardinality(Busy) + Cardinality(Calling) \in Nat
  BY <1>3
<1>9. Ahead(jobsClosed) + Ahead(resultsClosed) + Ahead(returned) + Ahead(expired) \in Nat
  BY <1>6
<1>10. \A a, b, c, d \in Nat : a + b + c + d \in Nat
  OBVIOUS
<1>11. QED  BY <1>4, <1>7, <1>8, <1>9, <1>10, Zenon DEF Left

LEMMA StepLeavesLess == IInv /\ [Next]_vars => [Left' < Left]_vars
<1> SUFFICES ASSUME IInv, Next PROVE Left' < Left
  BY DEF vars
<1> DEFINE jobsLeft  == (count + 1) - next
           live      == Cardinality(Live)
           busy      == Cardinality(Busy)
           calling   == Cardinality(Calling)
           waiting   == Len(results)
           flags     == Ahead(jobsClosed) + Ahead(resultsClosed) + Ahead(returned)
                            + Ahead(expired)
           inWorkers == live + 2 * busy + calling
<1>1. Live \in SUBSET Worker /\ Busy \in SUBSET Worker /\ Calling \in SUBSET Worker
  BY DEF Live, Busy, Calling
<1>2. live \in Nat /\ busy \in Nat /\ calling \in Nat
  BY <1>1, WorkerSets
<1>3. count \in Nat /\ next \in 1..(count + 1) /\ jobsLeft \in Nat
  BY Sizes DEF IInv, TypeOK
<1>4. count' = count
  BY DEF Next, Produce, Dispatch, ProducerStop, ProducerFinish, Work, CallReturns,
         SendResult, WorkerExit, CloseResults, Consume, Return, Expire, params
<1>5. waiting \in Nat
  BY DEF IInv, TypeOK
<1>6. flags \in Nat
  <2>1. \A b : Ahead(b) \in Nat
    BY DEF Ahead
  <2>2. /\ Ahead(jobsClosed) \in Nat /\ Ahead(resultsClosed) \in Nat
        /\ Ahead(returned) \in Nat /\ Ahead(expired) \in Nat
    BY <2>1
  <2>3. QED  BY <2>2
<1>7. inWorkers \in Nat
  BY <1>2
<1>8. /\ Left = 4 * jobsLeft + inWorkers + waiting + flags
      /\ Left' = 4 * jobsLeft' + inWorkers' + waiting' + flags'
  BY DEF Left
<1>9. \/ jobsLeft' = jobsLeft - 1 /\ inWorkers' = inWorkers + 3 /\ waiting' = waiting
                                  /\ flags' = flags
      \/ jobsLeft' = jobsLeft /\ inWorkers' = inWorkers - 1 /\ waiting' = waiting
                              /\ flags' = flags
      \/ jobsLeft' = jobsLeft /\ inWorkers' = inWorkers - 2 /\ waiting' = waiting + 1
                              /\ flags' = flags
      \/ jobsLeft' = jobsLeft /\ inWorkers' = inWorkers /\ waiting' = waiting - 1
                              /\ flags' = flags
      \/ jobsLeft' = jobsLeft /\ inWorkers' = inWorkers /\ waiting' = waiting
                              /\ flags' = flags - 1
  <2>1. ASSUME NEW w \in Worker, Dispatch(w)
        PROVE  /\ jobsLeft' = jobsLeft - 1 /\ inWorkers' = inWorkers + 3
               /\ waiting' = waiting /\ flags' = flags
    <3>1. pc[w] = "receiving" /\ pc' = [pc EXCEPT ![w] = "calling"]
      BY <2>1 DEF Dispatch
    <3>2. w \in Live /\ w \notin Busy /\ w \notin Calling
      BY <3>1 DEF Live, Busy, Calling
    <3>3. Live' = Live /\ Busy' = Busy \cup {w} /\ Calling' = Calling \cup {w}
      BY <3>1, <3>2 DEF IInv, TypeOK, Live, Busy, Calling
    <3>4. live' = live /\ busy' = busy + 1 /\ calling' = calling + 1
      <4>1. /\ Cardinality(Busy \cup {w}) = busy + 1
            /\ Cardinality(Calling \cup {w}) = calling + 1
        BY <1>1, <3>2, WorkerSets
      <4>2. QED  BY <3>3, <4>1, Zenon
    <3>5. next' = next + 1 /\ waiting' = waiting /\ flags' = flags
      BY <2>1 DEF Dispatch, channel, output, Ahead
    <3>6. jobsLeft' = jobsLeft - 1
      BY <1>3, <1>4, <3>5
    <3>7. QED  BY <1>2, <3>4, <3>5, <3>6
  <2>2. ASSUME NEW w \in Worker, CallReturns(w)
        PROVE  /\ jobsLeft' = jobsLeft /\ inWorkers' = inWorkers - 1
               /\ waiting' = waiting /\ flags' = flags
    <3>1. pc[w] = "calling" /\ pc' = [pc EXCEPT ![w] = "sending"]
      BY <2>2 DEF CallReturns
    <3>2. w \in Live /\ w \in Busy /\ w \in Calling
      BY <3>1 DEF Live, Busy, Calling
    <3>3. Live' = Live /\ Busy' = Busy /\ Calling' = Calling \ {w}
      BY <3>1, <3>2 DEF IInv, TypeOK, Live, Busy, Calling
    <3>4. live' = live /\ busy' = busy /\ calling' = calling - 1
      <4>1. Cardinality(Calling \ {w}) = calling - 1
        BY <1>1, <3>2, WorkerSets
      <4>2. QED  BY <3>3, <4>1, Zenon
    <3>5. jobsLeft' = jobsLeft /\ waiting' = waiting /\ flags' = flags
      BY <1>4, <2>2 DEF CallReturns, producer, channel, output, Ahead
    <3>6. QED  BY <1>2, <3>4, <3>5
  <2>3. ASSUME NEW w \in Worker, SendResult(w)
        PROVE  /\ jobsLeft' = jobsLeft /\ inWorkers' = inWorkers - 2
               /\ waiting' = waiting + 1 /\ flags' = flags
    <3>1. pc[w] = "sending" /\ pc' = [pc EXCEPT ![w] = "receiving"]
      BY <2>3 DEF SendResult
    <3>2. w \in Live /\ w \in Busy /\ w \notin Calling
      BY <3>1 DEF Live, Busy, Calling
    <3>3. Live' = Live /\ Busy' = Busy \ {w} /\ Calling' = Calling
      BY <3>1, <3>2 DEF IInv, TypeOK, Live, Busy, Calling
    <3>4. live' = live /\ busy' = busy - 1 /\ calling' = calling
      <4>1. Cardinality(Busy \ {w}) = busy - 1
        BY <1>1, <3>2, WorkerSets
      <4>2. QED  BY <3>3, <4>1, Zenon
    <3>5. jobsLeft' = jobsLeft /\ flags' = flags
      BY <1>4, <2>3 DEF SendResult, producer, output, Ahead
    <3>6. waiting' = waiting + 1
      BY <2>3 DEF SendResult, IInv, TypeOK
    <3>7. QED  BY <1>2, <3>4, <3>5, <3>6
  <2>4. ASSUME NEW w \in Worker, WorkerExit(w)
        PROVE  /\ jobsLeft' = jobsLeft /\ inWorkers' = inWorkers - 1
               /\ waiting' = waiting /\ flags' = flags
    <3>1. pc[w] = "receiving" /\ pc' = [pc EXCEPT ![w] = "done"]
      BY <2>4 DEF WorkerExit
    <3>2. w \in Live /\ w \notin Busy /\ w \notin Calling
      BY <3>1 DEF Live, Busy, Calling
    <3>3. Live' = Live \ {w} /\ Busy' = Busy /\ Calling' = Calling
      BY <3>1, <3>2 DEF IInv, TypeOK, Live, Busy, Calling
    <3>4. live' = live - 1 /\ busy' = busy /\ calling' = calling
      <4>1. Cardinality(Live \ {w}) = live - 1
        BY <1>1, <3>2, WorkerSets
      <4>2. QED  BY <3>3, <4>1, Zenon
    <3>5. jobsLeft' = jobsLeft /\ waiting' = waiting /\ flags' = flags
      BY <1>4, <2>4 DEF WorkerExit, producer, channel, output, Ahead
    <3>6. QED  BY <1>2, <3>4, <3>5
  <2>5. ASSUME pc' = pc
        PROVE  inWorkers' = inWorkers
    BY <2>5 DEF Live, Busy, Calling
  <2>6. ASSUME ProducerStop \/ ProducerFinish
        PROVE  /\ jobsLeft' = jobsLeft /\ inWorkers' = inWorkers
               /\ waiting' = waiting /\ flags' = flags - 1
    BY <1>4, <2>5, <2>6 DEF ProducerStop, ProducerFinish, workers, channel, output, Ahead
  <2>7. ASSUME CloseResults
        PROVE  /\ jobsLeft' = jobsLeft /\ inWorkers' = inWorkers
               /\ waiting' = waiting /\ flags' = flags - 1
    BY <1>4, <2>5, <2>7 DEF CloseResults, workers, producer, output, Ahead
  <2>8. ASSUME Consume
        PROVE  /\ jobsLeft' = jobsLeft /\ inWorkers' = inWorkers
               /\ waiting' = waiting - 1 /\ flags' = flags
    <3>1. /\ jobsLeft' = jobsLeft /\ flags' = flags /\ inWorkers' = inWorkers
      BY <1>4, <2>5, <2>8 DEF Consume, workers, producer, Ahead
    <3>2. waiting' = waiting - 1
      BY <2>8 DEF Consume, IInv, TypeOK
    <3>3. QED  BY <3>1, <3>2
  <2>9. ASSUME Return
        PROVE  /\ jobsLeft' = jobsLeft /\ inWorkers' = inWorkers
               /\ waiting' = waiting /\ flags' = flags - 1
    BY <1>4, <2>5, <2>9 DEF Return, workers, producer, channel, Ahead
  <2>10. ASSUME Expire
         PROVE  /\ jobsLeft' = jobsLeft /\ inWorkers' = inWorkers
                /\ waiting' = waiting /\ flags' = flags - 1
    BY <1>4, <2>5, <2>10 DEF Expire, workers, producer, channel, output, Ahead
  <2> HIDE DEF jobsLeft, inWorkers, waiting, flags
  <2>11. QED
    BY <2>1, <2>2, <2>3, <2>4, <2>6, <2>7, <2>8, <2>9, <2>10 DEF Next, Produce, Work
<1> HIDE DEF jobsLeft, inWorkers, waiting, flags
<1>10. 4 * jobsLeft' + inWorkers' + waiting' + flags' < 4 * jobsLeft + inWorkers + waiting + flags
  BY <1>3, <1>5, <1>6, <1>7, <1>9
<1>11. QED  BY <1>8, <1>10, Zenon

\* Until it returns, a pool of any size has a goroutine that can take a step without
\* the deadline: no worker, producer and caller wait on each other, whatever the
\* capacity of results (collector.go:199-226, 316-345, 394-423).
THEOREM NeverStuck == Spec => [](~returned => CanStep)
<1>1. QED  BY SomeoneCanStep, Invariant, PTL

\* Every step leaves less to do, so that a pool takes at most as many steps as it
\* starts with, linear in the jobs and the workers (collector.go:199-226).
THEOREM StepsRunOut == Spec => [](Left \in Nat) /\ [][Left' < Left]_vars
<1>1. QED  BY LeftIsNatural, StepLeavesLess, Invariant, PTL DEF Spec
=============================================================================
