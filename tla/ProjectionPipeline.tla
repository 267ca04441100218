-------------------------- MODULE ProjectionPipeline --------------------------
(***************************************************************************)
(* The bounded projection pipeline (src/src/sync/pipeline.rs:              *)
(* project_bounded): workers draw input numbers from an atomic counter,    *)
(* project them and send the results through a bounded channel to the one  *)
(* thread that writes the stage.  When writing fails, that thread drops    *)
(* the receiver and waits for the workers to notice.                       *)
(***************************************************************************)
EXTENDS Naturals, Sequences, FiniteSets

CONSTANTS
  N,            \* inputs.len()
  WorkerCount   \* the worker_count of the request

ASSUME PipelineAssumption == N \in Nat \ {0} /\ WorkerCount \in Nat

AtMost(m, n) == IF m <= n THEN m ELSE n

Pool     == AtMost(IF WorkerCount = 0 THEN 1 ELSE WorkerCount, N)
Workers  == 1..Pool
Capacity == 2 * Pool
Inputs   == 0..(N - 1)
Results  == [input : Inputs, ok : BOOLEAN]

VARIABLES
  next,     \* the shared counter
  at,       \* what each worker is doing
  holds,    \* the input a worker is at
  channel,  \* results on their way
  receiver, \* FALSE once the receiver is dropped
  stage,    \* inputs pushed to the stage, in order
  failures, \* inputs whose projection failed
  outcome   \* what project_bounded returned, "running" before

vars == <<next, at, holds, channel, receiver, stage, failures, outcome>>

Init ==
  /\ next = 0
  /\ at = [w \in Workers |-> "idle"]
  /\ holds = [w \in Workers |-> 0]
  /\ channel = <<>>
  /\ receiver = TRUE
  /\ stage = <<>> /\ failures = {}
  /\ outcome = "running"

-----------------------------------------------------------------------------
(* Mutant: the counter is read and written in two steps.                   *)
TakeRacy(w) ==
  \E i \in {next} \union (IF next > 0 THEN {next - 1} ELSE {}) :
    /\ at[w] = "idle"
    /\ next' = i + 1
    /\ at' = [at EXCEPT ![w] = IF i < N THEN "projecting" ELSE "done"]
    /\ holds' = [holds EXCEPT ![w] = IF i < N THEN i ELSE @]
    /\ UNCHANGED <<channel, receiver, stage, failures, outcome>>

(* fetch_add; a worker that draws past the end leaves.                     *)
Take(w) ==
  /\ at[w] = "idle"
  /\ next' = next + 1
  /\ at' = [at EXCEPT ![w] = IF next < N THEN "projecting" ELSE "done"]
  /\ holds' = [holds EXCEPT ![w] = IF next < N THEN next ELSE @]
  /\ UNCHANGED <<channel, receiver, stage, failures, outcome>>

(* project_one returned, failed or panicked: every way ends in a result.   *)
Project(w) ==
  \E result \in {"sendOk", "sendError"} :
    /\ at[w] = "projecting"
    /\ at' = [at EXCEPT ![w] = result]
    /\ UNCHANGED <<next, holds, channel, receiver, stage, failures, outcome>>

Sending(w) == at[w] \in {"sendOk", "sendError"}

(* Mutant: an unbounded channel.                                           *)
SendUnbounded(w) ==
  /\ Sending(w)
  /\ receiver
  /\ channel' = Append(channel, [input |-> holds[w], ok |-> at[w] = "sendOk"])
  /\ at' = [at EXCEPT ![w] = "idle"]
  /\ UNCHANGED <<next, holds, receiver, stage, failures, outcome>>

(* Blocks while the channel is full.                                       *)
Send(w) ==
  /\ Sending(w)
  /\ receiver
  /\ Len(channel) < Capacity
  /\ channel' = Append(channel, [input |-> holds[w], ok |-> at[w] = "sendOk"])
  /\ at' = [at EXCEPT ![w] = "idle"]
  /\ UNCHANGED <<next, holds, receiver, stage, failures, outcome>>

(* send fails: nobody is listening any more.                               *)
SendFails(w) ==
  /\ Sending(w)
  /\ ~receiver
  /\ at' = [at EXCEPT ![w] = "done"]
  /\ UNCHANGED <<next, holds, channel, receiver, stage, failures, outcome>>

-----------------------------------------------------------------------------
Collect ==
  /\ receiver
  /\ outcome = "running"
  /\ channel # <<>>
  /\ channel' = Tail(channel)
  /\ LET r == Head(channel)
     IN IF r.ok THEN stage' = Append(stage, r.input) /\ UNCHANGED failures
        ELSE failures' = failures \union {r.input} /\ UNCHANGED stage
  /\ UNCHANGED <<next, at, holds, receiver, outcome>>

(* Mutant: the loop borrows the receiver, which then outlives it.          *)
PushFailsHoldingReceiver ==
  /\ receiver
  /\ outcome = "running"
  /\ channel # <<>> /\ Head(channel).ok
  /\ channel' = <<>>
  /\ outcome' = "pushError"
  /\ UNCHANGED <<next, at, holds, receiver, stage, failures>>

(* push fails: leaving the loop drops the receiver and what is in flight.  *)
PushFails ==
  /\ receiver
  /\ outcome = "running"
  /\ channel # <<>> /\ Head(channel).ok
  /\ channel' = <<>>
  /\ receiver' = FALSE
  /\ outcome' = "pushError"
  /\ UNCHANGED <<next, at, holds, stage, failures>>

AllDone == \A w \in Workers : at[w] = "done"

(* Mutant: an empty channel is taken for a closed one.                     *)
SealEarly ==
  /\ receiver
  /\ outcome = "running"
  /\ channel = <<>> /\ next >= N
  /\ receiver' = FALSE
  /\ outcome' \in {"complete", "failed"}
  /\ UNCHANGED <<next, at, holds, channel, stage, failures>>

(* The last sender is gone and the channel is drained: seal the stage.     *)
Seal ==
  /\ receiver
  /\ outcome = "running"
  /\ channel = <<>> /\ AllDone
  /\ receiver' = FALSE
  /\ outcome' \in {"complete", "failed"}
  /\ UNCHANGED <<next, at, holds, channel, stage, failures>>

(* Mutant: the push error is lost on the way out of the scope.             *)
ReturnComplete ==
  /\ outcome = "pushError"
  /\ AllDone
  /\ outcome' = "complete"
  /\ UNCHANGED <<next, at, holds, channel, receiver, stage, failures>>

(* The scope joins the workers before the push error is returned.          *)
ReturnError ==
  /\ outcome = "pushError"
  /\ AllDone
  /\ outcome' = "failed"
  /\ UNCHANGED <<next, at, holds, channel, receiver, stage, failures>>

Returned == outcome \in {"complete", "failed"}

Stopped == Returned /\ UNCHANGED vars

WorkerStep(w) == Take(w) \/ Project(w) \/ Send(w) \/ SendFails(w)

CollectorStep == Collect \/ PushFails \/ Seal \/ ReturnError

Next == (\E w \in Workers : WorkerStep(w)) \/ CollectorStep \/ Stopped

Spec == Init /\ [][Next]_vars

(* Threads run: each worker takes its next step, and so does the collector.*)
FairSpec ==
  Spec /\ (\A w \in Workers : WF_vars(WorkerStep(w))) /\ WF_vars(CollectorStep)

-----------------------------------------------------------------------------
(* Properties.                                                             *)

Busy == {w \in Workers : at[w] \in {"projecting", "sendOk", "sendError"}}
Held == {holds[w] : w \in Busy}
InFlight == {channel[i].input : i \in DOMAIN channel}
Pushed == {stage[i] : i \in DOMAIN stage}

(* Shapes and bounds: what is in memory at a time is bounded by the        *)
(* workers, not by the inputs.                                             *)
TypeOK ==
  /\ next \in Nat
  /\ at \in [Workers -> {"idle", "projecting", "sendOk", "sendError", "done"}]
  /\ holds \in [Workers -> Nat]
  /\ \A w \in Busy : holds[w] \in Inputs
  /\ channel \in Seq(Results) /\ Len(channel) <= Capacity
  /\ receiver \in BOOLEAN
  /\ stage \in Seq(Inputs)
  /\ failures \subseteq Inputs
  /\ outcome \in {"running", "pushError", "complete", "failed"}

(* No input is worked on, in flight or finished twice.                     *)
NoInputTwice ==
  /\ \A v, w \in Busy : holds[v] = holds[w] => v = w
  /\ \A i, j \in DOMAIN channel : channel[i].input = channel[j].input => i = j
  /\ \A i, j \in DOMAIN stage : stage[i] = stage[j] => i = j
  /\ Held \intersect (InFlight \union Pushed \union failures) = {}
  /\ InFlight \intersect (Pushed \union failures) = {}
  /\ Pushed \intersect failures = {}

(* Until a push fails, every input that was drawn is in one of these       *)
(* places; so a run that completes lost none.                              *)
NoInputLost ==
  /\ outcome = "running" => Held \union InFlight \union Pushed \union failures
                              = {i \in Inputs : i < next}
  /\ outcome = "complete" => Pushed \union failures = Inputs

(* project_bounded returns, whatever fails: no worker is left at a channel *)
(* nobody reads.                                                           *)
Terminates == <>Returned

(* The pipeline implements the parallel map.                               *)
Map == INSTANCE ParallelMap WITH
         Inputs  <- Inputs,
         staged  <- Pushed,
         failed  <- failures,
         outcome <- IF outcome = "pushError" THEN "running" ELSE outcome

ImplementsParallelMap == Map!Spec

=============================================================================
