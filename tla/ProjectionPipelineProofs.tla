----------------------- MODULE ProjectionPipelineProofs -----------------------
(***************************************************************************)
(* For every number of inputs and of workers: the pipeline keeps its       *)
(* bounds, finishes no input twice, loses none, and implements the         *)
(* parallel map.                                                           *)
(***************************************************************************)
EXTENDS ProjectionPipeline, SequenceTheorems, TLAPS

(* Inputs that were drawn and are not gone with a dropped receiver.        *)
Known == Held \union InFlight \union Pushed \union failures

(* The inductive invariant.  Beyond the properties: nothing is known that  *)
(* was not drawn, the receiver lives as long as the loop, and a worker     *)
(* leaves a live loop only when the counter is past the end.               *)
PipelineInv ==
  /\ TypeOK
  /\ NoInputTwice
  /\ NoInputLost
  /\ \A i \in Known : i < next
  /\ receiver <=> outcome = "running"
  /\ \A w \in Workers : receiver /\ at[w] = "done" => next >= N

LEMMA PoolType == Pool \in Nat \ {0} /\ Capacity \in Nat /\ 1 \in Workers
BY PipelineAssumption DEF Pool, AtMost, Capacity, Workers

(* What Append and Tail do to the elements of a sequence.                  *)
LEMMA AppendElements ==
  ASSUME NEW S, NEW s \in Seq(S), NEW e \in S
  PROVE  /\ Append(s, e) \in Seq(S)
         /\ Len(Append(s, e)) = Len(s) + 1
         /\ DOMAIN Append(s, e) = DOMAIN s \union {Len(s) + 1}
         /\ \A i \in DOMAIN s : Append(s, e)[i] = s[i]
         /\ Append(s, e)[Len(s) + 1] = e
         /\ Len(s) + 1 \notin DOMAIN s
BY AppendProperties

LEMMA TailElements ==
  ASSUME NEW S, NEW s \in Seq(S), s # <<>>
  PROVE  /\ Head(s) = s[1]
         /\ Tail(s) \in Seq(S)
         /\ Len(Tail(s)) = Len(s) - 1
         /\ 1 \in DOMAIN s
         /\ \A i \in DOMAIN Tail(s) : i + 1 \in DOMAIN s /\ Tail(s)[i] = s[i + 1]
         /\ \A j \in DOMAIN s : j # 1 => j - 1 \in DOMAIN Tail(s)
                                         /\ Tail(s)[j - 1] = s[j]
BY HeadTailProperties

LEMMA KnownAreInputs == ASSUME TypeOK PROVE Known \subseteq Inputs
<1>1. Held \subseteq Inputs
  BY DEF TypeOK, Held
<1>2. InFlight \subseteq Inputs
  <2>1. ASSUME NEW i \in DOMAIN channel
        PROVE  channel[i].input \in Inputs
    <3>1. channel[i] \in Results
      BY DEF TypeOK
    <3> QED
      BY <3>1 DEF Results
  <2> QED
    BY <2>1 DEF InFlight
<1>3. Pushed \subseteq Inputs /\ failures \subseteq Inputs
  BY DEF TypeOK, Pushed
<1> QED
  BY <1>1, <1>2, <1>3 DEF Known

LEMMA InvInit == Init => PipelineInv
BY PipelineAssumption, PoolType
   DEF Init, PipelineInv, TypeOK, NoInputTwice, NoInputLost, Known, Held, Busy,
       InFlight, Pushed, Inputs

-----------------------------------------------------------------------------
(* One lemma per action that moves an input: how the places change.        *)

LEMMA TakeMoves ==
  ASSUME PipelineInv, NEW w \in Workers, Take(w)
  PROVE  PipelineInv'
<1> USE PipelineAssumption, PoolType DEF Inputs
<1>1. w \notin Busy /\ UNCHANGED <<InFlight, Pushed, failures>>
  BY DEF Take, Busy, InFlight, Pushed
<1>2. CASE next < N
  <2>1. Busy' = Busy \union {w} /\ holds'[w] = next
        /\ \A v \in Busy : holds'[v] = holds[v]
    BY <1>1, <1>2 DEF Take, Busy, PipelineInv, TypeOK
  <2>2. Held' = Held \union {next}
    BY <1>1, <2>1 DEF Held
  <2>3. next \notin Known
    BY DEF PipelineInv, TypeOK
  <2>4. TypeOK'
    BY <1>2, <2>1 DEF Take, PipelineInv, TypeOK, Busy
  <2>5. NoInputTwice'
    BY <1>1, <2>1, <2>2, <2>3 DEF Take, PipelineInv, NoInputTwice, Known, Held
  <2>6. NoInputLost'
    BY <1>1, <1>2, <2>2 DEF Take, PipelineInv, NoInputLost, TypeOK
  <2>7. (\A i \in Known : i < next)'
    <3>1. Known' = Known \union {next} /\ Known \subseteq Nat
      BY <1>1, <2>2, KnownAreInputs DEF Known, PipelineInv
    <3> QED
      BY <3>1 DEF Take, PipelineInv, TypeOK
  <2> QED
    BY <2>4, <2>5, <2>6, <2>7, <1>2 DEF Take, PipelineInv, TypeOK
<1>3. CASE ~(next < N)
  <2>1. Busy' = Busy /\ holds' = holds
    BY <1>1, <1>3 DEF Take, Busy, PipelineInv, TypeOK
  <2>2. Held' = Held
    BY <2>1 DEF Held
  <2>3. TypeOK'
    BY <1>3, <2>1 DEF Take, PipelineInv, TypeOK
  <2>4. NoInputTwice'
    BY <1>1, <2>1, <2>2 DEF Take, PipelineInv, NoInputTwice
  <2>5. NoInputLost'
    BY <1>1, <1>3, <2>2 DEF Take, PipelineInv, NoInputLost, TypeOK
  <2>6. (\A i \in Known : i < next)'
    <3>1. Known' = Known /\ Known \subseteq Nat
      BY <1>1, <2>2, KnownAreInputs DEF Known, PipelineInv
    <3> QED
      BY <3>1 DEF Take, PipelineInv, TypeOK
  <2> QED
    BY <2>3, <2>4, <2>5, <2>6, <1>3 DEF Take, PipelineInv, TypeOK
<1> QED
  BY <1>2, <1>3

LEMMA ProjectMoves ==
  ASSUME PipelineInv, NEW w \in Workers, Project(w)
  PROVE  PipelineInv'
<1>1. Busy' = Busy /\ UNCHANGED <<Held, InFlight, Pushed, Known>>
  BY DEF Project, Busy, Held, InFlight, Pushed, Known, PipelineInv, TypeOK
<1>2. TypeOK'
  BY <1>1 DEF Project, PipelineInv, TypeOK
<1>3. NoInputTwice' /\ NoInputLost'
  BY <1>1 DEF Project, PipelineInv, NoInputTwice, NoInputLost
<1> QED
  BY <1>1, <1>2, <1>3 DEF Project, PipelineInv, TypeOK

LEMMA SendMoves ==
  ASSUME PipelineInv, NEW w \in Workers, Send(w)
  PROVE  PipelineInv'
<1> DEFINE r == [input |-> holds[w], ok |-> at[w] = "sendOk"]
<1>1. w \in Busy /\ holds[w] \in Inputs /\ r \in Results
  BY DEF Send, Sending, Busy, PipelineInv, TypeOK, Results
<1>2. channel \in Seq(Results) /\ channel' = Append(channel, r)
  BY DEF Send, PipelineInv, TypeOK
<1>3. /\ channel' \in Seq(Results)
      /\ Len(channel') = Len(channel) + 1
      /\ DOMAIN channel' = DOMAIN channel \union {Len(channel) + 1}
      /\ \A i \in DOMAIN channel : channel'[i] = channel[i]
      /\ channel'[Len(channel) + 1] = r
      /\ Len(channel) + 1 \notin DOMAIN channel
  BY <1>1, <1>2, AppendElements
<1>4. Busy' = Busy \ {w} /\ holds' = holds
  BY <1>1 DEF Send, Busy, PipelineInv, TypeOK
<1>5. Held' = Held \ {holds[w]} /\ holds[w] \in Held
  BY <1>1, <1>4 DEF Held, PipelineInv, NoInputTwice
<1>6. InFlight' = InFlight \union {holds[w]}
  <2>1. ASSUME NEW i \in DOMAIN channel
        PROVE  channel'[i].input = channel[i].input
    BY <1>3
  <2>2. channel'[Len(channel) + 1].input = holds[w]
    BY <1>3
  <2> QED
    BY <1>3, <2>1, <2>2 DEF InFlight
<1>7. Pushed' = Pushed /\ failures' = failures
  BY DEF Send, Pushed
<1>8. TypeOK'
  BY <1>3, <1>4, PoolType DEF Send, PipelineInv, TypeOK
<1>9. NoInputTwice'
  <2>1. holds[w] \notin InFlight \union Pushed \union failures
    BY <1>5 DEF PipelineInv, NoInputTwice
  <2>2. \A i \in DOMAIN channel : channel[i].input # holds[w]
    BY <2>1 DEF InFlight
  <2>3. \A i, j \in DOMAIN channel' : channel'[i].input = channel'[j].input => i = j
    BY <1>3, <2>2 DEF PipelineInv, NoInputTwice
  <2> QED
    BY <1>4, <1>5, <1>6, <1>7, <2>1, <2>3 DEF Send, PipelineInv, NoInputTwice
<1>10. Known' = Known
  BY <1>5, <1>6, <1>7 DEF Known
<1>11. NoInputLost'
  BY <1>5, <1>6, <1>7 DEF Send, PipelineInv, NoInputLost
<1> QED
  BY <1>8, <1>9, <1>10, <1>11 DEF Send, PipelineInv, TypeOK

LEMMA SendFailsMoves ==
  ASSUME PipelineInv, NEW w \in Workers, SendFails(w)
  PROVE  PipelineInv'
<1>1. Busy' = Busy \ {w} /\ UNCHANGED <<InFlight, Pushed, failures>>
  BY DEF SendFails, Sending, Busy, InFlight, Pushed, PipelineInv, TypeOK
<1>2. Held' \subseteq Held /\ Known' \subseteq Known
  BY <1>1 DEF SendFails, Held, Known
<1>3. TypeOK'
  BY <1>1 DEF SendFails, PipelineInv, TypeOK
<1>4. NoInputTwice'
  BY <1>1, <1>2 DEF SendFails, PipelineInv, NoInputTwice
<1>5. NoInputLost'
  BY <1>1 DEF SendFails, PipelineInv, NoInputLost
<1> QED
  BY <1>2, <1>3, <1>4, <1>5 DEF SendFails, PipelineInv, TypeOK

LEMMA CollectMoves ==
  ASSUME PipelineInv, Collect
  PROVE  PipelineInv'
<1> DEFINE r == Head(channel)
<1>1. channel \in Seq(Results) /\ channel # <<>> /\ channel' = Tail(channel)
  BY DEF Collect, PipelineInv, TypeOK
<1>2. /\ r = channel[1] /\ 1 \in DOMAIN channel
      /\ channel' \in Seq(Results)
      /\ Len(channel') = Len(channel) - 1
      /\ \A i \in DOMAIN channel' : i + 1 \in DOMAIN channel
                                  /\ channel'[i] = channel[i + 1]
      /\ \A j \in DOMAIN channel : j # 1 => j - 1 \in DOMAIN channel'
                                          /\ channel'[j - 1] = channel[j]
  BY <1>1, TailElements
<1>3. r \in Results /\ r.input \in Inputs /\ r.input \in InFlight
  <2>1. r \in Results /\ r.input = channel[1].input
    BY <1>1, <1>2
  <2> QED
    BY <1>2, <2>1 DEF Results, InFlight
<1>4. Busy' = Busy /\ Held' = Held /\ holds' = holds
  BY DEF Collect, Busy, Held
<1>5. DOMAIN channel \subseteq Nat /\ DOMAIN channel' \subseteq Nat
  BY <1>1, <1>2
<1>6. InFlight' = InFlight \ {r.input}
  <2>1. ASSUME NEW i \in DOMAIN channel'
        PROVE  channel'[i].input \in InFlight \ {r.input}
    <3>1. i + 1 \in DOMAIN channel /\ channel'[i] = channel[i + 1] /\ i + 1 # 1
      BY <1>2, <1>1
    <3>2. channel[i + 1].input # channel[1].input
      BY <3>1, <1>2 DEF PipelineInv, NoInputTwice
    <3> QED
      BY <3>1, <3>2, <1>2 DEF InFlight
  <2>2. ASSUME NEW j \in DOMAIN channel, channel[j].input # r.input
        PROVE  channel[j].input \in InFlight'
    <3>1. j # 1
      BY <2>2, <1>2
    <3>2. j - 1 \in DOMAIN channel' /\ channel'[j - 1] = channel[j]
      BY <3>1, <1>2
    <3> QED
      BY <3>2 DEF InFlight
  <2> QED
    BY <2>1, <2>2 DEF InFlight
<1>7. \A i, j \in DOMAIN channel' : channel'[i].input = channel'[j].input => i = j
  <2>1. ASSUME NEW i \in DOMAIN channel', NEW j \in DOMAIN channel',
               channel'[i].input = channel'[j].input
        PROVE  i = j
    <3>1. /\ i + 1 \in DOMAIN channel /\ channel'[i] = channel[i + 1]
          /\ j + 1 \in DOMAIN channel /\ channel'[j] = channel[j + 1]
      BY <1>2
    <3>2. i + 1 = j + 1
      BY <2>1, <3>1 DEF PipelineInv, NoInputTwice
    <3>3. i \in Nat /\ j \in Nat
      BY <1>5
    <3> QED
      BY <3>2, <3>3
  <2> QED
    BY <2>1
<1>8. r.input \notin Pushed \union failures \union Held
  BY <1>3 DEF PipelineInv, NoInputTwice
<1>9. stage \in Seq(Inputs) /\ failures \subseteq Inputs
  BY DEF PipelineInv, TypeOK
<1>10. CASE r.ok
  <2>1. stage' = Append(stage, r.input) /\ failures' = failures
    BY <1>10 DEF Collect
  <2>2. /\ stage' \in Seq(Inputs)
        /\ DOMAIN stage' = DOMAIN stage \union {Len(stage) + 1}
        /\ \A i \in DOMAIN stage : stage'[i] = stage[i]
        /\ stage'[Len(stage) + 1] = r.input
        /\ Len(stage) + 1 \notin DOMAIN stage
    BY <1>3, <1>9, <2>1, AppendElements
  <2>3. Pushed' = Pushed \union {r.input}
    BY <2>2 DEF Pushed
  <2>4. \A i, j \in DOMAIN stage' : stage'[i] = stage'[j] => i = j
    <3>1. \A i \in DOMAIN stage : stage[i] # r.input
      BY <1>8 DEF Pushed
    <3> QED
      BY <2>2, <3>1 DEF PipelineInv, NoInputTwice
  <2>5. TypeOK'
    BY <1>2, <1>4, <2>1, <2>2, PoolType, <1>1 DEF Collect, PipelineInv, TypeOK
  <2>6. NoInputTwice'
    BY <1>4, <1>6, <1>7, <1>8, <2>1, <2>3, <2>4 DEF PipelineInv, NoInputTwice
  <2>7. Known' = Known
    BY <1>3, <1>4, <1>6, <2>1, <2>3 DEF Known
  <2>8. NoInputLost'
    BY <1>3, <1>4, <1>6, <2>1, <2>3 DEF Collect, PipelineInv, NoInputLost
  <2> QED
    BY <2>5, <2>6, <2>7, <2>8 DEF Collect, PipelineInv
<1>11. CASE ~r.ok
  <2>1. failures' = failures \union {r.input} /\ stage' = stage
    BY <1>11 DEF Collect
  <2>2. Pushed' = Pushed
    BY <2>1 DEF Pushed
  <2>3. TypeOK'
    BY <1>1, <1>2, <1>3, <1>4, <2>1, PoolType DEF Collect, PipelineInv, TypeOK
  <2>4. NoInputTwice'
    BY <1>4, <1>6, <1>7, <1>8, <2>1, <2>2 DEF PipelineInv, NoInputTwice
  <2>5. Known' = Known
    BY <1>3, <1>4, <1>6, <2>1, <2>2 DEF Known
  <2>6. NoInputLost'
    BY <1>3, <1>4, <1>6, <2>1, <2>2 DEF Collect, PipelineInv, NoInputLost
  <2> QED
    BY <2>3, <2>4, <2>5, <2>6 DEF Collect, PipelineInv
<1> QED
  BY <1>10, <1>11

LEMMA PushFailsMoves ==
  ASSUME PipelineInv, PushFails
  PROVE  PipelineInv'
<1>1. Busy' = Busy /\ UNCHANGED <<Held, holds, Pushed, stage, failures>>
  BY DEF PushFails, Busy, Held, Pushed
<1>2. channel' \in Seq(Results) /\ Len(channel') = 0 /\ DOMAIN channel' = {}
  BY DEF PushFails
<1>3. InFlight' = {}
  BY <1>2 DEF InFlight
<1>4. TypeOK'
  <2>1. next' = next /\ at' = at /\ receiver' \in BOOLEAN /\ outcome' = "pushError"
    BY DEF PushFails
  <2>2. Len(channel') <= Capacity
    BY <1>2, PoolType
  <2> QED
    BY <1>1, <1>2, <2>1, <2>2 DEF PipelineInv, TypeOK
<1>5. NoInputTwice'
  BY <1>1, <1>2, <1>3 DEF PipelineInv, NoInputTwice
<1>6. Known' \subseteq Known
  BY <1>1, <1>3 DEF Known
<1>7. NoInputLost'
  BY DEF PushFails, NoInputLost
<1> QED
  BY <1>4, <1>5, <1>6, <1>7 DEF PushFails, PipelineInv

(* When every worker has left a live loop, nothing is held and every input *)
(* was drawn.                                                              *)
LEMMA SealMoves ==
  ASSUME PipelineInv, Seal
  PROVE  PipelineInv' /\ Pushed \union failures = Inputs
<1>1. /\ Busy' = Busy
      /\ UNCHANGED <<Held, InFlight, Known, holds, channel, Pushed, stage, failures>>
  BY DEF Seal, Busy, Held, InFlight, Known, Pushed
<1>2. TypeOK'
  BY <1>1 DEF Seal, PipelineInv, TypeOK
<1>3. NoInputTwice'
  BY <1>1 DEF PipelineInv, NoInputTwice
<1>4. Held = {} /\ InFlight = {}
  BY DEF Seal, AllDone, Held, Busy, InFlight
<1>5. next >= N
  BY PoolType DEF Seal, AllDone, PipelineInv
<1>6. {i \in Inputs : i < next} = Inputs
  BY <1>5, PipelineAssumption DEF Inputs, PipelineInv, TypeOK
<1>7. Pushed \union failures = Inputs
  BY <1>4, <1>6 DEF Seal, PipelineInv, NoInputLost
<1>8. NoInputLost'
  BY <1>1, <1>7 DEF Seal, NoInputLost, Inputs
<1> QED
  BY <1>1, <1>2, <1>3, <1>7, <1>8 DEF Seal, PipelineInv

LEMMA ReturnErrorMoves ==
  ASSUME PipelineInv, ReturnError
  PROVE  PipelineInv'
<1>1. /\ Busy' = Busy
      /\ UNCHANGED <<Held, InFlight, Known, holds, channel, Pushed, stage, failures>>
  BY DEF ReturnError, Busy, Held, InFlight, Known, Pushed
<1>2. TypeOK'
  BY <1>1 DEF ReturnError, PipelineInv, TypeOK
<1>3. NoInputTwice' /\ NoInputLost'
  BY <1>1 DEF ReturnError, PipelineInv, NoInputTwice, NoInputLost
<1> QED
  BY <1>1, <1>2, <1>3 DEF ReturnError, PipelineInv

LEMMA InvStep == PipelineInv /\ [Next]_vars => PipelineInv'
<1> SUFFICES ASSUME PipelineInv, [Next]_vars PROVE PipelineInv'
  OBVIOUS
<1>1. ASSUME NEW w \in Workers, WorkerStep(w)
      PROVE  PipelineInv'
  BY <1>1, TakeMoves, ProjectMoves, SendMoves, SendFailsMoves DEF WorkerStep
<1>2. CASE CollectorStep
  BY <1>2, CollectMoves, PushFailsMoves, SealMoves, ReturnErrorMoves
     DEF CollectorStep
<1>3. CASE UNCHANGED vars
  <2>1. UNCHANGED <<Busy, Held, InFlight, Pushed, Known>>
    BY <1>3 DEF vars, Busy, Held, InFlight, Pushed, Known
  <2>2. TypeOK'
    BY <1>3, <2>1 DEF vars, PipelineInv, TypeOK
  <2>3. NoInputTwice' /\ NoInputLost'
    BY <1>3, <2>1 DEF vars, PipelineInv, NoInputTwice, NoInputLost
  <2> QED
    BY <1>3, <2>1, <2>2, <2>3 DEF vars, PipelineInv
<1> QED
  BY <1>1, <1>2, <1>3 DEF Next, Stopped

-----------------------------------------------------------------------------
(* The inductive invariant holds in every reachable state.                 *)
THEOREM PipelineInvariant == Spec => []PipelineInv
<1> QED
  BY InvInit, InvStep, PTL DEF Spec

(* What is in memory at a time is bounded by the workers (TypeOK bounds the*)
(* channel), however many inputs there are.                                *)
THEOREM PipelineTypeCorrect == Spec => []TypeOK
<1>1. PipelineInv => TypeOK
  BY DEF PipelineInv
<1> QED
  BY <1>1, PipelineInvariant, PTL

(* No input is projected, in flight or finished twice.                     *)
THEOREM EveryInputAtMostOnce == Spec => []NoInputTwice
<1>1. PipelineInv => NoInputTwice
  BY DEF PipelineInv
<1> QED
  BY <1>1, PipelineInvariant, PTL

(* A run that completes has finished every input.                          *)
THEOREM EveryInputAtLeastOnce == Spec => []NoInputLost
<1>1. PipelineInv => NoInputLost
  BY DEF PipelineInv
<1> QED
  BY <1>1, PipelineInvariant, PTL

-----------------------------------------------------------------------------
(* The refinement: collecting a result finishes its input, sealing         *)
(* completes or fails the map, returning a push error fails it; every      *)
(* other step leaves the map alone.                                        *)

LEMMA MapInit == Init => Map!Init
BY DEF Init, Map!Init, Pushed

LEMMA CollectFinishes ==
  ASSUME PipelineInv, Collect
  PROVE  \E i \in Inputs : Map!Finish(i)
<1> DEFINE r == Head(channel)
<1>1. channel \in Seq(Results) /\ channel # <<>>
  BY DEF Collect, PipelineInv, TypeOK
<1>2. r = channel[1] /\ 1 \in DOMAIN channel
  BY <1>1, TailElements
<1>3. r.input \in Inputs /\ r.input \in InFlight
  <2>1. r \in Results /\ r.input = channel[1].input
    BY <1>1, <1>2
  <2> QED
    BY <1>2, <2>1 DEF Results, InFlight
<1>4. r.input \notin Pushed \union failures
  BY <1>3 DEF PipelineInv, NoInputTwice
<1>5. outcome = "running" /\ outcome' = "running"
  BY DEF Collect
<1>6. CASE r.ok
  <2>1. stage' = Append(stage, r.input) /\ failures' = failures
    BY <1>6 DEF Collect
  <2>2. stage \in Seq(Inputs)
    BY DEF PipelineInv, TypeOK
  <2>3. /\ DOMAIN stage' = DOMAIN stage \union {Len(stage) + 1}
        /\ \A i \in DOMAIN stage : stage'[i] = stage[i]
        /\ stage'[Len(stage) + 1] = r.input
    BY <1>3, <2>1, <2>2, AppendElements
  <2>4. Pushed' = Pushed \union {r.input}
    BY <2>3 DEF Pushed
  <2> QED
    BY <1>3, <1>4, <1>5, <2>1, <2>4 DEF Map!Finish
<1>7. CASE ~r.ok
  <2>1. failures' = failures \union {r.input} /\ Pushed' = Pushed
    BY <1>7 DEF Collect, Pushed
  <2> QED
    BY <1>3, <1>4, <1>5, <2>1 DEF Map!Finish
<1> QED
  BY <1>6, <1>7

LEMMA StepImplements == PipelineInv /\ [Next]_vars => [Map!Next]_(Map!vars)
<1> SUFFICES ASSUME PipelineInv, [Next]_vars PROVE [Map!Next]_(Map!vars)
  OBVIOUS
<1>1. ASSUME NEW w \in Workers, WorkerStep(w)
      PROVE  UNCHANGED Map!vars
  BY <1>1 DEF WorkerStep, Take, Project, Send, SendFails, Map!vars, Pushed
<1>2. CASE Collect
  BY <1>2, CollectFinishes DEF Map!Next
<1>3. CASE PushFails
  BY <1>3 DEF PushFails, Map!vars, Pushed
<1>4. CASE Seal
  <2>1. Pushed \union failures = Inputs
    BY <1>4, SealMoves
  <2>2. outcome = "running" /\ Pushed' = Pushed /\ failures' = failures
        /\ outcome' \in {"complete", "failed"}
    BY <1>4 DEF Seal, Pushed
  <2> QED
    BY <2>1, <2>2 DEF Map!Next, Map!Complete, Map!Fail
<1>5. CASE ReturnError
  BY <1>5 DEF ReturnError, Map!Next, Map!Fail, Pushed
<1>6. CASE UNCHANGED vars
  BY <1>6 DEF vars, Map!vars, Pushed
<1> QED
  BY <1>1, <1>2, <1>3, <1>4, <1>5, <1>6 DEF Next, CollectorStep, Stopped

(* The pipeline implements the parallel map: whatever the scheduling and   *)
(* wherever it fails, its caller sees each input finished once.            *)
THEOREM PipelineImplementsParallelMap == Spec => ImplementsParallelMap
<1> QED
  BY PipelineInvariant, MapInit, StepImplements, PTL
     DEF Spec, ImplementsParallelMap, Map!Spec

=============================================================================
