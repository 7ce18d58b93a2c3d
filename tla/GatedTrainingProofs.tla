-------------------------- MODULE GatedTrainingProofs --------------------------
(****************************************************************************)
(* What trainings of adapters on one base do to gradients, gates and other  *)
(* adapters, for all adapters, ranks, ratios and temperatures.              *)
(****************************************************************************)
EXTENDS GatedTraining, Integers, TLAPS

\* While a training with a monitor is past arming, all of its layers have hooks.
ArmInv ==
  /\ tpc = "arm" => monitored
  /\ monitored /\ tpc \notin {"idle", "arm"} => LayersOf(own) \subseteq hooked
  /\ GatesEndWithTraining

InPass == tpc \in {"backward", "step"}

\* The gradient of p is what the samples of this iteration ask for.
Follows(p) ==
  /\ AllMasked => grad[p] = ActiveRows(p)
  /\ NoneMasked(p) => grad[p] = Rows(p)

\* In an iteration the gradients of the adapter are of its live layers and of this
\* backward pass; a parameter that backward() has yet to come to has none.
PassInv ==
  /\ InPass =>
       /\ machine \in seen
       /\ Own \cap stale = {}
       /\ \A p \in Own : grad[p] # {} => p[1] \in Live /\ Follows(p)
  /\ tpc = "backward" => todo \subseteq ParamsOf(Live) /\ \A p \in todo \cap Own : grad[p] = {}
  /\ tpc = "step" => todo \subseteq {p \in Own : grad[p] # {}}

\* Until it takes in an iteration that was not masked all through, the optimizer has
\* averages for the active rows alone; and it has one for each row of a gradient that
\* it has taken in, and of its matrix alone.
UpdateInv ==
  /\ \A p \in Params : momentum[p] \subseteq Rows(p)
  /\ \A p \in Own :
       /\ /\ tpc \in {"forward", "backward", "step"}
          /\ monitored /\ ~wasCool
          /\ tpc = "step" => AllMasked
          => momentum[p] \subseteq ActiveRows(p)
       /\ tpc = "step" /\ p \notin todo => grad[p] \subseteq momentum[p]

TrainInv == TypeOK /\ ArmInv /\ PassInv /\ UpdateInv

USE LayerAssumption, TrainingAssumption
USE DEF Params, Matrices, ParamsOf, hookVars, callVars, trainVars

----------------------------------------------------------------------------
(* Layers and rows                                                          *)

\* Layers of an adapter, and of the model, are layers.
LEMMA LayersAreLayers ==
  /\ \A a \in Adapters : LayersOf(a) \subseteq Layers /\ ParamsOf(LayersOf(a)) \subseteq Params
  /\ TypeOK => Live \subseteq Layers /\ Own \subseteq Params
BY DEF LayersOf, Live, TypeOK, Own

\* A parameter has as many rows as its matrix, a natural number.
LEMMA RowsAreNumbers == ASSUME NEW p \in Params PROVE Rows(p) \subseteq Nat
BY DEF Rows, NumRows

\* With or without a hook, a gradient has no other rows than its matrix.
LEMMA GradientHasRows ==
  ASSUME NEW p \in Params
  PROVE  HookedGradient(p) \subseteq Rows(p)
BY DEF HookedGradient, ActiveRows

----------------------------------------------------------------------------
(* The mask                                                                 *)

\* Division with a remainder.
LEMMA Division ==
  ASSUME NEW n \in Nat, NEW d \in Nat \ {0}
  PROVE  n \div d \in Nat /\ n % d \in 0..d - 1 /\ n = d * (n \div d) + (n % d)
OBVIOUS

\* Round gives the nearest integer to n / d and, of two that are as near, the even one.
LEMMA RoundIsNearest ==
  ASSUME NEW n \in Nat, NEW d \in Nat \ {0}
  PROVE  /\ Round(n, d) \in Nat
         /\ 2 * n - d <= 2 * (d * Round(n, d))
         /\ 2 * (d * Round(n, d)) <= 2 * n + d
         /\ 2 * (d * Round(n, d)) \in {2 * n - d, 2 * n + d} => Round(n, d) % 2 = 0
<1> DEFINE q == n \div d
           r == n % d
<1>1. q \in Nat /\ r \in 0..d - 1 /\ n = d * q + r
  BY Division
<1>2. Round(n, d) = IF 2 * r < d \/ (2 * r = d /\ q % 2 = 0) THEN q ELSE q + 1
  BY DEF Round
<1> HIDE DEF q, r
<1>3. d * (q + 1) = d * q + d
  BY <1>1
<1>4. d * q \in Nat
  BY <1>1
<1>5. q % 2 = 0 \/ (q + 1) % 2 = 0
  BY <1>1
<1>6. CASE 2 * r < d \/ (2 * r = d /\ q % 2 = 0)
  <2>1. Round(n, d) = q
    BY <1>2, <1>6
  <2> QED
    BY <1>1, <1>4, <1>6, <2>1
<1>7. CASE ~(2 * r < d \/ (2 * r = d /\ q % 2 = 0))
  <2>1. Round(n, d) = q + 1
    BY <1>2, <1>7
  <2>2. 2 * r >= d
    BY <1>1, <1>7
  <2>3. 2 * r = d => (q + 1) % 2 = 0
    BY <1>5, <1>7
  <2> QED
    BY <1>1, <1>3, <1>4, <2>1, <2>2, <2>3
<1> QED
  BY <1>6, <1>7

\* A multiple of k that is nearer to zero than k is zero.
LEMMA SmallMultiple ==
  ASSUME NEW k \in Nat \ {0}, NEW x \in Int, k * x < k, k * x > -k
  PROVE  x = 0
<1>1. CASE x >= 1
  <2>1. k * x = k + k * (x - 1)
    OBVIOUS
  <2>2. k * (x - 1) >= 0
    BY <1>1
  <2> QED
    BY <2>1, <2>2
<1>2. CASE x <= -1
  <2>1. k * x = k * (x + 1) - k
    OBVIOUS
  <2>2. k * (x + 1) <= 0
    BY <1>2
  <2> QED
    BY <2>1, <2>2
<1> QED
  BY <1>1, <1>2

\* Of any k numbers in a row one is divisible by k.
LEMMA OnePerStride ==
  ASSUME NEW k \in Nat \ {0}, NEW first \in Nat
  PROVE  \E row \in first..first + k - 1 :
            /\ row % k = 0
            /\ \A other \in first..first + k - 1 : other % k = 0 => other = row
<1> DEFINE q == first \div k
           r == first % k
           row == IF r = 0 THEN first ELSE k * (q + 1)
<1>1. q \in Nat /\ r \in 0..k - 1 /\ first = k * q + r
  BY Division
<1>2. k * (q + 1) = k * q + k /\ k * q \in Nat
  BY <1>1
<1>3. row \in first..first + k - 1 /\ row \in Nat
  BY <1>1, <1>2
<1>4. \A m \in Nat : (k * m) % k = 0
  <2> TAKE m \in Nat
  <2> DEFINE n == k * m
             a == n \div k
             b == n % k
  <2>1. n \in Nat
    OBVIOUS
  <2>2. a \in Nat /\ b \in 0..k - 1 /\ n = k * a + b
    BY <2>1, Division
  <2> HIDE DEF a, b
  <2>3. b = k * (m - a)
    BY <2>2
  <2>4. m - a = 0
    BY <2>2, <2>3, SmallMultiple
  <2> QED
    BY <2>3, <2>4 DEF b
<1>5. row % k = 0
  <2>1. CASE r = 0
    BY <2>1
  <2>2. CASE r # 0
    <3>1. q + 1 \in Nat
      BY <1>1
    <3>2. (k * (q + 1)) % k = 0
      BY <1>4, <3>1
    <3> QED
      BY <2>2, <3>2
  <2> QED
    BY <2>1, <2>2
<1>6. ASSUME NEW other \in first..first + k - 1, other % k = 0
      PROVE  other = row
  <2> DEFINE a == other \div k
             b == row \div k
  <2>1. a \in Nat /\ b \in Nat /\ other = k * a /\ row = k * b
    <3>1. \A n \in Nat : n % k = 0 => n \div k \in Nat /\ n = k * (n \div k)
      BY Division
    <3>2. other \in Nat /\ row \in Nat
      BY <1>3
    <3> HIDE DEF row
    <3> QED
      BY <1>5, <1>6, <3>1, <3>2
  <2>2. other - row < k /\ row - other < k
    BY <1>3
  <2> HIDE DEF a, b, row
  <2>3. other - row = k * (a - b)
    BY <2>1
  <2>4. k * (a - b) \in Int /\ k * (a - b) < k /\ k * (a - b) > -k
    BY <1>3, <2>2, <2>3
  <2>5. a - b = 0
    BY <2>1, <2>4, SmallMultiple
  <2> QED
    BY <2>1, <2>5
<1> QED
  BY <1>3, <1>5, <1>6

\* The stride is 1 / freeze_ratio rounded; the max() with 1 is never needed.
LEMMA StrideIsRounded ==
  /\ Stride \in Nat \ {0}
  /\ Stride = Round(RatioDenominator, RatioNumerator)
<1> DEFINE n == Round(RatioDenominator, RatioNumerator)
<1>1. /\ n \in Nat
      /\ 2 * RatioDenominator - RatioNumerator <= 2 * (RatioNumerator * n)
  BY RoundIsNearest
<1> HIDE DEF n
<1>2. n # 0
  <2> SUFFICES ASSUME n = 0 PROVE FALSE
    OBVIOUS
  <2>1. RatioNumerator * n = 0
    OBVIOUS
  <2> QED
    BY <1>1, <2>1
<1>3. Stride = IF n > 1 THEN n ELSE 1
  BY DEF Stride, n
<1>4. Stride = n /\ n \in Nat \ {0}
  BY <1>1, <1>2, <1>3
<1> QED
  BY <1>4 DEF n

\* The first row is always active: throttling never freezes a matrix whole, and a
\* gradient that has been hooked is not taken for None.
LEMMA HookLeavesRows ==
  ASSUME NEW p \in Params
  PROVE  ActiveRows(p) # {} /\ HookedGradient(p) # {}
<1>1. 0 \in Rows(p)
  BY DEF Rows, NumRows
<1>2. 0 % Stride = 0
  <2> DEFINE k == Stride
  <2>1. k \in Nat \ {0}
    BY StrideIsRounded
  <2>2. 0 \div k \in Nat /\ 0 % k \in 0..k - 1 /\ 0 = k * (0 \div k) + (0 % k)
    BY <2>1, Division
  <2> HIDE DEF k
  <2>3. k * (0 \div k) \in Nat
    BY <2>1, <2>2
  <2>4. 0 % k = 0
    BY <2>2, <2>3
  <2> QED
    BY <2>4 DEF k
<1> QED
  BY <1>1, <1>2 DEF ActiveRows, HookedGradient

----------------------------------------------------------------------------
(* Types                                                                    *)

\* The types hold at first.
LEMMA TypesAtFirst == Init => TypeOK
<1> SUFFICES ASSUME Init PROVE TypeOK
  OBVIOUS
<1>1. 0 \in 0..Versions - 1
  OBVIOUS
<1>2. version \in [Params -> 0..Versions - 1] /\ got \in [Matrices -> 0..Versions - 1]
  BY <1>1 DEF Init, LayerInit
<1>3. /\ grad \in [Params -> SUBSET Nat] /\ momentum \in [Params -> SUBSET Nat]
      /\ \A p \in Params : grad[p] \subseteq Rows(p)
  BY DEF Init, LayerInit
<1>4. plugged \in [Sublayers -> Layers \cup {Base}]
  BY DEF Init
<1> QED
  BY <1>2, <1>3, <1>4 DEF Init, LayerInit, TypeOK, LayerTypeOK

\* Every step of train_adapter keeps the types.
LEMMA TrainStepTypes == TypeOK /\ TrainStep => TypeOK'
<1> SUFFICES ASSUME TypeOK, TrainStep PROVE TypeOK'
  OBVIOUS
<1> USE DEF TypeOK, LayerTypeOK, TrainingSame
<1>0. LayersOf(own) \subseteq Layers /\ ParamsOf(LayersOf(own)) \subseteq Params
      /\ Live \subseteq Layers
  BY LayersAreLayers
<1>1. CASE Arm
  BY <1>0, <1>1 DEF Arm
<1>2. CASE MakeOptimizer
  BY <1>2 DEF MakeOptimizer
<1>3. CASE OptimizerRaises
  BY <1>0, <1>3 DEF OptimizerRaises
<1>4. CASE ForwardPass
  BY <1>0, <1>4 DEF ForwardPass
<1>5. CASE EndLoop \/ StepRaises \/ EndStep
  BY <1>5 DEF EndLoop, StepRaises, EndStep
<1>6. ASSUME NEW p \in Params, Backward(p) PROVE TypeOK'
  <2>1. grad[p] \cup HookedGradient(p) \subseteq Rows(p)
    BY GradientHasRows
  <2>2. Rows(p) \subseteq Nat
    BY RowsAreNumbers
  <2>3. grad' \in [Params -> SUBSET Nat] /\ \A q \in Params : grad'[q] \subseteq Rows(q)
    BY <1>6, <2>1, <2>2 DEF Backward
  <2> QED
    BY <1>6, <2>3 DEF Backward
<1>7. ASSUME NEW p \in Params, BackwardRaises(p) PROVE TypeOK'
  BY <1>7 DEF BackwardRaises
<1>8. ASSUME NEW p \in Params, Step(p) PROVE TypeOK'
  <2>1. version' \in [Params -> 0..Versions - 1]
    BY <1>8 DEF Step, WriteMatrix
  <2>2. momentum' \in [Params -> SUBSET Nat]
    BY <1>8 DEF Step
  <2> QED
    BY <1>8, <2>1, <2>2 DEF Step, WriteMatrix
<1>9. CASE EndBackward
  BY <1>0, <1>9 DEF EndBackward
<1>10. CASE Finally
  BY <1>10 DEF Finally
<1> QED
  BY <1>1, <1>2, <1>3, <1>4, <1>5, <1>6, <1>7, <1>8, <1>9, <1>10 DEF TrainStep

\* So do the caller, the temperature and the gates.
LEMMA TypeStep == TypeOK /\ [Next]_vars => TypeOK'
<1> SUFFICES ASSUME TypeOK, [Next]_vars PROVE TypeOK'
  OBVIOUS
<1>1. ASSUME NEW a \in Adapters, PlugIn(a) PROVE TypeOK'
  BY <1>1 DEF PlugIn, TypeOK, LayerTypeOK
<1>2. ASSUME NEW a \in Adapters, NEW monitor \in BOOLEAN, Train(a, monitor) PROVE TypeOK'
  BY <1>2 DEF Train, TypeOK, LayerTypeOK
<1>3. CASE Change
  BY <1>3 DEF Change, TypeOK, LayerTypeOK
<1>4. CASE Toggle
  <2>1. PICK l \in Served : ToggleGate(l)
    BY <1>4 DEF Toggle
  <2>2. gatesSeen' \subseteq {"on", "off"} /\ gateOn' \subseteq Layers
    BY <2>1 DEF ToggleGate, Gate, TypeOK, LayerTypeOK
  <2>3. UNCHANGED <<machine, hookVars, version, call, callLayer, got, written>>
    BY <2>1 DEF ToggleGate
  <2> QED
    BY <1>4, <2>2, <2>3 DEF Toggle, TypeOK, LayerTypeOK
<1>5. CASE UNCHANGED vars
  BY <1>5 DEF vars, TypeOK, LayerTypeOK
<1> QED
  BY <1>1, <1>2, <1>3, <1>4, <1>5, TrainStepTypes DEF Next

----------------------------------------------------------------------------
(* Gates                                                                    *)

\* Arming covers every layer of the training, and its finally takes it back.
LEMMA ArmStep == TypeOK /\ ArmInv /\ [Next]_vars => ArmInv'
<1> SUFFICES ASSUME TypeOK, ArmInv, [Next]_vars PROVE ArmInv'
  OBVIOUS
<1> USE DEF ArmInv, GatesEndWithTraining, LayersOf
<1>1. CASE TrainStep
  <2> USE DEF TrainingSame
  <2>1. CASE Arm
    BY <2>1 DEF Arm
  <2>2. CASE MakeOptimizer \/ EndLoop \/ EndBackward \/ StepRaises \/ EndStep \/ ForwardPass
    BY <2>2 DEF MakeOptimizer, EndLoop, EndBackward, StepRaises, EndStep, ForwardPass
  <2>3. CASE OptimizerRaises
    BY <2>3 DEF OptimizerRaises
  <2>4. ASSUME NEW p \in Params, Backward(p) \/ BackwardRaises(p) \/ Step(p) PROVE ArmInv'
    BY <2>4 DEF Backward, BackwardRaises, Step
  <2>5. CASE Finally
    BY <2>5 DEF Finally
  <2> QED
    BY <1>1, <2>1, <2>2, <2>3, <2>4, <2>5 DEF TrainStep
<1>2. ASSUME NEW a \in Adapters, PlugIn(a) PROVE ArmInv'
  BY <1>2 DEF PlugIn
<1>3. ASSUME NEW a \in Adapters, NEW monitor \in BOOLEAN, Train(a, monitor) PROVE ArmInv'
  BY <1>3 DEF Train
<1>4. CASE Change \/ Toggle
  BY <1>4 DEF Change, Toggle, ToggleGate
<1>5. CASE UNCHANGED vars
  BY <1>5 DEF vars
<1> QED
  BY <1>1, <1>2, <1>3, <1>4, <1>5 DEF Next

----------------------------------------------------------------------------
(* Iterations                                                               *)

\* The sets of an iteration only change with the adapter and the model.
LEMMA SameSets ==
  UNCHANGED <<own, plugged>> => Own' = Own /\ Live' = Live
BY DEF Own, Live, LayersOf

\* A sample more asks for less.
LEMMA FollowsWithMoreSamples ==
  ASSUME NEW p \in Params, Follows(p), seen \subseteq seen', UNCHANGED <<grad, monitored>>,
         abandoned \subseteq abandoned'
  PROVE  Follows(p)'
BY DEF Follows, AllMasked, NoneMasked, Hot, Cool, ActiveRows, Rows, NumRows

\* The hook, or its absence, gives what the sample of the moment asks for.
LEMMA HookFollows ==
  ASSUME TypeOK, ArmInv, NEW p \in Own, tpc = "backward", machine \in seen, ~HookRaises(p)
  PROVE  /\ AllMasked => HookedGradient(p) = ActiveRows(p)
         /\ NoneMasked(p) => HookedGradient(p) = Rows(p)
<1>1. p[1] \in LayersOf(own)
  BY DEF Own
<1>2. monitored => p[1] \in hooked
  BY <1>1 DEF ArmInv
<1>3. ~monitored /\ p[1] \notin abandoned => p[1] \notin hooked
  BY DEF ArmInv, GatesEndWithTraining
<1>4. (\A t \in seen : Hot(t)) => IsThrottling
  BY DEF Hot, IsThrottling
<1>5. (\A t \in seen : Cool(t)) => ~IsThrottling
  BY DEF Cool, IsThrottling, TypeOK, LayerTypeOK
<1> QED
  BY <1>2, <1>3, <1>4, <1>5 DEF HookedGradient, AllMasked, NoneMasked

\* A pass begins without gradients of the adapter and takes each in once; the step
\* goes through those it has taken in.
LEMMA PassStep == TrainInv /\ [Next]_vars => PassInv'
<1> SUFFICES ASSUME TrainInv, [Next]_vars PROVE PassInv'
  OBVIOUS
<1> USE DEF TrainInv
<1>1. ASSUME TrainStep, tpc' \in {"optimizer", "forward", "finally", "idle"} PROVE PassInv'
  BY <1>1 DEF PassInv, InPass
<1>2. CASE ForwardPass /\ tpc' = "backward"
  <2>1. Own' = Own /\ Live' = Live
    BY <1>2, SameSets DEF ForwardPass, TrainingSame
  <2>2. machine' \in seen'
    BY <1>2 DEF ForwardPass, TrainingSame
  <2>3. Own \cap stale' = {} /\ \A p \in Own : grad'[p] = {}
    <3>1. Own \subseteq Params
      BY LayersAreLayers
    <3> QED
      BY <1>2, <3>1 DEF ForwardPass, Own, TypeOK
  <2>4. todo' \subseteq ParamsOf(Live)
    BY <1>2 DEF ForwardPass
  <2> QED
    BY <1>2, <2>1, <2>2, <2>3, <2>4 DEF PassInv, InPass
<1>3. ASSUME NEW p \in Params, Backward(p) PROVE PassInv'
  <2>1. Own' = Own /\ Live' = Live
    BY <1>3, SameSets DEF Backward, TrainingSame
  <2>2. p \in Own => grad[p] = {} /\ p[1] \in Live
    <3>1. tpc = "backward" /\ p \in todo
      BY <1>3 DEF Backward, Reached
    <3>2. todo \subseteq ParamsOf(Live) /\ \A q \in todo \cap Own : grad[q] = {}
      BY <3>1 DEF PassInv
    <3> QED
      BY <3>1, <3>2
  <2>3. machine \in seen /\ ~HookRaises(p) /\ tpc = "backward" /\ tpc' = "backward"
    BY <1>3 DEF Backward, PassInv, InPass
  <2>4. /\ grad' = [grad EXCEPT ![p] = @ \cup HookedGradient(p)]
        /\ UNCHANGED <<machine, seen, monitored, abandoned, hooked>>
    BY <1>3 DEF Backward, TrainingSame
  <2>5. Own \subseteq Params /\ grad \in [Params -> SUBSET Nat]
    BY LayersAreLayers DEF TypeOK, LayerTypeOK
  <2>6. ASSUME NEW q \in Own, grad'[q] # {} PROVE q[1] \in Live /\ Follows(q)'
    <3>1. CASE q = p
      <4>1. grad'[p] = HookedGradient(p)
        BY <2>2, <2>4, <2>5, <3>1
      <4>2. /\ AllMasked => grad'[p] = ActiveRows(p)
            /\ NoneMasked(p) => grad'[p] = Rows(p)
        BY <2>3, <3>1, <4>1, HookFollows
      <4> QED
        BY <2>2, <2>4, <3>1, <4>2 DEF Follows, AllMasked, NoneMasked, Hot, Cool, ActiveRows, Rows, NumRows
    <3>2. CASE q # p
      <4>1. grad'[q] = grad[q]
        BY <2>4, <2>5, <3>2
      <4>2. q[1] \in Live /\ Follows(q)
        BY <2>3, <2>6, <4>1 DEF PassInv, InPass
      <4> QED
        BY <2>4, <4>1, <4>2 DEF Follows, AllMasked, NoneMasked, Hot, Cool, ActiveRows, Rows, NumRows
    <3> QED
      BY <3>1, <3>2
  <2>7. Own \cap stale' = {}
    BY <1>3, <2>2, <2>3 DEF Backward, PassInv, InPass
  <2>8. todo' = todo \ {p}
    BY <1>3 DEF Backward
  <2>9. \A q \in todo' \cap Own : grad'[q] = {}
    BY <2>3, <2>4, <2>5, <2>8 DEF PassInv
  <2>10. todo' \subseteq ParamsOf(Live)
    BY <2>3, <2>8 DEF PassInv
  <2> QED
    BY <2>1, <2>3, <2>4, <2>6, <2>7, <2>9, <2>10 DEF PassInv, InPass
<1>4. CASE EndBackward
  <2>1. Own' = Own /\ Live' = Live
    BY <1>4, SameSets DEF EndBackward, TrainingSame
  <2>2. /\ tpc = "backward" /\ tpc' = "step"
        /\ todo' = {p \in Own : grad[p] # {}}
        /\ UNCHANGED <<machine, seen, monitored, abandoned, grad, stale>>
    BY <1>4 DEF EndBackward, TrainingSame, Own, hookVars
  <2>3. \A p \in Own : Follows(p) => Follows(p)'
    BY <2>2, LayersAreLayers, FollowsWithMoreSamples
  <2> QED
    BY <2>1, <2>2, <2>3 DEF PassInv, InPass
<1>5. ASSUME NEW p \in Params, Step(p) PROVE PassInv'
  <2>1. Own' = Own /\ Live' = Live
    BY <1>5, SameSets DEF Step
  <2>2. /\ tpc = "step" /\ tpc' = "step"
        /\ todo' = todo \ {p}
        /\ UNCHANGED <<machine, seen, monitored, abandoned, grad, stale>>
    BY <1>5 DEF Step
  <2>3. \A q \in Own : Follows(q) => Follows(q)'
    BY <2>2, LayersAreLayers, FollowsWithMoreSamples
  <2> QED
    BY <2>1, <2>2, <2>3 DEF PassInv, InPass
<1>6. ASSUME NEW a \in Adapters, PlugIn(a) \/ \E monitor \in BOOLEAN : Train(a, monitor)
      PROVE  PassInv'
  BY <1>6 DEF PlugIn, Train, PassInv, InPass
<1>7. CASE Change
  <2>1. Own' = Own /\ Live' = Live
    BY <1>7, SameSets DEF Change
  <2>2. /\ UNCHANGED <<tpc, todo, monitored, abandoned, grad, stale>>
        /\ seen \subseteq seen'
        /\ InPass => machine' \in seen'
    BY <1>7 DEF Change, InPass
  <2>3. \A q \in Own : Follows(q) => Follows(q)'
    BY <2>2, LayersAreLayers, FollowsWithMoreSamples
  <2> QED
    BY <2>1, <2>2, <2>3 DEF PassInv, InPass
<1>8. CASE Toggle \/ UNCHANGED vars
  <2>1. UNCHANGED <<plugged, own, tpc, todo, monitored, abandoned, grad, stale, machine, seen>>
    BY <1>8 DEF Toggle, ToggleGate, vars
  <2>2. Own' = Own /\ Live' = Live
    BY <2>1, SameSets
  <2>3. \A q \in Own : Follows(q) => Follows(q)'
    BY <2>1, LayersAreLayers, FollowsWithMoreSamples
  <2> QED
    BY <2>1, <2>2, <2>3 DEF PassInv, InPass
<1>9. TrainStep => \/ tpc' \in {"optimizer", "forward", "finally", "idle"}
                   \/ ForwardPass /\ tpc' = "backward"
                   \/ \E p \in Params : Backward(p) \/ Step(p)
                   \/ EndBackward
  BY DEF TrainStep, Arm, MakeOptimizer, OptimizerRaises, ForwardPass, EndLoop, BackwardRaises,
         StepRaises, EndStep, Finally
<1> QED
  BY <1>1, <1>2, <1>3, <1>4, <1>5, <1>6, <1>7, <1>8, <1>9 DEF Next

----------------------------------------------------------------------------
(* Updates                                                                  *)

\* Every step that leaves the optimizer alone, and takes no iteration in, keeps what its
\* averages are of.
LEMMA UpdateUnchanged ==
  ASSUME UpdateInv, UNCHANGED <<own, momentum, wasCool, monitored, grad>>, seen \subseteq seen',
         tpc' \notin {"forward", "backward", "step"} \/ UNCHANGED <<tpc, todo>>
  PROVE  UpdateInv'
BY DEF UpdateInv, Own, LayersOf, AllMasked, Hot, ActiveRows, Rows, NumRows

\* The optimizer begins with no averages.
LEMMA UpdateFresh ==
  ASSUME TypeOK', momentum' = [p \in Params |-> {}], tpc' # "step"
  PROVE  UpdateInv'
<1>1. Own' \subseteq Params
  BY LayersAreLayers DEF Own, TypeOK
<1> QED
  BY <1>1 DEF UpdateInv

\* A step of the optimizer takes in what backward() has left, and the end of an iteration
\* that was not masked all through is noted.
LEMMA UpdateStep == TrainInv /\ TypeOK' /\ [Next]_vars => UpdateInv'
<1> SUFFICES ASSUME TrainInv, TypeOK', [Next]_vars PROVE UpdateInv'
  OBVIOUS
<1> USE DEF TrainInv
<1>1. CASE MakeOptimizer \/ Finally
  BY <1>1, UpdateFresh DEF MakeOptimizer, Finally
<1>2. CASE Arm \/ OptimizerRaises \/ EndLoop
  BY <1>2, UpdateUnchanged DEF Arm, OptimizerRaises, EndLoop, TrainingSame
<1>3. CASE StepRaises \/ \E p \in Params : BackwardRaises(p)
  BY <1>3 DEF StepRaises, BackwardRaises, TrainingSame, UpdateInv, Own, LayersOf, Rows, NumRows
<1>4. CASE ForwardPass \/ \E p \in Params : Backward(p)
  BY <1>4 DEF ForwardPass, Backward, TrainingSame, UpdateInv, Own, LayersOf, ActiveRows, Rows,
              NumRows
<1>5. CASE EndBackward
  BY <1>5 DEF EndBackward, TrainingSame, UpdateInv, Own, LayersOf, ActiveRows, Rows, NumRows
<1>6. ASSUME NEW p \in Params, Step(p) PROVE UpdateInv'
  <2>1. /\ Own' = Own /\ Own \subseteq Params
        /\ momentum \in [Params -> SUBSET Nat]
    BY <1>6, LayersAreLayers DEF Step, Own, LayersOf, TypeOK
  <2>2. /\ tpc = "step" /\ tpc' = "step" /\ p \in todo /\ todo' = todo \ {p}
        /\ momentum' = [momentum EXCEPT ![p] = @ \cup grad[p]]
        /\ UNCHANGED <<seen, monitored, wasCool, grad, own>>
    BY <1>6 DEF Step
  <2>3. p \in Own => (AllMasked => grad[p] = ActiveRows(p))
    <3>1. p \in todo /\ (p \in Own => grad[p] # {})
      BY <2>2 DEF PassInv
    <3> QED
      BY <2>2, <3>1 DEF PassInv, InPass, Follows
  <2>4. grad[p] \subseteq Rows(p)
    BY DEF TypeOK, LayerTypeOK
  <2>5. SUFFICES ASSUME NEW q \in Params
                 PROVE  /\ momentum'[q] \subseteq Rows(q)
                        /\ q \in Own =>
                             /\ monitored /\ ~wasCool /\ AllMasked =>
                                  momentum'[q] \subseteq ActiveRows(q)
                             /\ q \notin todo' => grad[q] \subseteq momentum'[q]
    BY <2>1, <2>2 DEF UpdateInv, AllMasked, Hot, ActiveRows, Rows, NumRows
  <2>6. CASE q = p
    <3>1. momentum'[p] = momentum[p] \cup grad[p]
      BY <2>1, <2>2
    <3> QED
      BY <2>2, <2>3, <2>4, <2>6, <3>1 DEF UpdateInv
  <2>7. CASE q # p
    <3>1. momentum'[q] = momentum[q] /\ (q \notin todo' => q \notin todo)
      BY <2>1, <2>2, <2>7
    <3> QED
      BY <2>2, <3>1 DEF UpdateInv
  <2> QED
    BY <2>6, <2>7
<1>7. CASE EndStep
  <2>1. /\ tpc = "step" /\ tpc' = "forward"
        /\ monitored' /\ ~wasCool' => monitored /\ ~wasCool /\ AllMasked
        /\ UNCHANGED <<momentum, own>>
    BY <1>7 DEF EndStep, TrainingSame, AllMasked
  <2> QED
    BY <2>1 DEF UpdateInv, Own, LayersOf, ActiveRows, Rows, NumRows
<1>8. ASSUME NEW a \in Adapters, PlugIn(a) PROVE UpdateInv'
  BY <1>8, UpdateUnchanged DEF PlugIn
<1>9. ASSUME NEW a \in Adapters, NEW monitor \in BOOLEAN, Train(a, monitor) PROVE UpdateInv'
  <2>1. tpc' \in {"arm", "optimizer"} /\ momentum' = momentum /\ tpc = "idle"
    BY <1>9 DEF Train
  <2> QED
    BY <2>1 DEF UpdateInv
<1>10. CASE Change
  BY <1>10, UpdateUnchanged DEF Change
<1>11. CASE Toggle \/ UNCHANGED vars
  BY <1>11, UpdateUnchanged DEF Toggle, ToggleGate, vars
<1> QED
  BY <1>1, <1>2, <1>3, <1>4, <1>5, <1>6, <1>7, <1>8, <1>9, <1>10, <1>11 DEF Next, TrainStep

----------------------------------------------------------------------------
(* The theorems                                                             *)

\* The invariant of trainings holds at first.
LEMMA TrainInvAtFirst == Init => TrainInv
<1>1. Init => TypeOK
  BY TypesAtFirst
<1>2. Init => ArmInv /\ PassInv
  BY DEF Init, LayerInit, ArmInv, PassInv, InPass, GatesEndWithTraining
<1>3. Init => UpdateInv
  <2>1. Init => Own \subseteq Params
    BY LayersAreLayers DEF Init, Own
  <2> QED
    BY <2>1 DEF Init, UpdateInv
<1> QED
  BY <1>1, <1>2, <1>3 DEF TrainInv

\* The gradients that a pass has taken in, and the averages, are what it asked for.
LEMMA FollowingIsInvariant == TrainInv => StepsFollowTheTemperature
<1> SUFFICES ASSUME TrainInv, NEW p \in Own, tpc = "step", grad[p] # {}
             PROVE  /\ AllMasked => grad[p] = ActiveRows(p)
                    /\ NoneMasked(p) => grad[p] = Rows(p)
                    /\ p \notin todo /\ AllMasked /\ ~wasCool => momentum[p] = ActiveRows(p)
                    /\ p \notin todo /\ NoneMasked(p) => momentum[p] = Rows(p)
  BY DEF StepsFollowTheTemperature
<1>1. Follows(p)
  BY DEF TrainInv, PassInv, InPass
<1>2. /\ p \notin todo => grad[p] \subseteq momentum[p]
      /\ AllMasked /\ ~wasCool => momentum[p] \subseteq ActiveRows(p)
      /\ momentum[p] \subseteq Rows(p)
  BY LayersAreLayers DEF TrainInv, UpdateInv, AllMasked
<1> QED
  BY <1>1, <1>2 DEF Follows

\* The invariant of trainings: types, gates, the iteration under way, and the updates.
THEOREM TrainInvariant == Spec => []TrainInv
<1>1. TrainInv /\ [Next]_vars => TrainInv'
  BY TypeStep, ArmStep, PassStep, UpdateStep DEF TrainInv
<1> QED
  BY <1>1, TrainInvAtFirst, PTL DEF Spec

\* No gradient has a row that its matrix has not, nor has an optimizer's list a
\* parameter that is none.
THEOREM TypeCorrect == Spec => []TypeOK
<1>1. TrainInv => TypeOK
  BY DEF TrainInv
<1> QED
  BY <1>1, TrainInvariant, PTL

\* Adam only applies gradients of the pass that has just ended.
THEOREM GradientsAreFresh == Spec => []StepsUseFreshGradients
<1>1. TrainInv => StepsUseFreshGradients
  BY DEF TrainInv, PassInv, InPass, StepsUseFreshGradients
<1> QED
  BY <1>1, TrainInvariant, PTL

\* A steadily hot iteration gives Adam the gradient of the active rows, a steadily cool
\* one that of all rows; the rows that move are these, but for what the averages of cool
\* iterations before still move.
THEOREM UpdatesFollowTheTemperature == Spec => []StepsFollowTheTemperature
BY TrainInvariant, FollowingIsInvariant, PTL

\* Gates end with their training, but for those a call leaves before its try.
THEOREM GatesAreTakenBack == Spec => []GatesEndWithTraining
<1>1. TrainInv => GatesEndWithTraining
  BY DEF TrainInv, ArmInv
<1> QED
  BY <1>1, TrainInvariant, PTL

\* A training changes no matrix but those of its own layers that are live.
THEOREM OthersStayAsTheyAre == Spec => OnlyOwnLiveLayersLearn
<1>1. TrainInv /\ [Next]_vars =>
        [\A p \in Params : version'[p] # version[p] => p \in Own /\ p[1] \in Live]_vars
  <2> SUFFICES ASSUME TrainInv, Next, NEW p \in Params, version'[p] # version[p]
               PROVE  p \in Own /\ p[1] \in Live
    BY DEF vars
  <2>1. PICK q \in Params : Step(q)
    BY DEF Next, PlugIn, Train, TrainStep, TrainingSame, Arm, MakeOptimizer, OptimizerRaises,
           ForwardPass, EndLoop, Backward, BackwardRaises, EndBackward, StepRaises, EndStep,
           Finally, Change, Toggle, ToggleGate
  <2>2. q = p
    BY <2>1 DEF Step, WriteMatrix, TrainInv, TypeOK, LayerTypeOK
  <2> QED
    BY <2>1, <2>2 DEF Step, TrainInv, PassInv, InPass
<1> QED
  BY <1>1, TrainInvariant, PTL DEF Spec, OnlyOwnLiveLayersLearn

\* A throttled update is spread over the matrix: of any Stride rows in a row exactly one
\* is updated, every one of them if freeze_ratio is above two thirds (plugin_layer.py:161-165;
\* "every Nth row stays active, where N = round(1 / monitor.freeze_ratio)").
THEOREM ActiveRowsAreSpread ==
  \A p \in Params :
    /\ \A first \in Nat : first..first + Stride - 1 \subseteq Rows(p) =>
         \E row \in first..first + Stride - 1 :
           ActiveRows(p) \cap (first..first + Stride - 1) = {row}
    /\ 3 * RatioNumerator > 2 * RatioDenominator => ActiveRows(p) = Rows(p)
<1> SUFFICES ASSUME NEW p \in Params
             PROVE  /\ \A first \in Nat : first..first + Stride - 1 \subseteq Rows(p) =>
                         \E row \in first..first + Stride - 1 :
                           ActiveRows(p) \cap (first..first + Stride - 1) = {row}
                    /\ 3 * RatioNumerator > 2 * RatioDenominator => ActiveRows(p) = Rows(p)
  OBVIOUS
<1> DEFINE k == Stride
<1>1. k \in Nat \ {0} /\ k = Round(RatioDenominator, RatioNumerator)
  BY StrideIsRounded
<1>2. ASSUME NEW first \in Nat, first..first + k - 1 \subseteq Rows(p)
      PROVE  \E row \in first..first + k - 1 :
               ActiveRows(p) \cap (first..first + k - 1) = {row}
  <2>1. ActiveRows(p) \cap (first..first + k - 1) = {row \in first..first + k - 1 : row % k = 0}
    BY <1>2 DEF ActiveRows
  <2> HIDE DEF k
  <2>2. PICK row \in first..first + k - 1 :
          /\ row % k = 0
          /\ \A other \in first..first + k - 1 : other % k = 0 => other = row
    BY <1>1, OnePerStride
  <2>3. {other \in first..first + k - 1 : other % k = 0} = {row}
    BY <2>2
  <2> QED
    BY <2>1, <2>3
<1>3. ASSUME 3 * RatioNumerator > 2 * RatioDenominator PROVE ActiveRows(p) = Rows(p)
  <2>1. 2 * (RatioNumerator * k) <= 2 * RatioDenominator + RatioNumerator
    BY <1>1, RoundIsNearest
  <2> HIDE DEF k
  <2>2. k = 1
    <3> SUFFICES ASSUME k >= 2 PROVE FALSE
      BY <1>1
    <3>1. RatioNumerator * k >= RatioNumerator * 2
      BY <1>1
    <3> QED
      BY <1>1, <1>3, <2>1, <3>1
  <2>3. \A row \in Rows(p) : row % 1 = 0
    BY RowsAreNumbers
  <2> QED
    BY <2>2, <2>3 DEF ActiveRows, k
<1> QED
  BY <1>2, <1>3

\* What backward() comes to gets a gradient with rows in it, however hot the machine: the
\* optimizer passes over no matrix because of the mask (plugin_layer.py:176-182).
THEOREM NoMatrixFreezesWhole ==
  Spec => [][\A p \in todo \ todo' : tpc = "backward" /\ tpc' = "backward" => grad'[p] # {}]_vars
<1>1. TrainInv /\ [Next]_vars =>
        [\A p \in todo \ todo' : tpc = "backward" /\ tpc' = "backward" => grad'[p] # {}]_vars
  <2> SUFFICES ASSUME TrainInv, Next, NEW p \in todo \ todo', tpc = "backward", tpc' = "backward"
               PROVE  grad'[p] # {}
    BY DEF vars
  <2>1. PICK q \in Params : Backward(q)
    BY DEF Next, PlugIn, Train, TrainStep, TrainingSame, Arm, MakeOptimizer, OptimizerRaises,
           ForwardPass, EndLoop, BackwardRaises, EndBackward, Step, StepRaises, EndStep,
           Finally, Change, Toggle, ToggleGate
  <2>2. q = p /\ p \in Params
    BY <2>1 DEF Backward
  <2>3. grad'[p] = grad[p] \cup HookedGradient(p)
    BY <2>1, <2>2 DEF Backward, TrainInv, TypeOK, LayerTypeOK
  <2> QED
    BY <2>2, <2>3, HookLeavesRows
<1> QED
  BY <1>1, TrainInvariant, PTL DEF Spec

================================================================================
