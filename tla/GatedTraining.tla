---------------------------- MODULE GatedTraining ----------------------------
(****************************************************************************)
(* plug_in and train_adapter (e2e_training.py): adapters over one frozen    *)
(* base, trained with Adam, with the layers' gradient gates armed when a    *)
(* monitor is given.                                                        *)
(*                                                                          *)
(* A caller plugs in and trains as it likes.  The temperature changes, and  *)
(* other threads switch routing gates, at any step.                         *)
(****************************************************************************)
EXTENDS PluginLayer

CONSTANTS
  Adapters,         \* dicts of layers
  Sublayers,        \* of the base: what layers replace
  LayerAt,          \* the layer of each adapter at each sublayer, or Base
  Base              \* the frozen layer itself, or nothing

ASSUME TrainingAssumption ==
  /\ Base \notin Layers
  /\ LayerAt \in [Adapters -> [Sublayers -> Layers \cup {Base}]]

VARIABLES
  plugged,          \* what each sublayer's forward is
  tpc,              \* train_adapter
  own,              \* adapter_layers
  monitored,        \* thermal_monitor is given
  todo,             \* the parameters the present loop has to come to
  momentum,         \* rows that the optimizer's averages may be other than zero for
  wasCool,          \* history: an iteration before, of the training with a monitor that is
                    \* under way, was not hot all through
  stale,            \* history: parameters whose .grad has a part of an earlier pass
  abandoned,        \* history: layers armed in a call that raised before its try
  seen              \* history: the machine's samples in the present iteration

trainVars == <<tpc, own, monitored, todo, momentum, wasCool>>
vars == <<machine, hookVars, version, gateOn, callVars, plugged, trainVars, stale, abandoned,
          seen>>

LayersOf(a) == {LayerAt[a][s] : s \in Sublayers} \ {Base}
ParamsOf(layers) == layers \X Matrices
Live == {plugged[s] : s \in Sublayers} \ {Base}
Hot(t) == t # Broken /\ t > Threshold
Cool(t) == t # Broken /\ t <= Threshold

\* The iteration is masked, or not, from its first hook to its last; but for the gates
\* that a failed call has left.
AllMasked == monitored /\ \A t \in seen : Hot(t)
NoneMasked(p) == (\A t \in seen : Cool(t)) \/ (~monitored /\ p[1] \notin abandoned)

TypeOK ==
  /\ LayerTypeOK
  /\ plugged \in [Sublayers -> Layers \cup {Base}]
  /\ tpc \in {"idle", "arm", "optimizer", "forward", "backward", "step", "finally"}
  /\ own \in Adapters
  /\ monitored \in BOOLEAN
  /\ todo \subseteq Params
  /\ momentum \in [Params -> SUBSET Nat]
  /\ wasCool \in BOOLEAN
  /\ stale \subseteq Params
  /\ abandoned \subseteq Layers
  /\ seen \subseteq Temperatures \cup {Broken}

Init ==
  /\ LayerInit
  /\ plugged = [s \in Sublayers |-> Base]
  /\ tpc = "idle"
  /\ own \in Adapters
  /\ monitored = FALSE
  /\ todo = {}
  /\ momentum = [p \in Params |-> {}]
  /\ wasCool = FALSE
  /\ stale = {}
  /\ abandoned = {}
  /\ seen = {}

----------------------------------------------------------------------------
(* The caller                                                               *)

\* Mutant: a sublayer that is not the base's any more stays.
PlugInOverBase(a) ==
  /\ tpc = "idle"
  /\ plugged' = [s \in Sublayers |->
                   IF plugged[s] = Base THEN LayerAt[a][s] ELSE plugged[s]]
  /\ UNCHANGED <<machine, hookVars, version, gateOn, callVars, trainVars, stale, abandoned,
                 seen>>

\* A sublayer that the adapter does not cover keeps what it has.
PlugIn(a) ==
  /\ tpc = "idle"
  /\ plugged' = [s \in Sublayers |->
                   IF LayerAt[a][s] # Base THEN LayerAt[a][s] ELSE plugged[s]]
  /\ UNCHANGED <<machine, hookVars, version, gateOn, callVars, trainVars, stale, abandoned,
                 seen>>

Train(a, monitor) ==
  /\ tpc = "idle"
  /\ tpc' = IF monitor THEN "arm" ELSE "optimizer"
  /\ own' = a
  /\ monitored' = monitor
  /\ UNCHANGED <<machine, hookVars, version, gateOn, callVars, plugged, todo, momentum,
                 wasCool, stale, abandoned, seen>>

----------------------------------------------------------------------------
(* train_adapter                                                            *)

TrainingSame == UNCHANGED <<machine, version, gateOn, callVars, plugged, own, monitored>>

\* gate_gradients on every layer; hooks that are there already are replaced.
Arm ==
  /\ tpc = "arm"
  /\ tpc' = "optimizer"
  /\ hooked' = hooked \cup LayersOf(own)
  /\ UNCHANGED <<grad, todo, momentum, wasCool, stale, abandoned, seen>>
  /\ TrainingSame

MakeOptimizer ==
  /\ tpc = "optimizer"
  /\ tpc' = "forward"
  /\ momentum' = [p \in Params |-> {}]
  /\ wasCool' = FALSE
  /\ UNCHANGED <<hookVars, todo, stale, abandoned, seen>>
  /\ TrainingSame

\* Adam refuses lr: this is before the try, and the gates stay.
OptimizerRaises ==
  /\ tpc = "optimizer"
  /\ tpc' = "idle"
  /\ abandoned' = IF monitored THEN abandoned \cup LayersOf(own) ELSE abandoned
  /\ UNCHANGED <<hookVars, todo, momentum, wasCool, stale, seen>>
  /\ TrainingSame

\* The loop is through, or forward() or the loss raises.
EndLoop ==
  /\ tpc = "forward"
  /\ tpc' = "finally"
  /\ UNCHANGED <<hookVars, todo, momentum, wasCool, stale, abandoned, seen>>
  /\ TrainingSame

\* Mutant: the gradients stay.
ForwardKeepsGradients ==
  /\ tpc = "forward"
  /\ UNCHANGED <<grad, stale>>
  /\ todo' = ParamsOf(Live \cap gateOn)
  /\ tpc' = IF todo' = {} THEN "finally" ELSE "backward"
  /\ seen' = IF todo' = {} THEN {} ELSE {machine}
  /\ UNCHANGED <<hooked, momentum, wasCool, abandoned>>
  /\ TrainingSame

\* forward() and the loss, zero_grad().  A gate that is off keeps its layer out of the
\* graph; without a layer in it backward() raises.
ForwardPass ==
  /\ tpc = "forward"
  /\ grad' = [p \in Params |-> IF p \in ParamsOf(LayersOf(own)) THEN {} ELSE grad[p]]
  /\ stale' = stale \ ParamsOf(LayersOf(own))
  /\ todo' = ParamsOf(Live \cap gateOn)
  /\ tpc' = IF todo' = {} THEN "finally" ELSE "backward"
  /\ seen' = IF todo' = {} THEN {} ELSE {machine}
  /\ UNCHANGED <<hooked, momentum, wasCool, abandoned>>
  /\ TrainingSame

\* Within a layer autograd comes to B first.
Reached(p) == p \in todo /\ (p[2] = "A" => <<p[1], "B">> \notin todo)

\* backward() comes to a parameter: its hook samples the temperature by itself, and
\* what it returns is added to what .grad holds.
Backward(p) ==
  /\ tpc = "backward"
  /\ Reached(p)
  /\ ~HookRaises(p)
  /\ grad' = [grad EXCEPT ![p] = @ \cup HookedGradient(p)]
  /\ stale' = IF grad[p] # {} THEN stale \cup {p} ELSE stale
  /\ todo' = todo \ {p}
  /\ UNCHANGED <<tpc, hooked, momentum, wasCool, abandoned, seen>>
  /\ TrainingSame

\* Mutant: without try and finally.
BackwardEscapes(p) ==
  /\ tpc = "backward"
  /\ Reached(p)
  /\ HookRaises(p)
  /\ tpc' = "idle"
  /\ todo' = {}
  /\ UNCHANGED <<hookVars, momentum, wasCool, stale, abandoned>>
  /\ seen' = {}
  /\ TrainingSame

\* The reader raises in the hook, and so does backward().
BackwardRaises(p) ==
  /\ tpc = "backward"
  /\ Reached(p)
  /\ HookRaises(p)
  /\ tpc' = "finally"
  /\ todo' = {}
  /\ UNCHANGED <<hookVars, momentum, wasCool, stale, abandoned>>
  /\ seen' = {}
  /\ TrainingSame

\* Mutant: the optimizer has the parameters of every layer that took part.
EndBackwardAll ==
  /\ tpc = "backward"
  /\ todo = {}
  /\ tpc' = "step"
  /\ todo' = {p \in Params : grad[p] # {}}
  /\ UNCHANGED <<hookVars, momentum, wasCool, stale, abandoned, seen>>
  /\ TrainingSame

\* optimizer.step() passes over parameters without a gradient.
EndBackward ==
  /\ tpc = "backward"
  /\ todo = {}
  /\ tpc' = "step"
  /\ todo' = {p \in ParamsOf(LayersOf(own)) : grad[p] # {}}
  /\ UNCHANGED <<hookVars, momentum, wasCool, stale, abandoned, seen>>
  /\ TrainingSame

\* Adam: the averages take in the gradient, and move every row they are not zero for.
Step(p) ==
  /\ tpc = "step"
  /\ p \in todo
  /\ p[2] = "B" => <<p[1], "A">> \notin todo
  /\ momentum' = [momentum EXCEPT ![p] = @ \cup grad[p]]
  /\ WriteMatrix(p)
  /\ todo' = todo \ {p}
  /\ UNCHANGED <<machine, hookVars, gateOn, plugged, tpc, own, monitored, wasCool, stale,
                 abandoned, seen>>

\* step() raises with some parameters written, or loss.item() with all.
StepRaises ==
  /\ tpc = "step"
  /\ tpc' = "finally"
  /\ todo' = {}
  /\ UNCHANGED <<hookVars, momentum, wasCool, stale, abandoned>>
  /\ seen' = {}
  /\ TrainingSame

EndStep ==
  /\ tpc = "step"
  /\ todo = {}
  /\ tpc' = "forward"
  /\ wasCool' = (wasCool \/ (monitored /\ ~AllMasked))
  /\ UNCHANGED <<hookVars, todo, momentum, stale, abandoned>>
  /\ seen' = {}
  /\ TrainingSame

Finally ==
  /\ tpc = "finally"
  /\ tpc' = "idle"
  /\ hooked' = IF monitored THEN hooked \ LayersOf(own) ELSE hooked
  /\ abandoned' = IF monitored THEN abandoned \ LayersOf(own) ELSE abandoned
  /\ momentum' = [p \in Params |-> {}]
  /\ wasCool' = FALSE
  /\ UNCHANGED <<grad, todo, stale, seen>>
  /\ TrainingSame

TrainStep ==
  \/ Arm \/ MakeOptimizer \/ OptimizerRaises \/ ForwardPass \/ EndLoop
  \/ \E p \in Params : Backward(p) \/ BackwardRaises(p) \/ Step(p)
  \/ EndBackward \/ StepRaises \/ EndStep \/ Finally

----------------------------------------------------------------------------
(* The environment                                                          *)

Change ==
  /\ machine' \in (Temperatures \cup {Broken}) \ {machine}
  /\ seen' = IF tpc \in {"backward", "step"} THEN seen \cup {machine'} ELSE seen
  /\ UNCHANGED <<hookVars, version, gateOn, callVars, plugged, trainVars, stale, abandoned>>

Toggle ==
  /\ \E l \in Served : ToggleGate(l)
  /\ UNCHANGED <<plugged, trainVars, stale, abandoned, seen>>

Next ==
  \/ \E a \in Adapters : PlugIn(a) \/ \E monitor \in BOOLEAN : Train(a, monitor)
  \/ TrainStep
  \/ Change
  \/ Toggle

Spec == Init /\ [][Next]_vars

----------------------------------------------------------------------------
Own == ParamsOf(LayersOf(own))

\* What the optimizer applies is the gradient of this iteration: nothing that an
\* aborted pass, or the training of another adapter through the same blocks, has left
\* in .grad is added to it (e2e_training.py:263-269, 271-274).
StepsUseFreshGradients == tpc = "step" => todo \cap stale = {}

\* Although each hook takes a sample of its own: what Adam takes in is the gradient of
\* the active rows only if the iteration is hot all through, and of every row if it is
\* cool all through or has no monitor, unless a failed call has left its gates.  It
\* updates every row then, and only the active ones in a training that has been hot all
\* through so far; after a cool iteration it moves others, too: FrozenRowsStayPut
\* (plugin_layer.py:172-189, thermal.py:71-73, e2e_training.py:263-269).
StepsFollowTheTemperature ==
  \A p \in Own : tpc = "step" /\ grad[p] # {} =>
    /\ AllMasked => grad[p] = ActiveRows(p)
    /\ NoneMasked(p) => grad[p] = Rows(p)
    /\ p \notin todo /\ AllMasked /\ ~wasCool => momentum[p] = ActiveRows(p)
    /\ p \notin todo /\ NoneMasked(p) => momentum[p] = Rows(p)

\* Gates are there while a training with a monitor is, and on its layers, however it
\* ends; but for those of a call that raised before its try (e2e_training.py:248-258,
\* 271-274).
GatesEndWithTraining ==
  hooked \subseteq abandoned \cup
    IF monitored /\ tpc \notin {"idle", "arm"} THEN LayersOf(own) ELSE {}

\* A matrix changes only in a training of its adapter, and only while its layer takes
\* part in the forward pass: other adapters on the same base stay as they are
\* (e2e_training.py:239-246, 257-258).
OnlyOwnLiveLayersLearn ==
  [][\A p \in Params : version'[p] # version[p] => p \in Own /\ p[1] \in Live]_vars

\* An answer of forward_async is of one version of both matrices unless the layer was
\* being written meanwhile, and heeds the gate: it has the adapter's part only if the
\* gate was on at some time since the call, and lacks it only if it was off
\* (plugin_layer.py:117-126, 128-150).
AnswersAreCoherent ==
  /\ call = "adapter" => "on" \in gatesSeen /\ (written \/ got["A"] = got["B"])
  /\ call = "base" => "off" \in gatesSeen

\* "Fraction of gradient rows that should receive an update this step"
\* (thermal.py:65): in an iteration that is hot all through the other rows stay put.
FrozenRowsStayPut ==
  \A p \in Own : tpc = "step" /\ p \notin todo /\ AllMasked =>
    momentum[p] \subseteq ActiveRows(p)

=============================================================================
