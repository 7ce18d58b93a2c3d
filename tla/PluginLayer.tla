----------------------------- MODULE PluginLayer -----------------------------
(****************************************************************************)
(* StructuralPluginLayer (plugin_layer.py) and ThermalMonitor (thermal.py): *)
(* the gradient hooks with their mask, the routing gate, and forward_async, *)
(* whose worker threads read the matrices while others write them.          *)
(****************************************************************************)
EXTENDS Naturals

CONSTANTS
  Layers,           \* StructuralPluginLayer objects
  Rank,             \* rows of plugin_matrix_A
  OutFeatures,      \* rows of plugin_matrix_B
  RatioNumerator, RatioDenominator,     \* freeze_ratio
  Temperatures,
  Threshold,        \* freeze_threshold_c
  Broken,           \* a sample: the reader raises
  Versions,         \* bound: the updates of a matrix are counted modulo it
  Served            \* bound: the layers whose forward_async and gate are used

Matrices == {"A", "B"}
Params == Layers \X Matrices

ASSUME LayerAssumption ==
  /\ Rank \in Nat \ {0}
  /\ OutFeatures \in Nat \ {0}
  /\ RatioNumerator \in Nat \ {0}
  /\ RatioDenominator \in Nat \ {0}
  /\ RatioNumerator <= RatioDenominator
  /\ Temperatures \subseteq Nat
  /\ Threshold \in Nat
  /\ Broken \notin Nat
  /\ Versions \in Nat \ {0}
  /\ Served \subseteq Layers

VARIABLES
  machine,          \* what the monitor's reader returns now
  hooked,           \* the layers with gradient-gate hooks
  grad,             \* rows of .grad that may be other than zero; {} for None
  version,          \* of each matrix: how often it was written, modulo Versions
  gateOn,           \* the layers with routing_gate_enabled
  call,             \* forward_async: waiting, base, A, B, or how it ended
  callLayer,        \* its layer
  got,              \* the versions of the matrices it has read
  gatesSeen,        \* history: the gate's values since the call was submitted
  written           \* history: a matrix of its layer was written meanwhile

hookVars == <<hooked, grad>>
callVars == <<call, callLayer, got, gatesSeen, written>>

NumRows(p) == IF p[2] = "A" THEN Rank ELSE OutFeatures
Rows(p) == 0..NumRows(p) - 1

\* Python's round(): to the nearest, a half to the even one.
Round(n, d) ==
  LET q == n \div d
      r == 2 * (n % d)
  IN IF r < d \/ (r = d /\ q % 2 = 0) THEN q ELSE q + 1

\* max(1, round(1.0 / freeze_ratio))
Stride == LET n == Round(RatioDenominator, RatioNumerator) IN IF n > 1 THEN n ELSE 1

\* Mutant: rows counted from one.
ActiveRowsFromOne(p) == {row \in 1..NumRows(p) : row % Stride = 0}

\* mask[::stride]
ActiveRows(p) == {row \in Rows(p) : row % Stride = 0}

\* Mutant: at the threshold, too.
IsThrottlingAt == machine >= Threshold

IsThrottling == machine > Threshold

\* The gradient that is added to .grad, out of the layer's hook if it has one.
HookedGradient(p) ==
  IF p[1] \in hooked /\ IsThrottling THEN ActiveRows(p) ELSE Rows(p)

HookRaises(p) == p[1] \in hooked /\ machine = Broken

LayerTypeOK ==
  /\ machine \in Temperatures \cup {Broken}
  /\ hooked \subseteq Layers
  /\ grad \in [Params -> SUBSET Nat]
  /\ \A p \in Params : grad[p] \subseteq Rows(p)
  /\ version \in [Params -> 0..Versions - 1]
  /\ gateOn \subseteq Layers
  /\ call \in {"none", "waiting", "A", "B", "base", "adapter"}
  /\ callLayer \in Served
  /\ got \in [Matrices -> 0..Versions - 1]
  /\ gatesSeen \subseteq {"on", "off"}
  /\ written \in BOOLEAN

LayerInit ==
  /\ machine \in Temperatures
  /\ hooked = {}
  /\ grad = [p \in Params |-> {}]
  /\ version = [p \in Params |-> 0]
  /\ gateOn = Layers
  /\ call = "none"
  /\ callLayer \in Served
  /\ got = [m \in Matrices |-> 0]
  /\ gatesSeen = {}
  /\ written = FALSE

----------------------------------------------------------------------------
(* forward_async: _forward_sync in a worker thread                          *)

CallUnderWay == call \in {"waiting", "A", "B"}

Gate(l) == IF l \in gateOn THEN "on" ELSE "off"

SubmitForward(l) ==
  /\ ~CallUnderWay
  /\ call' = "waiting"
  /\ callLayer' = l
  /\ got' = [m \in Matrices |-> 0]
  /\ gatesSeen' = {Gate(l)}
  /\ written' = (version[<<l, "A">>] # version[<<l, "B">>])
  /\ UNCHANGED <<machine, hookVars, version, gateOn>>

\* Mutant: the base output is returned, or not, before the gate is looked at.
IgnoreGate ==
  /\ call = "waiting"
  /\ call' = "A"
  /\ UNCHANGED <<machine, hookVars, version, gateOn, callLayer, got, gatesSeen, written>>

\* The base layer's output, and the gate.
ReadGate ==
  /\ call = "waiting"
  /\ call' = IF callLayer \in gateOn THEN "A" ELSE "base"
  /\ UNCHANGED <<machine, hookVars, version, gateOn, callLayer, got, gatesSeen, written>>

\* The two products, each with its matrix as it is now.
ReadMatrix(m) ==
  /\ call = m
  /\ call' = IF m = "A" THEN "B" ELSE "adapter"
  /\ got' = [got EXCEPT ![m] = version[<<callLayer, m>>]]
  /\ UNCHANGED <<machine, hookVars, version, gateOn, callLayer, gatesSeen, written>>

Forward == ReadGate \/ \E m \in Matrices : ReadMatrix(m)

\* The caller sets routing_gate_enabled.
ToggleGate(l) ==
  /\ gateOn' = IF l \in gateOn THEN gateOn \ {l} ELSE gateOn \cup {l}
  /\ gatesSeen' = IF CallUnderWay /\ l = callLayer
                    THEN gatesSeen \cup {Gate(l)'} ELSE gatesSeen
  /\ UNCHANGED <<machine, hookVars, version, call, callLayer, got, written>>

\* An optimizer writes a matrix in place.
WriteMatrix(p) ==
  /\ version' = [version EXCEPT ![p] = (@ + 1) % Versions]
  /\ written' = (written \/ (CallUnderWay /\ p[1] = callLayer))
  /\ UNCHANGED <<call, callLayer, got, gatesSeen>>

=============================================================================
