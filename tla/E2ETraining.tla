------------------------------ MODULE E2ETraining ------------------------------
(****************************************************************************)
(* main() of e2e_training.py: two tasks take turns over one frozen base.    *)
(* An adapter is loaded, trained, saved, evicted for the next one, and      *)
(* reloaded, with the manager, the training and the file that               *)
(* AdapterRegistry, GatedTraining and AdapterFile describe.                 *)
(*                                                                          *)
(* Meanwhile a request-serving loop calls forward_async of the layer that   *)
(* is live and switches its routing gate, which is what forward_async is    *)
(* there for.                                                               *)
(****************************************************************************)
EXTENDS GatedTraining, Sequences

CONSTANTS
  TaskA, TaskB,     \* layers_a, layers_b
  Reloaded,         \* layers_a_reloaded
  None,
  Size,             \* parameter_bytes() of each layer
  Budget            \* memory_budget_bytes

\* attach_adapters, and load_adapter, make a layer of their own for each sublayer.
ASSUME MainAssumption ==
  /\ Adapters = {TaskA, TaskB, Reloaded}
  /\ TaskA # TaskB /\ TaskA # Reloaded /\ TaskB # Reloaded
  /\ LayerAt \in [Adapters -> [Sublayers -> Layers]]
  /\ \A a, b \in Adapters, s, t \in Sublayers :
       LayerAt[a][s] = LayerAt[b][t] => a = b /\ s = t
  /\ None \notin Adapters
  /\ Served = Layers
  /\ Size \in [Layers -> Nat]
  /\ Budget \in Nat \ {0}

VARIABLES
  line,             \* of Program: 1 to its length, and one more at the end
  raised,           \* what ends main(): no, error, assertion
  resident, managed, memory, active,    \* the manager, as AdapterRegistry has it
  saved             \* the matrices in the file; None without one

mainVars == <<line, raised, resident, managed, memory, active, saved>>
allVars == <<vars, mainVars>>

Manager == INSTANCE AdapterRegistry WITH
  AdapterIds <- Adapters, NoAdapter <- None, layersOf <- managed

\* "Budget sized to fit exactly one resident adapter at a time."
ASSUME BudgetAssumption ==
  LET held == [a \in Adapters |-> IF a = TaskA THEN LayersOf(a) ELSE {}]
  IN ~(Manager!BytesWith(held, {TaskA}) + Manager!BytesOf(LayersOf(TaskB)) <= Budget)

\* Mutant: task-a is saved before it has been trained.
SaveFirst ==
  << <<"load", TaskA>>, <<"activate", TaskA>>, <<"plug_in", TaskA>>, <<"save", TaskA>>,
     <<"train", TaskA>>, <<"expect_refusal", TaskB>> >>

TrainTaskA ==
  << <<"load", TaskA>>, <<"activate", TaskA>>, <<"plug_in", TaskA>>, <<"train", TaskA>>,
     <<"expect_refusal", TaskB>>, <<"save", TaskA>> >>

\* Mutant: the next adapter is plugged in only when it is trained.
PlugInLate ==
  << <<"unload", TaskA>>, <<"delete", TaskA>>, <<"load", TaskB>>, <<"activate", TaskB>>,
     <<"plug_in", TaskB>>, <<"train", TaskB>>, <<"fine-tune", TaskB>> >>

TrainTaskB ==
  << <<"unload", TaskA>>, <<"plug_in", TaskB>>, <<"delete", TaskA>>, <<"load", TaskB>>,
     <<"activate", TaskB>>, <<"train", TaskB>>, <<"fine-tune", TaskB>> >>

ServeTaskA ==
  << <<"reload", Reloaded>>, <<"unload", TaskB>>, <<"plug_in", Reloaded>>,
     <<"load", Reloaded>>, <<"activate", Reloaded>>, <<"serve", Reloaded>>,
     <<"rmtree", None>> >>

Program == TrainTaskA \o TrainTaskB \o ServeTaskA

Passed(statement) == \E i \in 1..line - 1 : Program[i] = statement

\* build_frozen_base, attach_adapters twice; the layers of load_adapter come later.
MainInit ==
  /\ Init
  /\ Manager!Init
  /\ line = 1
  /\ raised = "no"
  /\ saved = None

----------------------------------------------------------------------------
(* The statements of main()                                                 *)

At(statement) ==
  /\ raised = "no"
  /\ tpc = "idle"
  /\ line <= Len(Program)
  /\ Program[line] = statement

Pass == line' = line + 1 /\ raised' = raised
Raises(what) == line' = line /\ raised' = what

ManagerSame == UNCHANGED <<resident, managed, memory, active>>

\* The budget or an allocation refuses: AdapterBudgetError.  An exception of the
\* allocator leaves a part.
LoadAdapter(a) ==
  /\ At(<<"load", a>>)
  /\ \/ Manager!Load(a, LayersOf(a)) /\ Pass
     \/ ManagerSame /\ Raises("error")
     \/ Manager!LoadInterrupted(a, LayersOf(a)) /\ Raises("error")
  /\ UNCHANGED <<vars, saved>>

\* try: load_adapter; raise AssertionError; except AdapterBudgetError.
ExpectRefusal(a) ==
  /\ At(<<"expect_refusal", a>>)
  /\ \/ Manager!Load(a, LayersOf(a)) /\ Raises("assertion")
     \/ ManagerSame /\ Pass
     \/ Manager!LoadInterrupted(a, LayersOf(a)) /\ Raises("error")
  /\ UNCHANGED <<vars, saved>>

ActivateAdapter(a) ==
  /\ At(<<"activate", a>>)
  /\ IF a \in resident
       THEN Manager!Activate(a) /\ Pass
       ELSE ManagerSame /\ Raises("error")
  /\ UNCHANGED <<vars, saved>>

\* With its gradient gates.
UnloadAdapter(a) ==
  /\ At(<<"unload", a>>)
  /\ IF a \in resident
       THEN Manager!Unload(a) /\ hooked' = hooked \ managed[a]
       ELSE ManagerSame /\ UNCHANGED hooked
  /\ Pass
  /\ UNCHANGED <<machine, grad, version, gateOn, callVars, plugged, trainVars, stale,
                 abandoned, seen, saved>>

PlugInAdapter(a) == At(<<"plug_in", a>>) /\ PlugIn(a) /\ Pass /\ ManagerSame /\ UNCHANGED saved

TrainAdapter(a) ==
  /\ \/ At(<<"train", a>>) /\ Train(a, FALSE)
     \/ At(<<"fine-tune", a>>) /\ Train(a, TRUE)
  /\ Pass
  /\ ManagerSame
  /\ UNCHANGED saved

SaveAdapter(a) ==
  /\ At(<<"save", a>>)
  /\ \/ saved' = [q \in Sublayers \X Matrices |-> version[<<LayerAt[a][q[1]], q[2]>>]] /\ Pass
     \/ UNCHANGED saved /\ Raises("error")
  /\ ManagerSame
  /\ UNCHANGED vars

\* load_adapter makes the layers and copies what the file has.
ReloadAdapter(a) ==
  /\ At(<<"reload", a>>)
  /\ \/ /\ saved # None
        /\ version' = [p \in Params |->
             IF p[1] \in LayersOf(a)
               THEN saved[<<CHOOSE s \in Sublayers : LayerAt[a][s] = p[1], p[2]>>]
               ELSE version[p]]
        /\ Pass
     \/ UNCHANGED version /\ Raises("error")
  /\ ManagerSame
  /\ UNCHANGED <<machine, hookVars, gateOn, callVars, plugged, trainVars, stale, abandoned,
                 seen, saved>>

\* del layers_a; the forward pass at the end.
OtherStatement ==
  /\ At(<<"delete", TaskA>>) \/ At(<<"serve", Reloaded>>)
  /\ Pass
  /\ ManagerSame
  /\ UNCHANGED <<vars, saved>>

RemoveDir ==
  /\ At(<<"rmtree", None>>)
  /\ saved' = None
  /\ Pass
  /\ ManagerSame
  /\ UNCHANGED vars

\* train_adapter: what it raises ends main().
TrainRaises ==
  \/ OptimizerRaises
  \/ \E p \in Params : BackwardRaises(p)
  \/ ForwardPass /\ tpc' = "finally"
  \/ EndLoop \/ StepRaises

TrainGoesOn ==
  \/ Arm \/ MakeOptimizer \/ EndLoop \/ EndBackward \/ EndStep \/ Finally
  \/ ForwardPass /\ tpc' = "backward"
  \/ \E p \in Params : Backward(p) \/ Step(p)

Training ==
  /\ \/ TrainRaises /\ Raises("error")
     \/ TrainGoesOn /\ UNCHANGED <<line, raised>>
  /\ ManagerSame
  /\ UNCHANGED saved

Main ==
  \/ \E a \in Adapters :
       \/ LoadAdapter(a) \/ ExpectRefusal(a) \/ ActivateAdapter(a) \/ UnloadAdapter(a)
       \/ PlugInAdapter(a) \/ TrainAdapter(a) \/ SaveAdapter(a) \/ ReloadAdapter(a)
  \/ OtherStatement \/ RemoveDir \/ Training

----------------------------------------------------------------------------
(* The serving loop, its worker threads, and the temperature                *)

ServeLive ==
  /\ \E l \in Live : SubmitForward(l) \/ ToggleGate(l)
  /\ UNCHANGED <<plugged, trainVars, stale, abandoned, seen, mainVars>>

Worker ==
  /\ Forward
  /\ UNCHANGED <<plugged, trainVars, stale, abandoned, seen, mainVars>>

MainNext == Main \/ ServeLive \/ Worker \/ (Change /\ UNCHANGED mainVars)

MainSpec == MainInit /\ [][MainNext]_allVars

----------------------------------------------------------------------------
TrainingIsOn == tpc # "idle"
Serving == Passed(<<"activate", Reloaded>>)

\* What is trained, and what is served in the end, is the adapter that the manager
\* has active and has memory for, and no other has its layers in the model; the budget
\* holds one at a time, and the second is refused (e2e_training.py:285-309).
LiveIsManaged ==
  /\ raised # "assertion"
  /\ \A a, b \in resident : a = b
  /\ TrainingIsOn \/ Serving =>
       /\ active \in resident
       /\ Live = LayersOf(active)
       /\ Manager!MemoryFor(active, Live) \subseteq memory
  /\ TrainingIsOn => own = active

\* "Nothing still references layers_a's tensors after this": not the model, nor the
\* manager, nor a gate, nor an optimizer; a call that is under way may
\* (e2e_training.py:317-319).
EvictedIsUnreferenced ==
  Passed(<<"delete", TaskA>>) =>
    LayersOf(TaskA) \cap (Live \cup hooked \cup (UNION {managed[a] : a \in resident})
                          \cup IF TrainingIsOn THEN LayersOf(own) ELSE {}) = {}

\* What is served in the end is what the training of task-a had come to, whatever was
\* trained since (e2e_training.py:332-346).
ReloadedIsTrained ==
  Serving =>
    \A s \in Sublayers, m \in Matrices :
      version[<<LayerAt[Reloaded][s], m>>] = version[<<LayerAt[TaskA][s], m>>]

=============================================================================
