---------------------------- MODULE E2ETrainingProofs ----------------------------
(****************************************************************************)
(* What main() keeps in step, for any model, rank, sizes and temperatures,  *)
(* with a failure at any statement and a serving loop beside it.            *)
(****************************************************************************)
EXTENDS E2ETraining, GatedTrainingProofs

----------------------------------------------------------------------------
(* The program                                                              *)

\* Tuples of six and of seven are sequences.
LEMMA Six ==
  ASSUME NEW S, NEW a \in S, NEW b \in S, NEW c \in S, NEW d \in S, NEW e \in S, NEW f \in S
  PROVE  <<a, b, c, d, e, f>> \in Seq(S) /\ Len(<<a, b, c, d, e, f>>) = 6
OBVIOUS

\* The same of seven.
LEMMA Seven ==
  ASSUME NEW S, NEW a \in S, NEW b \in S, NEW c \in S, NEW d \in S, NEW e \in S, NEW f \in S,
         NEW g \in S
  PROVE  <<a, b, c, d, e, f, g>> \in Seq(S) /\ Len(<<a, b, c, d, e, f, g>>) = 7
OBVIOUS

\* Two sequences joined.
LEMMA Joined ==
  ASSUME NEW S, NEW s \in Seq(S), NEW t \in Seq(S)
  PROVE  /\ s \o t \in Seq(S)
         /\ Len(s \o t) = Len(s) + Len(t)
         /\ \A i \in 1..Len(s) : (s \o t)[i] = s[i]
         /\ \A i \in 1..Len(t) : (s \o t)[Len(s) + i] = t[i]
OBVIOUS

USE MainAssumption, LayerAssumption, TrainingAssumption
USE DEF Params, Matrices, ParamsOf, hookVars, callVars, trainVars

Calls == {"load", "activate", "plug_in", "train", "expect_refusal", "save", "unload", "delete",
          "fine-tune", "reload", "serve", "rmtree"}
Statements == Calls \X (Adapters \cup {None})

Is(i, t, a) == Program[i] = <<t, a>>

\* No line has two statements.
LEMMA OneStatement ==
  ASSUME NEW i, NEW t, NEW a, NEW u, NEW b, Is(i, t, a), Is(i, u, b)
  PROVE  t = u /\ a = b
BY DEF Is

\* What main() does, line by line.
LEMMA ProgramIs ==
  /\ Len(Program) = 20
  /\ Is(1, "load", TaskA)
  /\ Is(2, "activate", TaskA)
  /\ Is(3, "plug_in", TaskA)
  /\ Is(4, "train", TaskA)
  /\ Is(5, "expect_refusal", TaskB)
  /\ Is(6, "save", TaskA)
  /\ Is(7, "unload", TaskA)
  /\ Is(8, "plug_in", TaskB)
  /\ Is(9, "delete", TaskA)
  /\ Is(10, "load", TaskB)
  /\ Is(11, "activate", TaskB)
  /\ Is(12, "train", TaskB)
  /\ Is(13, "fine-tune", TaskB)
  /\ Is(14, "reload", Reloaded)
  /\ Is(15, "unload", TaskB)
  /\ Is(16, "plug_in", Reloaded)
  /\ Is(17, "load", Reloaded)
  /\ Is(18, "activate", Reloaded)
  /\ Is(19, "serve", Reloaded)
  /\ Is(20, "rmtree", None)
<1>1. \A s \in Calls, a \in Adapters \cup {None} : <<s, a>> \in Statements
  BY DEF Statements
<1>2. TaskA \in Adapters /\ TaskB \in Adapters /\ Reloaded \in Adapters
  OBVIOUS
<1>3. TrainTaskA \in Seq(Statements) /\ Len(TrainTaskA) = 6
  <2>1. /\ <<"load", TaskA>> \in Statements /\ <<"activate", TaskA>> \in Statements
        /\ <<"plug_in", TaskA>> \in Statements /\ <<"train", TaskA>> \in Statements
        /\ <<"expect_refusal", TaskB>> \in Statements /\ <<"save", TaskA>> \in Statements
    BY <1>1, <1>2 DEF Calls
  <2> QED
    BY ONLY <2>1, Six DEF TrainTaskA
<1>4. TrainTaskB \in Seq(Statements) /\ Len(TrainTaskB) = 7
  <2>1. /\ <<"unload", TaskA>> \in Statements /\ <<"plug_in", TaskB>> \in Statements
        /\ <<"delete", TaskA>> \in Statements /\ <<"load", TaskB>> \in Statements
        /\ <<"activate", TaskB>> \in Statements /\ <<"train", TaskB>> \in Statements
        /\ <<"fine-tune", TaskB>> \in Statements
    BY <1>1, <1>2 DEF Calls
  <2> QED
    BY ONLY <2>1, Seven DEF TrainTaskB
<1>5. ServeTaskA \in Seq(Statements) /\ Len(ServeTaskA) = 7
  <2>1. /\ <<"reload", Reloaded>> \in Statements /\ <<"unload", TaskB>> \in Statements
        /\ <<"plug_in", Reloaded>> \in Statements /\ <<"load", Reloaded>> \in Statements
        /\ <<"activate", Reloaded>> \in Statements /\ <<"serve", Reloaded>> \in Statements
        /\ <<"rmtree", None>> \in Statements
    BY <1>1, <1>2 DEF Calls
  <2> QED
    BY ONLY <2>1, Seven DEF ServeTaskA
<1>6. /\ Len(Program) = 20
      /\ \A i \in 1..6 : Program[i] = TrainTaskA[i]
      /\ \A i \in 1..7 : Program[6 + i] = TrainTaskB[i]
      /\ \A i \in 1..7 : Program[13 + i] = ServeTaskA[i]
  <2> TrainTaskA \in Seq(Statements) /\ TrainTaskB \in Seq(Statements)
      /\ ServeTaskA \in Seq(Statements)
    BY <1>3, <1>4, <1>5
  <2> DEFINE both == TrainTaskA \o TrainTaskB
  <2>2. /\ both \in Seq(Statements)
        /\ Len(both) = Len(TrainTaskA) + Len(TrainTaskB)
        /\ \A i \in 1..Len(TrainTaskA) : both[i] = TrainTaskA[i]
        /\ \A i \in 1..Len(TrainTaskB) : both[Len(TrainTaskA) + i] = TrainTaskB[i]
    BY ONLY TrainTaskA \in Seq(Statements), TrainTaskB \in Seq(Statements), Joined
  <2>3. Len(both) = 13
    BY <1>3, <1>4, <2>2
  <2> both \in Seq(Statements)
    BY <2>2
  <2>4. \A i \in 1..6 : both[i] = TrainTaskA[i]
    BY <1>3, <2>2
  <2>5. \A i \in 1..7 : both[6 + i] = TrainTaskB[i]
    BY <1>3, <1>4, <2>2
  <2>6. Program = both \o ServeTaskA
    BY DEF Program
  <2> HIDE DEF both
  <2>7. /\ Len(Program) = Len(both) + Len(ServeTaskA)
        /\ \A i \in 1..Len(both) : Program[i] = both[i]
        /\ \A i \in 1..Len(ServeTaskA) : Program[Len(both) + i] = ServeTaskA[i]
    BY ONLY both \in Seq(Statements), ServeTaskA \in Seq(Statements), <2>6, Joined
  <2>8. Len(Program) = 20 /\ \A i \in 1..13 : Program[i] = both[i]
    BY <1>5, <2>3, <2>7
  <2>9. \A i \in 1..7 : Program[13 + i] = ServeTaskA[i]
    BY <1>5, <2>3, <2>7
  <2>10. \A i \in 1..6 : Program[i] = TrainTaskA[i]
    BY ONLY <2>4, <2>8
  <2>11. \A i \in 1..7 : Program[6 + i] = TrainTaskB[i]
    BY ONLY <2>5, <2>8
  <2> QED
    BY <2>8, <2>9, <2>10, <2>11
<1>7. /\ TrainTaskA[1] = Program[1] /\ TrainTaskA[2] = Program[2]
      /\ TrainTaskA[3] = Program[3] /\ TrainTaskA[4] = Program[4]
      /\ TrainTaskA[5] = Program[5] /\ TrainTaskA[6] = Program[6]
  BY <1>6
<1>8. /\ TrainTaskB[1] = Program[7] /\ TrainTaskB[2] = Program[8]
      /\ TrainTaskB[3] = Program[9] /\ TrainTaskB[4] = Program[10]
      /\ TrainTaskB[5] = Program[11] /\ TrainTaskB[6] = Program[12]
      /\ TrainTaskB[7] = Program[13]
  BY <1>6
<1>9. /\ ServeTaskA[1] = Program[14] /\ ServeTaskA[2] = Program[15]
      /\ ServeTaskA[3] = Program[16] /\ ServeTaskA[4] = Program[17]
      /\ ServeTaskA[5] = Program[18] /\ ServeTaskA[6] = Program[19]
      /\ ServeTaskA[7] = Program[20]
  BY <1>6
<1>10. /\ Is(1, "load", TaskA)
       /\ Is(2, "activate", TaskA)
       /\ Is(3, "plug_in", TaskA)
       /\ Is(4, "train", TaskA)
       /\ Is(5, "expect_refusal", TaskB)
       /\ Is(6, "save", TaskA)
  BY <1>7 DEF TrainTaskA, Is
<1>11. /\ Is(7, "unload", TaskA)
       /\ Is(8, "plug_in", TaskB)
       /\ Is(9, "delete", TaskA)
       /\ Is(10, "load", TaskB)
       /\ Is(11, "activate", TaskB)
       /\ Is(12, "train", TaskB)
       /\ Is(13, "fine-tune", TaskB)
  BY <1>8 DEF TrainTaskB, Is
<1>12. /\ Is(14, "reload", Reloaded)
       /\ Is(15, "unload", TaskB)
       /\ Is(16, "plug_in", Reloaded)
       /\ Is(17, "load", Reloaded)
       /\ Is(18, "activate", Reloaded)
       /\ Is(19, "serve", Reloaded)
       /\ Is(20, "rmtree", None)
  BY <1>9 DEF ServeTaskA, Is
<1> QED
  BY <1>6, <1>10, <1>11, <1>12

----------------------------------------------------------------------------
(* What main() has come to at each line                                     *)

\* The manager holds one adapter at a time, wholly once its load has passed.
RegistryInv ==
  /\ line \in 1..21
  /\ raised \in {"no", "error"}
  /\ line \in {1, 10, 17} /\ raised = "no" => resident = {}
  /\ line = 1 => resident \subseteq {TaskA}
  /\ line \in 2..7 => resident = {TaskA}
  /\ line \in {8, 9, 16} => resident = {}
  /\ line = 10 => resident \subseteq {TaskB}
  /\ line \in 11..15 => resident = {TaskB}
  /\ line = 17 => resident \subseteq {Reloaded}
  /\ line \in 18..21 => resident = {Reloaded}
  /\ managed = [a \in Adapters |-> IF a \in resident THEN LayersOf(a) ELSE {}]
  /\ line \notin {1, 10, 17} =>
       \A a \in resident : Manager!MemoryFor(a, LayersOf(a)) \subseteq memory
  /\ line \in 3..7 => active = TaskA
  /\ line \in 12..15 => active = TaskB
  /\ line \in 19..21 => active = Reloaded

\* The model has the layers of one adapter, which is the one that is trained.  Only the
\* fine-tuning of task-b arms gates.
PluggedInv ==
  /\ line \in 1..3 => plugged = [s \in Sublayers |-> Base]
  /\ line \in 4..8 => plugged = LayerAt[TaskA]
  /\ line \in 9..16 => plugged = LayerAt[TaskB]
  /\ line \in 17..21 => plugged = LayerAt[Reloaded]

TrainedInv ==
  /\ tpc # "idle" => (line = 5 /\ own = TaskA) \/ (line \in {13, 14} /\ own = TaskB)
  /\ tpc = "step" => todo \subseteq Own
  /\ tpc = "arm" => own = TaskB
  /\ hooked \subseteq LayersOf(TaskB)

\* The file has what task-a's training came to, and so has what was loaded from it.
Matrix(a, s, m) == version[<<LayerAt[a][s], m>>]

FileInv ==
  /\ line \in 7..20 => saved = [q \in Sublayers \X Matrices |-> Matrix(TaskA, q[1], q[2])]
  /\ line \in 15..21 =>
       \A s \in Sublayers, m \in Matrices : Matrix(Reloaded, s, m) = Matrix(TaskA, s, m)

\* A call that is under way goes by a gate that was so since it was submitted, and reads
\* matrices that agree until one of them is written.
CallInv ==
  /\ CallUnderWay => Gate(callLayer) \in gatesSeen
  /\ call \in {"A", "B", "adapter"} => "on" \in gatesSeen
  /\ call = "base" => "off" \in gatesSeen
  /\ CallUnderWay /\ ~written => version[<<callLayer, "A">>] = version[<<callLayer, "B">>]
  /\ call = "B" /\ ~written => got["A"] = version[<<callLayer, "B">>]
  /\ call = "adapter" /\ ~written => got["A"] = got["B"]
  /\ CallUnderWay /\ line \in 1..16 => callLayer \notin LayersOf(Reloaded)

MainInv == TypeOK /\ RegistryInv /\ PluggedInv /\ TrainedInv /\ FileInv /\ CallInv

\* Where main() is when it makes a call.
LEMMA Lines ==
  ASSUME line \in 1..21, NEW a
  PROVE  /\ At(<<"load", a>>) =>
              \/ line = 1 /\ a = TaskA
              \/ line = 10 /\ a = TaskB
              \/ line = 17 /\ a = Reloaded
         /\ At(<<"activate", a>>) =>
              \/ line = 2 /\ a = TaskA
              \/ line = 11 /\ a = TaskB
              \/ line = 18 /\ a = Reloaded
         /\ At(<<"plug_in", a>>) =>
              \/ line = 3 /\ a = TaskA
              \/ line = 8 /\ a = TaskB
              \/ line = 16 /\ a = Reloaded
         /\ At(<<"train", a>>) => (line = 4 /\ a = TaskA) \/ (line = 12 /\ a = TaskB)
         /\ At(<<"fine-tune", a>>) => line = 13 /\ a = TaskB
         /\ At(<<"expect_refusal", a>>) => line = 5 /\ a = TaskB
         /\ At(<<"save", a>>) => line = 6 /\ a = TaskA
         /\ At(<<"unload", a>>) => (line = 7 /\ a = TaskA) \/ (line = 15 /\ a = TaskB)
         /\ At(<<"delete", a>>) => line = 9
         /\ At(<<"reload", a>>) => line = 14 /\ a = Reloaded
         /\ At(<<"serve", a>>) => line = 19
         /\ At(<<"rmtree", a>>) => line = 20
<1>1. ASSUME NEW t, At(<<t, a>>) PROVE line \in 1..20 /\ Is(line, t, a)
  <2>1. Len(Program) = 20
    BY ONLY ProgramIs
  <2> QED
    BY ONLY <1>1, <2>1, line \in 1..21 DEF At, Is
<1>2. \A t, u, b : Is(line, t, a) /\ Is(line, u, b) => t = u /\ a = b
  BY ONLY OneStatement
<1> QED
  BY ONLY <1>1, <1>2, ProgramIs

\* The layers of an adapter are in the model when it is plugged in, and no others.
LEMMA PluggedIsLive ==
  ASSUME NEW a \in Adapters
  PROVE  /\ plugged = LayerAt[a] => Live = LayersOf(a)
         /\ \A b \in Adapters : b # a => LayersOf(a) \cap LayersOf(b) = {}
         /\ LayersOf(a) = {LayerAt[a][s] : s \in Sublayers}
BY DEF Live, LayersOf
----------------------------------------------------------------------------
(* The manager                                                              *)

\* A load, even an interrupted one, adds one adapter with its layers.
LEMMA Admits ==
  ASSUME RegistryInv, NEW a \in Adapters, Manager!Admit(a, LayersOf(a))
  PROVE  /\ resident' = resident \cup {a} /\ active' = active
         /\ managed' = [b \in Adapters |-> IF b \in resident' THEN LayersOf(b) ELSE {}]
<1>1. /\ managed = [b \in Adapters |-> IF b \in resident THEN LayersOf(b) ELSE {}]
      /\ managed' = [managed EXCEPT ![a] = LayersOf(a)]
      /\ resident' = resident \cup {a} /\ active' = active
  BY DEF RegistryInv, Manager!Admit
<1> QED
  BY ONLY <1>1, a \in Adapters

\* An unload takes all of it away.
LEMMA Unloads ==
  ASSUME RegistryInv, NEW a \in Adapters, Manager!Unload(a)
  PROVE  /\ resident' = resident \ {a}
         /\ managed' = [b \in Adapters |-> IF b \in resident' THEN LayersOf(b) ELSE {}]
<1>1. /\ managed = [b \in Adapters |-> IF b \in resident THEN LayersOf(b) ELSE {}]
      /\ managed' = [managed EXCEPT ![a] = {}]
      /\ resident' = resident \ {a}
  BY DEF RegistryInv, Manager!Unload
<1> QED
  BY ONLY <1>1, a \in Adapters

\* The budget has no room for task-b while task-a is resident.
LEMMA Refused ==
  ASSUME RegistryInv, line = 5
  PROVE  ~Manager!Admit(TaskB, LayersOf(TaskB))
<1>1. resident = {TaskA}
  BY DEF RegistryInv
<1>2. managed = [a \in Adapters |-> IF a = TaskA THEN LayersOf(a) ELSE {}]
  BY <1>1 DEF RegistryInv
<1> QED
  BY ONLY <1>1, <1>2, BudgetAssumption DEF Manager!Admit, Manager!ResidentBytes

\* What main() does to the manager, line by line.
LEMMA RegistryStep == RegistryInv /\ [MainNext]_allVars => RegistryInv'
<1> SUFFICES ASSUME RegistryInv, [MainNext]_allVars PROVE RegistryInv'
  OBVIOUS
<1>0. line \in 1..21 /\ LayersOf(TaskA)' = LayersOf(TaskA) /\ LayersOf(TaskB)' = LayersOf(TaskB)
      /\ LayersOf(Reloaded)' = LayersOf(Reloaded)
  BY DEF RegistryInv, LayersOf
<1>1. ASSUME NEW a \in Adapters, LoadAdapter(a) PROVE RegistryInv'
  <2>1. /\ raised = "no"
        /\ \/ line = 1 /\ a = TaskA
           \/ line = 10 /\ a = TaskB
           \/ line = 17 /\ a = Reloaded
    <3>1. At(<<"load", a>>)
      BY <1>1 DEF LoadAdapter
    <3> QED
      BY ONLY <1>0, <3>1, Lines DEF At
  <2>2. CASE Manager!Load(a, LayersOf(a)) /\ Pass
    <3>1. /\ resident' = resident \cup {a} /\ active' = active
          /\ managed' = [b \in Adapters |-> IF b \in resident' THEN LayersOf(b) ELSE {}]
      BY <2>2, Admits DEF Manager!Load
    <3>2. memory' = memory \cup Manager!MemoryFor(a, LayersOf(a))
      BY <2>2 DEF Manager!Load
    <3>3. line' = line + 1 /\ raised' = raised
      BY <2>2 DEF Pass
    <3> QED
      BY <2>1, <3>1, <3>2, <3>3 DEF RegistryInv, LayersOf, Manager!MemoryFor
  <2>3. CASE ManagerSame /\ Raises("error")
    BY <2>1, <2>3 DEF RegistryInv, ManagerSame, Raises, LayersOf, Manager!MemoryFor
  <2>4. CASE Manager!LoadInterrupted(a, LayersOf(a)) /\ Raises("error")
    <3>1. /\ resident' = resident \cup {a} /\ active' = active
          /\ managed' = [b \in Adapters |-> IF b \in resident' THEN LayersOf(b) ELSE {}]
      BY <2>4, Admits DEF Manager!LoadInterrupted
    <3>2. line' = line /\ raised' = "error"
      BY <2>4 DEF Raises
    <3> QED
      BY <2>1, <3>1, <3>2 DEF RegistryInv, LayersOf
  <2> QED
    BY <1>1, <2>2, <2>3, <2>4 DEF LoadAdapter
<1>2. ASSUME NEW a \in Adapters, ExpectRefusal(a) PROVE RegistryInv'
  <2>1. raised = "no" /\ line = 5 /\ a = TaskB
    <3>1. At(<<"expect_refusal", a>>)
      BY <1>2 DEF ExpectRefusal
    <3> QED
      BY ONLY <1>0, <3>1, Lines DEF At
  <2>2. ManagerSame /\ Pass
    BY <1>2, <2>1, Refused DEF ExpectRefusal, Manager!Load, Manager!LoadInterrupted
  <2> QED
    BY <2>1, <2>2 DEF RegistryInv, ManagerSame, Pass, LayersOf, Manager!MemoryFor
<1>3. ASSUME NEW a \in Adapters, ActivateAdapter(a) PROVE RegistryInv'
  <2>1. /\ raised = "no"
        /\ \/ line = 2 /\ a = TaskA
           \/ line = 11 /\ a = TaskB
           \/ line = 18 /\ a = Reloaded
    <3>1. At(<<"activate", a>>)
      BY <1>3 DEF ActivateAdapter
    <3> QED
      BY ONLY <1>0, <3>1, Lines DEF At
  <2>2. Manager!Activate(a) /\ Pass
    BY <1>3, <2>1 DEF ActivateAdapter, RegistryInv
  <2> QED
    BY <2>1, <2>2 DEF RegistryInv, Manager!Activate, Pass, LayersOf, Manager!MemoryFor
<1>4. ASSUME NEW a \in Adapters, UnloadAdapter(a) PROVE RegistryInv'
  <2>1. raised = "no" /\ ((line = 7 /\ a = TaskA) \/ (line = 15 /\ a = TaskB))
    <3>1. At(<<"unload", a>>)
      BY <1>4 DEF UnloadAdapter
    <3> QED
      BY ONLY <1>0, <3>1, Lines DEF At
  <2>2. Manager!Unload(a) /\ Pass
    BY <1>4, <2>1 DEF UnloadAdapter, RegistryInv
  <2>3. /\ resident' = {}
        /\ managed' = [b \in Adapters |-> IF b \in resident' THEN LayersOf(b) ELSE {}]
    BY <2>1, <2>2, Unloads DEF RegistryInv
  <2> QED
    BY <2>1, <2>2, <2>3 DEF RegistryInv, Pass, LayersOf
<1>5. ASSUME NEW a \in Adapters,
             PlugInAdapter(a) \/ TrainAdapter(a) \/ SaveAdapter(a) \/ ReloadAdapter(a)
      PROVE  RegistryInv'
  <2>1. \/ At(<<"plug_in", a>>) \/ At(<<"train", a>>) \/ At(<<"fine-tune", a>>)
        \/ At(<<"save", a>>) \/ At(<<"reload", a>>)
    BY <1>5 DEF PlugInAdapter, TrainAdapter, SaveAdapter, ReloadAdapter
  <2>2. raised = "no" /\ line \in {3, 8, 16, 4, 12, 13, 6, 14}
    BY ONLY <1>0, <2>1, Lines DEF At
  <2>3. ManagerSame /\ (Pass \/ Raises("error"))
    BY <1>5 DEF PlugInAdapter, TrainAdapter, SaveAdapter, ReloadAdapter
  <2> QED
    BY <2>2, <2>3 DEF RegistryInv, ManagerSame, Pass, Raises, LayersOf, Manager!MemoryFor
<1>6. ASSUME OtherStatement \/ RemoveDir PROVE RegistryInv'
  <2>1. At(<<"delete", TaskA>>) \/ At(<<"serve", Reloaded>>) \/ At(<<"rmtree", None>>)
    BY <1>6 DEF OtherStatement, RemoveDir
  <2>2. raised = "no" /\ line \in {9, 19, 20}
    BY ONLY <1>0, <2>1, Lines DEF At
  <2>3. ManagerSame /\ Pass
    BY <1>6 DEF OtherStatement, RemoveDir
  <2> QED
    BY <2>2, <2>3 DEF RegistryInv, ManagerSame, Pass, LayersOf, Manager!MemoryFor
<1>7. CASE Training
  <2>1. ManagerSame /\ line' = line /\ raised' \in {raised, "error"}
    BY <1>7 DEF Training, Raises
  <2> QED
    BY <2>1 DEF RegistryInv, ManagerSame, LayersOf, Manager!MemoryFor
<1>8. CASE ServeLive \/ Worker \/ (Change /\ UNCHANGED mainVars) \/ UNCHANGED allVars
  <2>1. ManagerSame /\ line' = line /\ raised' = raised
    BY <1>8 DEF ServeLive, Worker, mainVars, allVars, ManagerSame
  <2> QED
    BY <2>1 DEF RegistryInv, ManagerSame, LayersOf, Manager!MemoryFor
<1> QED
  BY <1>1, <1>2, <1>3, <1>4, <1>5, <1>6, <1>7, <1>8 DEF MainNext, Main
----------------------------------------------------------------------------
(* Types                                                                    *)

\* A step of main() that is not the training's own is one of the caller's, or leaves
\* the model alone; an unload and a reload are the exceptions.
LEMMA MainTypes == MainInv /\ [MainNext]_allVars => TypeOK'
<1> SUFFICES ASSUME MainInv, [MainNext]_allVars PROVE TypeOK'
  OBVIOUS
<1>0. TypeOK
  BY DEF MainInv
<1>1. ASSUME [Next]_vars PROVE TypeOK'
  BY <1>0, <1>1, TypeStep
<1>2. ASSUME NEW a \in Adapters, UnloadAdapter(a) PROVE TypeOK'
  BY <1>0, <1>2 DEF UnloadAdapter, TypeOK, LayerTypeOK
<1>3. ASSUME NEW a \in Adapters, ReloadAdapter(a) PROVE TypeOK'
  <2>1. line = 14 /\ a = Reloaded
    <3>1. At(<<"reload", a>>) /\ line \in 1..21
      BY <1>3 DEF ReloadAdapter, MainInv, RegistryInv
    <3> QED
      BY ONLY <3>1, Lines
  <2>2. version' \in [Params -> 0..Versions - 1]
    <3>1. CASE UNCHANGED version
      BY <1>0, <3>1 DEF TypeOK, LayerTypeOK
    <3>2. CASE ~UNCHANGED version
      <4>1. version' = [p \in Params |->
              IF p[1] \in LayersOf(a)
                THEN saved[<<CHOOSE s \in Sublayers : LayerAt[a][s] = p[1], p[2]>>]
                ELSE version[p]]
        BY <1>3, <3>2 DEF ReloadAdapter
      <4>2. ASSUME NEW p \in Params, p[1] \in LayersOf(a)
            PROVE  saved[<<CHOOSE s \in Sublayers : LayerAt[a][s] = p[1], p[2]>>]
                     \in 0..Versions - 1
        <5>1. PICK s \in Sublayers : LayerAt[a][s] = p[1]
          BY <4>2 DEF LayersOf
        <5>2. (CHOOSE t \in Sublayers : LayerAt[a][t] = p[1]) \in Sublayers
          BY <5>1
        <5>3. saved = [q \in Sublayers \X Matrices |-> Matrix(TaskA, q[1], q[2])]
          BY <2>1 DEF MainInv, FileInv
        <5>4. PICK c \in Sublayers : c = CHOOSE t \in Sublayers : LayerAt[a][t] = p[1]
          BY <5>2
        <5>5. saved[<<c, p[2]>>] = Matrix(TaskA, c, p[2])
          BY <5>3
        <5> QED
          BY <1>0, <5>4, <5>5 DEF Matrix, TypeOK, LayerTypeOK
      <4> QED
        BY <1>0, <4>1, <4>2 DEF TypeOK, LayerTypeOK
    <3> QED
      BY <3>1, <3>2
  <2> QED
    BY <1>0, <1>3, <2>2 DEF ReloadAdapter, TypeOK, LayerTypeOK
<1>4. CASE ServeLive
  <2>1. PICK l \in Live : SubmitForward(l) \/ ToggleGate(l)
    BY <1>4 DEF ServeLive
  <2>2. l \in Layers
    BY <1>0, LayersAreLayers
  <2>3. CASE SubmitForward(l)
    <3>1. written' \in BOOLEAN
      <4>1. (version[<<l, "A">>] # version[<<l, "B">>]) \in BOOLEAN
        BY Zenon
      <4> QED
        BY ONLY <2>3, <4>1 DEF SubmitForward
    <3>2. gatesSeen' \subseteq {"on", "off"}
      BY <2>3 DEF SubmitForward, Gate
    <3>3. got' \in [Matrices -> 0..Versions - 1]
      BY <2>3 DEF SubmitForward
    <3> QED
      BY <1>0, <1>4, <2>2, <2>3, <3>1, <3>2, <3>3 DEF ServeLive, SubmitForward, TypeOK, LayerTypeOK
  <2>4. CASE ToggleGate(l)
    <3>1. gatesSeen' \subseteq {"on", "off"} /\ gateOn' \subseteq Layers
      BY <1>0, <2>2, <2>4 DEF ToggleGate, Gate, TypeOK, LayerTypeOK
    <3>2. UNCHANGED <<machine, hookVars, version, call, callLayer, got, written>>
      BY <2>4 DEF ToggleGate
    <3> QED
      BY <1>0, <1>4, <3>1, <3>2 DEF ServeLive, TypeOK, LayerTypeOK
  <2> QED
    BY <2>1, <2>3, <2>4
<1>5. CASE Worker
  <2>1. CASE ReadGate
    BY <1>0, <1>5, <2>1 DEF Worker, ReadGate, TypeOK, LayerTypeOK
  <2>2. ASSUME NEW m \in Matrices, ReadMatrix(m) PROVE TypeOK'
    BY <1>0, <1>5, <2>2 DEF Worker, ReadMatrix, TypeOK, LayerTypeOK
  <2> QED
    BY <1>5, <2>1, <2>2 DEF Worker, Forward
<1>6. CASE Training
  BY <1>1, <1>6 DEF Training, TrainRaises, TrainGoesOn, TrainStep, Next
<1>7. ASSUME NEW a \in Adapters,
             \/ LoadAdapter(a) \/ ExpectRefusal(a) \/ ActivateAdapter(a) \/ PlugInAdapter(a)
             \/ TrainAdapter(a) \/ SaveAdapter(a)
      PROVE  TypeOK'
  <2>1. [Next]_vars
    BY <1>7 DEF LoadAdapter, ExpectRefusal, ActivateAdapter, PlugInAdapter, TrainAdapter,
                SaveAdapter, Next
  <2> QED
    BY <1>1, <2>1
<1>8. CASE OtherStatement \/ RemoveDir \/ (Change /\ UNCHANGED mainVars) \/ UNCHANGED allVars
  BY <1>1, <1>8 DEF OtherStatement, RemoveDir, Next, allVars
<1> QED
  BY <1>2, <1>3, <1>4, <1>5, <1>6, <1>7, <1>8 DEF MainNext, Main

----------------------------------------------------------------------------
(* The model, the training and the file                                     *)

\* What is plugged in, line by line.
LEMMA PluggedStep == RegistryInv /\ PluggedInv /\ [MainNext]_allVars => PluggedInv'
<1> SUFFICES ASSUME RegistryInv, PluggedInv, [MainNext]_allVars PROVE PluggedInv'
  OBVIOUS
<1>0. line \in 1..21
  BY DEF RegistryInv
<1>1. ASSUME NEW a \in Adapters, PlugInAdapter(a) PROVE PluggedInv'
  <2>1. \/ line = 3 /\ a = TaskA
        \/ line = 8 /\ a = TaskB
        \/ line = 16 /\ a = Reloaded
    <3>1. At(<<"plug_in", a>>)
      BY <1>1 DEF PlugInAdapter
    <3> QED
      BY ONLY <1>0, <3>1, Lines
  <2>2. plugged' = LayerAt[a]
    <3>1. plugged' = [s \in Sublayers |->
                        IF LayerAt[a][s] # Base THEN LayerAt[a][s] ELSE plugged[s]]
      BY <1>1 DEF PlugInAdapter, PlugIn
    <3> QED
      BY <3>1
  <2>3. line' = line + 1
    BY <1>1 DEF PlugInAdapter, Pass
  <2> QED
    BY <2>1, <2>2, <2>3 DEF PluggedInv
<1>2. ASSUME UNCHANGED plugged,
             line' = line \/ (line' = line + 1 /\ line \in (1..20) \ {3, 8, 16})
      PROVE  PluggedInv'
  BY <1>0, <1>2 DEF PluggedInv
<1>3. ASSUME NEW a \in Adapters,
             \/ LoadAdapter(a) \/ ExpectRefusal(a) \/ ActivateAdapter(a) \/ UnloadAdapter(a)
             \/ TrainAdapter(a) \/ SaveAdapter(a) \/ ReloadAdapter(a)
      PROVE  PluggedInv'
  <2>1. \/ At(<<"load", a>>) \/ At(<<"expect_refusal", a>>) \/ At(<<"activate", a>>)
        \/ At(<<"unload", a>>) \/ At(<<"train", a>>) \/ At(<<"fine-tune", a>>)
        \/ At(<<"save", a>>) \/ At(<<"reload", a>>)
    BY <1>3 DEF LoadAdapter, ExpectRefusal, ActivateAdapter, UnloadAdapter, TrainAdapter,
                SaveAdapter, ReloadAdapter
  <2>2. line \in {1, 10, 17} \/ line \in {5, 2, 11, 18} \/ line \in {7, 15, 4, 12, 13, 6, 14}
    BY ONLY <1>0, <2>1, Lines
  <2>3. UNCHANGED plugged /\ (line' = line \/ line' = line + 1)
    BY <1>3 DEF LoadAdapter, ExpectRefusal, ActivateAdapter, UnloadAdapter, TrainAdapter,
                SaveAdapter, ReloadAdapter, Train, Pass, Raises, vars
  <2> QED
    BY <1>2, <2>2, <2>3
<1>4. ASSUME OtherStatement \/ RemoveDir PROVE PluggedInv'
  <2>1. At(<<"delete", TaskA>>) \/ At(<<"serve", Reloaded>>) \/ At(<<"rmtree", None>>)
    BY <1>4 DEF OtherStatement, RemoveDir
  <2>2. line \in {9, 19, 20}
    BY ONLY <1>0, <2>1, Lines
  <2>3. UNCHANGED plugged /\ line' = line + 1
    BY <1>4 DEF OtherStatement, RemoveDir, Pass, vars
  <2> QED
    BY <1>2, <2>2, <2>3
<1>5. CASE Training
  <2>1. UNCHANGED plugged /\ line' = line
    BY <1>5 DEF Training, Raises, TrainRaises, TrainGoesOn, TrainingSame, OptimizerRaises,
                BackwardRaises, ForwardPass, Arm, MakeOptimizer, EndLoop, EndBackward, StepRaises,
                EndStep, Finally, Backward, Step
  <2> QED
    BY <1>2, <2>1
<1>6. CASE ServeLive \/ Worker \/ (Change /\ UNCHANGED mainVars) \/ UNCHANGED allVars
  <2>1. UNCHANGED plugged /\ line' = line
    BY <1>6 DEF ServeLive, Worker, Change, mainVars, allVars, vars
  <2> QED
    BY <1>2, <2>1
<1> QED
  BY <1>1, <1>3, <1>4, <1>5, <1>6 DEF MainNext, Main

\* A training is of the adapter whose turn it is, and its optimizer has that one's
\* parameters.
LEMMA TrainedStep == RegistryInv /\ TrainedInv /\ [MainNext]_allVars => TrainedInv'
<1> SUFFICES ASSUME RegistryInv, TrainedInv, [MainNext]_allVars PROVE TrainedInv'
  OBVIOUS
<1>0. line \in 1..21
  BY DEF RegistryInv
<1>1. ASSUME NEW a \in Adapters, TrainAdapter(a) PROVE TrainedInv'
  <2>1. (line = 4 /\ a = TaskA) \/ (line = 12 /\ a = TaskB) \/ (line = 13 /\ a = TaskB)
    <3>1. At(<<"train", a>>) \/ At(<<"fine-tune", a>>)
      BY <1>1 DEF TrainAdapter
    <3> QED
      BY ONLY <1>0, <3>1, Lines
  <2>2. own' = a /\ line' = line + 1 /\ tpc' # "step" /\ hooked' = hooked
    BY <1>1 DEF TrainAdapter, Train, Pass
  <2>3. tpc' = "arm" => a = TaskB
    <3>1. tpc' = "arm" => At(<<"fine-tune", a>>)
      BY <1>1 DEF TrainAdapter, Train
    <3> QED
      BY ONLY <1>0, <3>1, Lines
  <2> QED
    BY <2>1, <2>2, <2>3 DEF TrainedInv, LayersOf
<1>2. ASSUME NEW a \in Adapters,
             \/ LoadAdapter(a) \/ ExpectRefusal(a) \/ ActivateAdapter(a) \/ UnloadAdapter(a)
             \/ PlugInAdapter(a) \/ SaveAdapter(a) \/ ReloadAdapter(a)
             \/ OtherStatement \/ RemoveDir
      PROVE  TrainedInv'
  <2>1. tpc' = "idle"
    BY <1>2 DEF LoadAdapter, ExpectRefusal, ActivateAdapter, UnloadAdapter, PlugInAdapter,
                SaveAdapter, ReloadAdapter, OtherStatement, RemoveDir, At, PlugIn, vars
  <2>2. hooked' \subseteq hooked
    BY <1>2 DEF LoadAdapter, ExpectRefusal, ActivateAdapter, UnloadAdapter, PlugInAdapter,
                SaveAdapter, ReloadAdapter, OtherStatement, RemoveDir, PlugIn, vars
  <2> QED
    BY <2>1, <2>2 DEF TrainedInv, LayersOf
<1>3. CASE Training
  <2>1. line' = line /\ own' = own /\ Own' = Own /\ tpc # "idle"
    <3>1. line' = line
      BY <1>3 DEF Training, Raises
    <3>2. TrainStep
      BY <1>3 DEF Training, TrainRaises, TrainGoesOn, TrainStep
    <3>3. own' = own /\ tpc # "idle"
      BY <3>2 DEF TrainStep, TrainingSame, OptimizerRaises, BackwardRaises, ForwardPass, Arm,
                  MakeOptimizer, EndLoop, EndBackward, StepRaises, EndStep, Finally, Backward, Step
    <3> QED
      BY <3>1, <3>3 DEF Own, LayersOf
  <2>2. ASSUME tpc' = "step" PROVE todo' \subseteq Own
    <3>1. CASE EndBackward
      BY <3>1 DEF EndBackward, Own
    <3>2. ASSUME NEW p \in Params, Step(p) PROVE todo' \subseteq Own
      BY <3>2 DEF Step, TrainedInv
    <3>3. EndBackward \/ \E p \in Params : Step(p)
      BY <1>3, <2>2 DEF Training, TrainRaises, TrainGoesOn, OptimizerRaises, BackwardRaises,
                        ForwardPass, Arm, MakeOptimizer, EndLoop, StepRaises, EndStep, Finally,
                        Backward
    <3> QED
      BY <3>1, <3>2, <3>3
  <2>3. hooked' \subseteq LayersOf(TaskB) /\ tpc' # "arm"
    <3>1. TrainStep
      BY <1>3 DEF Training, TrainRaises, TrainGoesOn, TrainStep
    <3>2. CASE Arm
      BY <3>2 DEF Arm, TrainedInv
    <3>3. CASE ~Arm
      <4>1. hooked' \subseteq hooked /\ tpc' # "arm"
        BY <3>1, <3>3 DEF TrainStep, OptimizerRaises, BackwardRaises, ForwardPass, MakeOptimizer,
                          EndLoop, EndBackward, StepRaises, EndStep, Finally, Backward, Step
      <4> QED
        BY <4>1 DEF TrainedInv
    <3> QED
      BY <3>2, <3>3
  <2> QED
    BY <2>1, <2>2, <2>3 DEF TrainedInv, LayersOf
<1>4. CASE ServeLive \/ Worker \/ (Change /\ UNCHANGED mainVars) \/ UNCHANGED allVars
  <2>1. UNCHANGED <<line, own, tpc, todo, Own>>
    BY <1>4 DEF ServeLive, Worker, Change, mainVars, allVars, vars, Own, LayersOf
  <2>2. UNCHANGED hooked
    BY <1>4 DEF ServeLive, SubmitForward, ToggleGate, Worker, Forward, ReadGate, ReadMatrix,
                Change, allVars, vars
  <2> QED
    BY <2>1, <2>2 DEF TrainedInv, LayersOf
<1> QED
  BY <1>1, <1>2, <1>3, <1>4 DEF MainNext, Main

\* What an optimizer writes, and nothing else changes a matrix but a reload.
LEMMA Writes ==
  ASSUME [MainNext]_allVars, \A a \in Adapters : ~ReloadAdapter(a)
  PROVE  UNCHANGED version \/ \E p \in Params : Step(p) /\ Training
<1>1. ASSUME NEW a \in Adapters,
             \/ LoadAdapter(a) \/ ExpectRefusal(a) \/ ActivateAdapter(a) \/ UnloadAdapter(a)
             \/ PlugInAdapter(a) \/ TrainAdapter(a) \/ SaveAdapter(a)
      PROVE  UNCHANGED version
  BY <1>1 DEF LoadAdapter, ExpectRefusal, ActivateAdapter, UnloadAdapter, PlugInAdapter,
              TrainAdapter, SaveAdapter, PlugIn, Train, vars
<1>2. Training => UNCHANGED version \/ \E p \in Params : Step(p) /\ Training
  BY DEF Training, TrainRaises, TrainGoesOn, TrainingSame, OptimizerRaises, BackwardRaises,
         ForwardPass, Arm, MakeOptimizer, EndLoop, EndBackward, StepRaises, EndStep,
         Finally, Backward
<1>3. ServeLive \/ Worker => UNCHANGED version
  BY DEF ServeLive, Worker, SubmitForward, ToggleGate, Forward, ReadGate, ReadMatrix
<1>4. OtherStatement \/ RemoveDir \/ Change \/ UNCHANGED allVars => UNCHANGED version
  BY DEF OtherStatement, RemoveDir, Change, allVars, vars
<1> QED
  BY <1>1, <1>2, <1>3, <1>4 DEF MainNext, Main

\* While the file is there only task-b is trained.
LEMMA FileStep == MainInv /\ [MainNext]_allVars => FileInv'
<1> SUFFICES ASSUME MainInv, [MainNext]_allVars PROVE FileInv'
  OBVIOUS
<1>0. line \in 1..21 /\ FileInv /\ TypeOK
  BY DEF MainInv, RegistryInv
<1>1. \A a \in Adapters, s \in Sublayers, m \in Matrices :
        UNCHANGED version => Matrix(a, s, m)' = Matrix(a, s, m)
  BY DEF Matrix
<1>2. ASSUME NEW a \in Adapters, SaveAdapter(a) PROVE FileInv'
  <2>1. line = 6 /\ a = TaskA
    <3>1. At(<<"save", a>>)
      BY <1>2 DEF SaveAdapter
    <3> QED
      BY ONLY <1>0, <3>1, Lines
  <2>2. \/ line' = 6
        \/ line' = 7 /\ saved' = [q \in Sublayers \X Matrices |-> Matrix(TaskA, q[1], q[2])]
    BY <1>2, <2>1 DEF SaveAdapter, Pass, Raises, Matrix
  <2>3. UNCHANGED version
    BY <1>2 DEF SaveAdapter, vars
  <2> QED
    BY <2>2, <2>3 DEF FileInv, Matrix
<1>3. ASSUME NEW a \in Adapters, ReloadAdapter(a) PROVE FileInv'
  <2>1. line = 14 /\ a = Reloaded
    <3>1. At(<<"reload", a>>)
      BY <1>3 DEF ReloadAdapter
    <3> QED
      BY ONLY <1>0, <3>1, Lines
  <2>2. UNCHANGED saved
    BY <1>3 DEF ReloadAdapter
  <2>3. saved = [q \in Sublayers \X Matrices |-> Matrix(TaskA, q[1], q[2])]
    BY <1>0, <2>1 DEF FileInv
  <2>4. CASE UNCHANGED version /\ Raises("error")
    BY <2>1, <2>2, <2>3, <2>4 DEF FileInv, Raises, Matrix
  <2>5. CASE /\ version' = [p \in Params |->
                  IF p[1] \in LayersOf(a)
                    THEN saved[<<CHOOSE s \in Sublayers : LayerAt[a][s] = p[1], p[2]>>]
                    ELSE version[p]]
             /\ Pass
    <3>1. ASSUME NEW s \in Sublayers, NEW m \in Matrices
          PROVE  Matrix(TaskA, s, m)' = Matrix(TaskA, s, m)
      <4>1. LayerAt[TaskA][s] \in Layers /\ LayerAt[TaskA][s] \notin LayersOf(a)
        BY <2>1 DEF LayersOf
      <4> QED
        BY <2>5, <4>1 DEF Matrix
    <3>2. ASSUME NEW s \in Sublayers, NEW m \in Matrices
          PROVE  Matrix(Reloaded, s, m)' = Matrix(TaskA, s, m)
      <4>1. LayerAt[a][s] \in Layers /\ LayerAt[a][s] \in LayersOf(a)
        BY <2>1 DEF LayersOf
      <4>2. (CHOOSE t \in Sublayers : LayerAt[a][t] = LayerAt[a][s]) = s
        BY <2>1
      <4>3. version'[<<LayerAt[a][s], m>>] = saved[<<s, m>>]
        BY <2>5, <4>1, <4>2
      <4> QED
        BY <2>1, <2>3, <4>3 DEF Matrix
    <3>3. line' = 15
      BY <2>1, <2>5 DEF Pass
    <3> QED
      BY <2>2, <2>3, <3>1, <3>2, <3>3 DEF FileInv
  <2> QED
    BY <1>3, <2>4, <2>5 DEF ReloadAdapter
<1>4. ASSUME NEW p \in Params, Step(p), Training PROVE FileInv'
  <2>1. UNCHANGED <<line, saved>>
    BY <1>4 DEF Training, TrainRaises, OptimizerRaises, BackwardRaises, ForwardPass, EndLoop,
                StepRaises, Step
  <2>2. p \in Own /\ tpc # "idle"
    BY <1>4 DEF Step, MainInv, TrainedInv
  <2>3. CASE line = 5
    BY <2>1, <2>3 DEF FileInv
  <2>4. CASE line \in {13, 14} /\ own = TaskB
    <3>1. p[1] \in LayersOf(TaskB)
      BY <2>2, <2>4 DEF Own
    <3>2. ASSUME NEW s \in Sublayers, NEW m \in Matrices
          PROVE  Matrix(TaskA, s, m)' = Matrix(TaskA, s, m)
      <4>1. LayerAt[TaskA][s] # p[1]
        BY <3>1 DEF LayersOf
      <4>2. version' = [version EXCEPT ![p] = (@ + 1) % Versions]
        BY <1>4 DEF Step, WriteMatrix
      <4> QED
        BY <1>0, <4>1, <4>2 DEF Matrix, TypeOK, LayerTypeOK
    <3> QED
      BY <1>0, <2>1, <2>4, <3>2 DEF FileInv
  <2> QED
    BY <2>2, <2>3, <2>4 DEF MainInv, TrainedInv
<1>5. CASE RemoveDir
  <2>1. line = 20
    <3>1. At(<<"rmtree", None>>)
      BY <1>5 DEF RemoveDir
    <3> QED
      BY ONLY <1>0, <3>1, Lines
  <2> QED
    BY <1>0, <1>5, <2>1 DEF RemoveDir, Pass, FileInv, Matrix, vars
<1>6. ASSUME UNCHANGED <<version, saved>>,
             line' = line \/ (line' = line + 1 /\ line \in (1..20) \ {6, 14})
      PROVE  FileInv'
  BY <1>0, <1>6 DEF FileInv, Matrix
<1>7. ASSUME NEW a \in Adapters,
             \/ LoadAdapter(a) \/ ExpectRefusal(a) \/ ActivateAdapter(a) \/ UnloadAdapter(a)
             \/ TrainAdapter(a) \/ PlugInAdapter(a)
      PROVE  FileInv'
  <2>1. \/ At(<<"load", a>>) \/ At(<<"expect_refusal", a>>) \/ At(<<"activate", a>>)
        \/ At(<<"unload", a>>) \/ At(<<"train", a>>) \/ At(<<"fine-tune", a>>)
        \/ At(<<"plug_in", a>>)
    BY <1>7 DEF LoadAdapter, ExpectRefusal, ActivateAdapter, UnloadAdapter, TrainAdapter,
                PlugInAdapter
  <2>2. line \in {1, 10, 17} \/ line \in {5, 2, 11, 18} \/ line \in {7, 15, 4, 12, 13, 3, 8, 16}
    BY ONLY <1>0, <2>1, Lines
  <2>3. UNCHANGED <<version, saved>> /\ (line' = line \/ line' = line + 1)
    BY <1>7 DEF LoadAdapter, ExpectRefusal, ActivateAdapter, UnloadAdapter, TrainAdapter,
                PlugInAdapter, PlugIn, Train, Pass, Raises, vars
  <2> QED
    BY <1>6, <2>2, <2>3
<1>8. CASE OtherStatement
  <2>1. At(<<"delete", TaskA>>) \/ At(<<"serve", Reloaded>>)
    BY <1>8 DEF OtherStatement
  <2>2. line \in {9, 19}
    BY ONLY <1>0, <2>1, Lines
  <2>3. UNCHANGED <<version, saved>> /\ line' = line + 1
    BY <1>8 DEF OtherStatement, Pass, vars
  <2> QED
    BY <1>6, <2>2, <2>3
<1>9. ASSUME Training \/ ServeLive \/ Worker \/ (Change /\ UNCHANGED mainVars)
             \/ UNCHANGED allVars,
             UNCHANGED version
      PROVE  FileInv'
  <2>1. UNCHANGED saved /\ line' = line
    BY <1>9 DEF Training, Raises, ServeLive, Worker, mainVars, allVars
  <2> QED
    BY <1>6, <1>9, <2>1
<1>10. ASSUME \A a \in Adapters : ~ReloadAdapter(a), Training \/ ServeLive \/ Worker
              \/ (Change /\ UNCHANGED mainVars) \/ UNCHANGED allVars
       PROVE  FileInv'
  BY <1>4, <1>9, <1>10, Writes
<1> QED
  BY <1>2, <1>3, <1>5, <1>7, <1>8, <1>10 DEF MainNext, Main
----------------------------------------------------------------------------
(* Calls of forward_async                                                   *)

\* No layer of the reloaded adapter is in the model before it is plugged in.
LEMMA LiveBeforeReload ==
  ASSUME RegistryInv, PluggedInv, line \in 1..16
  PROVE  Live \cap LayersOf(Reloaded) = {}
<1>1. CASE line \in 1..3
  BY <1>1 DEF PluggedInv, Live
<1>2. CASE line \in 4..8
  BY <1>2, PluggedIsLive DEF PluggedInv
<1>3. CASE line \in 9..16
  BY <1>3, PluggedIsLive DEF PluggedInv
<1> QED
  BY <1>1, <1>2, <1>3

\* An answer heeds a gate of its time and reads one version, or was written to.
LEMMA CallStep == MainInv /\ [MainNext]_allVars => CallInv'
<1> SUFFICES ASSUME MainInv, [MainNext]_allVars PROVE CallInv'
  OBVIOUS
<1>0. /\ line \in 1..21 /\ TypeOK /\ RegistryInv /\ PluggedInv /\ CallInv
      /\ LayersOf(Reloaded)' = LayersOf(Reloaded)
      /\ \A m \in Matrices : <<callLayer, m>> \in Params
      /\ version \in [Params -> 0..Versions - 1] /\ got \in [Matrices -> 0..Versions - 1]
  BY DEF MainInv, RegistryInv, TypeOK, LayerTypeOK, LayersOf
<1>1. ASSUME ServeLive, NEW l \in Live, SubmitForward(l) PROVE CallInv'
  <2>1. gatesSeen' = {Gate(l)}
    BY <1>1 DEF SubmitForward
  <2>2. line' = line /\ (line \in 1..16 => l \notin LayersOf(Reloaded))
    BY <1>0, <1>1, LiveBeforeReload DEF ServeLive, mainVars
  <2>3. /\ callLayer' = l /\ call' = "waiting" /\ UNCHANGED <<gateOn, version>>
        /\ ~written' => version[<<l, "A">>] = version[<<l, "B">>]
    BY <1>1 DEF SubmitForward
  <2> QED
    BY <1>0, <2>1, <2>2, <2>3 DEF CallInv, CallUnderWay, Gate
<1>2. ASSUME ServeLive, NEW l \in Live, ToggleGate(l) PROVE CallInv'
  <2>1. gatesSeen \subseteq gatesSeen'
    BY <1>2 DEF ToggleGate
  <2>2. CallUnderWay => Gate(callLayer)' \in gatesSeen'
    BY <1>0, <1>2 DEF ToggleGate, Gate, CallInv
  <2>3. UNCHANGED <<version, call, callLayer, got, written, line>>
    BY <1>2 DEF ToggleGate, ServeLive, mainVars
  <2>4. CallInv /\ LayersOf(Reloaded)' = LayersOf(Reloaded)
    BY <1>0
  <2> QED
    BY ONLY <2>1, <2>2, <2>3, <2>4 DEF CallInv, CallUnderWay
<1>3. ASSUME Worker, ReadGate PROVE CallInv'
  <2>1. UNCHANGED <<version, gateOn, callLayer, gatesSeen, written, line>>
    BY <1>3 DEF ReadGate, Worker, mainVars
  <2>2. call = "waiting" /\ call' = IF callLayer \in gateOn THEN "A" ELSE "base"
    BY <1>3 DEF ReadGate
  <2> QED
    BY <1>0, <2>1, <2>2 DEF CallInv, CallUnderWay, Gate
<1>4. ASSUME Worker, NEW m \in Matrices, ReadMatrix(m) PROVE CallInv'
  <2>1. UNCHANGED <<version, gateOn, callLayer, gatesSeen, written, line>>
    BY <1>4 DEF ReadMatrix, Worker, mainVars
  <2>2. /\ call = m /\ call' = IF m = "A" THEN "B" ELSE "adapter"
        /\ got' = [got EXCEPT ![m] = version[<<callLayer, m>>]]
    BY <1>4 DEF ReadMatrix
  <2>3. CASE m = "A"
    <3>1. got'["A"] = version[<<callLayer, "A">>]
      BY <1>0, <2>2, <2>3
    <3> QED
      BY <1>0, <2>1, <2>2, <2>3, <3>1 DEF CallInv, CallUnderWay, Gate
  <2>4. CASE m = "B"
    <3>1. got'["B"] = version[<<callLayer, "B">>] /\ got'["A"] = got["A"]
      BY <1>0, <2>2, <2>4
    <3> QED
      BY <1>0, <2>1, <2>2, <2>4, <3>1 DEF CallInv, CallUnderWay
  <2> QED
    BY <2>3, <2>4
<1>5. ASSUME NEW p \in Params, Step(p), Training PROVE CallInv'
  <2>1. UNCHANGED <<gateOn, call, callLayer, got, gatesSeen>>
    BY <1>5 DEF Step, WriteMatrix
  <2>2. /\ version' = [version EXCEPT ![p] = (@ + 1) % Versions]
        /\ written' = (written \/ (CallUnderWay /\ p[1] = callLayer))
    BY <1>5 DEF Step, WriteMatrix
  <2>3. line' = line
    BY <1>5 DEF Training, Raises
  <2>4. ~written' =>
          /\ ~written
          /\ CallUnderWay => \A m \in Matrices :
                               version'[<<callLayer, m>>] = version[<<callLayer, m>>]
    <3>1. ASSUME ~written' PROVE ~written /\ (CallUnderWay => p[1] # callLayer)
      BY <2>2, <3>1
    <3>2. ASSUME p[1] # callLayer, NEW m \in Matrices
          PROVE  version'[<<callLayer, m>>] = version[<<callLayer, m>>]
      <4>1. <<callLayer, m>> # p
        BY <3>2
      <4> QED
        BY <1>0, <2>2, <4>1
    <3> QED
      BY <3>1, <3>2
  <2> QED
    BY <1>0, <2>1, <2>3, <2>4 DEF CallInv, CallUnderWay, Gate
<1>6. ASSUME NEW a \in Adapters, ReloadAdapter(a) PROVE CallInv'
  <2>1. line = 14 /\ a = Reloaded
    <3>1. At(<<"reload", a>>)
      BY <1>6 DEF ReloadAdapter
    <3> QED
      BY ONLY <1>0, <3>1, Lines
  <2>2. UNCHANGED <<gateOn, callVars>> /\ (line' = line \/ line' = line + 1)
    BY <1>6 DEF ReloadAdapter, Pass, Raises
  <2>3. CallUnderWay => callLayer \notin LayersOf(Reloaded)
    BY <1>0, <2>1 DEF CallInv
  <2>4. CallUnderWay =>
          \A m \in Matrices : version'[<<callLayer, m>>] = version[<<callLayer, m>>]
    <3>1. CASE UNCHANGED version
      BY <3>1
    <3>2. CASE ~UNCHANGED version
      <4>1. version' = [p \in Params |->
              IF p[1] \in LayersOf(a)
                THEN saved[<<CHOOSE s \in Sublayers : LayerAt[a][s] = p[1], p[2]>>]
                ELSE version[p]]
        BY <1>6, <3>2 DEF ReloadAdapter
      <4> QED
        BY <1>0, <2>1, <2>3, <4>1
    <3> QED
      BY <3>1, <3>2
  <2>5. /\ UNCHANGED <<gateOn, call, callLayer, got, gatesSeen, written>>
        /\ line \in 1..16
    BY <2>1, <2>2
  <2>6. CallUnderWay =>
          /\ version'[<<callLayer, "A">>] = version[<<callLayer, "A">>]
          /\ version'[<<callLayer, "B">>] = version[<<callLayer, "B">>]
    BY <2>4
  <2>7. CallInv /\ LayersOf(Reloaded)' = LayersOf(Reloaded)
    BY <1>0
  <2> QED
    BY ONLY <2>5, <2>6, <2>7 DEF CallInv, CallUnderWay, Gate
<1>7. ASSUME UNCHANGED <<gateOn, callVars, version>>, line' = line \/ line' = line + 1
      PROVE  CallInv'
  <2>1. /\ UNCHANGED <<gateOn, call, callLayer, got, gatesSeen, written, version>>
        /\ line' \in 1..16 => line \in 1..16
    BY <1>0, <1>7
  <2>2. CallInv /\ LayersOf(Reloaded)' = LayersOf(Reloaded)
    BY <1>0
  <2> QED
    BY ONLY <2>1, <2>2 DEF CallInv, CallUnderWay, Gate
<1>8. ASSUME NEW a \in Adapters,
             \/ LoadAdapter(a) \/ ExpectRefusal(a) \/ ActivateAdapter(a) \/ UnloadAdapter(a)
             \/ TrainAdapter(a) \/ PlugInAdapter(a) \/ SaveAdapter(a)
      PROVE  CallInv'
  <2>1. UNCHANGED <<gateOn, callVars, version>> /\ (line' = line \/ line' = line + 1)
    BY <1>8 DEF LoadAdapter, ExpectRefusal, ActivateAdapter, UnloadAdapter, TrainAdapter,
                PlugInAdapter, SaveAdapter, PlugIn, Train, Pass, Raises, vars
  <2> QED
    BY <1>7, <2>1
<1>9. CASE Training
  <2>1. TrainStep /\ line' = line
    BY <1>9 DEF Training, TrainRaises, TrainGoesOn, TrainStep, Raises
  <2>2. CASE \E p \in Params : Step(p)
    BY <1>5, <1>9, <2>2
  <2>3. CASE ~\E p \in Params : Step(p)
    <3>1. UNCHANGED <<gateOn, callVars, version>>
      BY <2>1, <2>3 DEF TrainStep, TrainingSame, OptimizerRaises, BackwardRaises, ForwardPass,
                        Arm, MakeOptimizer, EndLoop, EndBackward, StepRaises, EndStep,
                        Finally, Backward
    <3> QED
      BY <1>7, <2>1, <3>1
  <2> QED
    BY <2>2, <2>3
<1>10. CASE \/ OtherStatement \/ RemoveDir \/ (Change /\ UNCHANGED mainVars)
            \/ UNCHANGED allVars
  <2>1. UNCHANGED <<gateOn, callVars, version>> /\ (line' = line \/ line' = line + 1)
    BY <1>10 DEF OtherStatement, RemoveDir, Change, Pass, mainVars, allVars, vars
  <2> QED
    BY <1>7, <2>1
<1> QED
  BY <1>1, <1>2, <1>3, <1>4, <1>6, <1>8, <1>9, <1>10 DEF MainNext, Main, ServeLive, Worker,
                                                         Forward
----------------------------------------------------------------------------
(* The theorems                                                             *)

\* The invariant of main(): the manager, the model, the training, the file and the calls
\* keep in step, line by line.
THEOREM MainInvariant == MainSpec => []MainInv
<1>1. MainInit => MainInv
  <2> SUFFICES ASSUME MainInit PROVE MainInv
    OBVIOUS
  <2>1. TypeOK
    BY TypesAtFirst DEF MainInit
  <2>2. RegistryInv
    BY DEF MainInit, Manager!Init, RegistryInv
  <2>3. PluggedInv /\ TrainedInv /\ FileInv /\ CallInv
    BY DEF MainInit, Init, LayerInit, PluggedInv, TrainedInv, FileInv, CallInv, CallUnderWay
  <2> QED
    BY <2>1, <2>2, <2>3 DEF MainInv
<1>2. MainInv /\ [MainNext]_allVars => MainInv'
  BY MainTypes, RegistryStep, PluggedStep, TrainedStep, FileStep, CallStep DEF MainInv
<1> QED
  BY <1>1, <1>2, PTL DEF MainSpec

\* What main() has passed, it has passed for good.
LEMMA LinesPassed ==
  ASSUME line \in 1..21
  PROVE  /\ Passed(<<"delete", TaskA>>) => line \in 10..21
         /\ Passed(<<"activate", Reloaded>>) => line \in 19..21
<1>1. ASSUME NEW i \in 1..line - 1 PROVE i \in 1..20 /\ i + 1 <= line
  OBVIOUS
<1>2. ASSUME NEW i \in 1..20, Is(i, "delete", TaskA) PROVE i = 9
  <2>1. \A u, b : Is(i, u, b) => "delete" = u /\ TaskA = b
    BY ONLY <1>2, OneStatement
  <2> QED
    BY ONLY <2>1, ProgramIs, i \in 1..20
<1>3. ASSUME NEW i \in 1..20, Is(i, "activate", Reloaded) PROVE i = 18
  <2>1. \A u, b : Is(i, u, b) => "activate" = u /\ Reloaded = b
    BY ONLY <1>3, OneStatement
  <2> QED
    BY ONLY <2>1, ProgramIs, i \in 1..20, MainAssumption
<1> QED
  BY <1>1, <1>2, <1>3 DEF Passed, Is

\* The adapter that is trained, or served in the end, is the active one and resident with
\* memory for all of its layers, which are those in the model; the second load is refused.
THEOREM TheLiveIsManaged == MainSpec => []LiveIsManaged
<1>1. MainInv => LiveIsManaged
  <2> SUFFICES ASSUME MainInv PROVE LiveIsManaged
    OBVIOUS
  <2>1. /\ line \in 1..21 /\ raised # "assertion"
        /\ \A a, b \in resident : a = b
    BY DEF MainInv, RegistryInv
  <2>2. ASSUME NEW a \in Adapters, line \notin {1, 10, 17}, resident = {a}, active = a,
               plugged = LayerAt[a]
        PROVE  /\ active \in resident
               /\ Live = LayersOf(active)
               /\ Manager!MemoryFor(active, Live) \subseteq memory
    <3>1. Live = LayersOf(a)
      BY <2>2, PluggedIsLive
    <3>2. Manager!MemoryFor(a, LayersOf(a)) \subseteq memory
      BY <2>2 DEF MainInv, RegistryInv
    <3> QED
      BY <2>2, <3>1, <3>2
  <2>3. TrainingIsOn => (line = 5 /\ own = TaskA) \/ (line \in {13, 14} /\ own = TaskB)
    BY DEF TrainingIsOn, MainInv, TrainedInv
  <2>4. Serving => line \in 19..21
    BY <2>1, LinesPassed DEF Serving
  <2>5. /\ line = 5 => resident = {TaskA} /\ active = TaskA /\ plugged = LayerAt[TaskA]
        /\ line \in {13, 14} => resident = {TaskB} /\ active = TaskB /\ plugged = LayerAt[TaskB]
        /\ line \in 19..21 =>
             resident = {Reloaded} /\ active = Reloaded /\ plugged = LayerAt[Reloaded]
    BY DEF MainInv, RegistryInv, PluggedInv
  <2>6. TrainingIsOn => own = active
    BY <2>3, <2>5
  <2> QED
    BY <2>1, <2>2, <2>3, <2>4, <2>5, <2>6 DEF LiveIsManaged
<1> QED
  BY <1>1, MainInvariant, PTL

\* Once task-a's layers are dropped, no model, manager, gate or optimizer has them
\* (e2e_training.py:317-319).
THEOREM TheEvictedIsUnreferenced == MainSpec => []EvictedIsUnreferenced
<1>1. MainInv => EvictedIsUnreferenced
  <2> SUFFICES ASSUME MainInv, line \in 10..21
               PROVE  LayersOf(TaskA) \cap (Live \cup hooked
                        \cup (UNION {managed[a] : a \in resident})
                        \cup IF TrainingIsOn THEN LayersOf(own) ELSE {}) = {}
    BY LinesPassed DEF EvictedIsUnreferenced, MainInv, RegistryInv
  <2>1. \A b \in Adapters : b # TaskA => LayersOf(TaskA) \cap LayersOf(b) = {}
    BY PluggedIsLive
  <2>2. Live \in {LayersOf(TaskB), LayersOf(Reloaded)}
    BY PluggedIsLive DEF MainInv, PluggedInv
  <2>3. TrainingIsOn => own = TaskB
    BY DEF TrainingIsOn, MainInv, TrainedInv
  <2>4. \A a \in resident : a \in {TaskB, Reloaded} /\ managed[a] = LayersOf(a)
    BY DEF MainInv, RegistryInv
  <2>5. LayersOf(TaskA) \cap Live = {}
    BY <2>1, <2>2
  <2>6. \A a \in resident : LayersOf(TaskA) \cap managed[a] = {}
    BY <2>1, <2>4
  <2>7. LayersOf(TaskA) \cap (IF TrainingIsOn THEN LayersOf(own) ELSE {}) = {}
    BY <2>1, <2>3
  <2>8. ASSUME NEW x \in LayersOf(TaskA), x \in UNION {managed[a] : a \in resident} PROVE FALSE
    <3>1. PICK a \in resident : x \in managed[a]
      BY ONLY <2>8
    <3> QED
      BY ONLY <2>6, <3>1, x \in LayersOf(TaskA)
  <2>9. LayersOf(TaskA) \cap UNION {managed[a] : a \in resident} = {}
    BY ONLY <2>8
  <2>10. LayersOf(TaskA) \cap hooked = {}
    BY <2>1 DEF MainInv, TrainedInv
  <2>11. \A S, T, U, V, W : S \cap T = {} /\ S \cap U = {} /\ S \cap V = {} /\ S \cap W = {}
                           => S \cap (T \cup U \cup V \cup W) = {}
    OBVIOUS
  <2> QED
    BY ONLY <2>5, <2>7, <2>9, <2>10, <2>11, Zenon
<1> QED
  BY <1>1, MainInvariant, PTL

\* What is served is what the training of task-a came to.
THEOREM TheReloadedIsTrained == MainSpec => []ReloadedIsTrained
<1>1. MainInv => ReloadedIsTrained
  <2> SUFFICES ASSUME MainInv, Serving PROVE ReloadedIsTrained
    BY DEF ReloadedIsTrained
  <2>1. line \in 19..21
    BY LinesPassed DEF Serving, MainInv, RegistryInv
  <2>2. \A s \in Sublayers, m \in Matrices : Matrix(Reloaded, s, m) = Matrix(TaskA, s, m)
    BY <2>1 DEF MainInv, FileInv
  <2> QED
    BY ONLY <2>2 DEF Matrix, Matrices, ReloadedIsTrained
<1> QED
  BY <1>1, MainInvariant, PTL

\* Answers heed the gate and are of one version, or their layer was written meanwhile.
THEOREM TheAnswersAreCoherent == MainSpec => []AnswersAreCoherent
<1>1. MainInv => AnswersAreCoherent
  BY DEF MainInv, CallInv, AnswersAreCoherent
<1> QED
  BY <1>1, MainInvariant, PTL

----------------------------------------------------------------------------
(* The specifications that main() is built on                               *)

\* main() uses the manager as any caller of it may: what AdapterRegistry says of a
\* manager is true of the one in main(), through refused and interrupted loads.
THEOREM MainUsesTheRegistry == MainSpec => Manager!Spec
<1> USE DEF Manager!registryVars
<1>1. MainInit => Manager!Init
  BY DEF MainInit
<1>2. [MainNext]_allVars => [Manager!Next]_(Manager!registryVars)
  <2> SUFFICES ASSUME [MainNext]_allVars PROVE [Manager!Next]_(Manager!registryVars)
    OBVIOUS
  <2>1. ASSUME NEW a \in Adapters,
               Manager!Load(a, LayersOf(a)) \/ Manager!LoadInterrupted(a, LayersOf(a))
        PROVE  Manager!Next
    <3>1. LayersOf(a) \in SUBSET Layers
      BY LayersAreLayers
    <3> QED
      BY <2>1, <3>1 DEF Manager!Next
  <2>2. ASSUME NEW a \in Adapters, LoadAdapter(a) \/ ExpectRefusal(a)
        PROVE  [Manager!Next]_(Manager!registryVars)
    BY <2>1, <2>2 DEF LoadAdapter, ExpectRefusal, ManagerSame
  <2>3. ASSUME NEW a \in Adapters, ActivateAdapter(a) \/ UnloadAdapter(a)
        PROVE  [Manager!Next]_(Manager!registryVars)
    BY <2>3 DEF ActivateAdapter, UnloadAdapter, ManagerSame, Manager!Next
  <2>4. ASSUME NEW a \in Adapters,
               PlugInAdapter(a) \/ TrainAdapter(a) \/ SaveAdapter(a) \/ ReloadAdapter(a)
        PROVE  ManagerSame
    BY <2>4 DEF PlugInAdapter, TrainAdapter, SaveAdapter, ReloadAdapter
  <2>5. OtherStatement \/ RemoveDir \/ Training => ManagerSame
    BY DEF OtherStatement, RemoveDir, Training
  <2>6. ServeLive \/ Worker \/ UNCHANGED mainVars \/ UNCHANGED allVars => ManagerSame
    BY DEF ServeLive, Worker, mainVars, allVars, ManagerSame
  <2> QED
    BY <2>2, <2>3, <2>4, <2>5, <2>6 DEF MainNext, Main, ManagerSame
<1> QED
  BY <1>1, <1>2, PTL DEF MainSpec, Manager!Spec

\* Gates left behind are those of a call that ended main().
AbandonedInv == raised = "no" => abandoned = {}

\* The gates and the iteration do not depend on the weights, nor on calls.
LEMMA TrainingIsLeftAlone ==
  ASSUME TypeOK, ArmInv, PassInv, UpdateInv,
         UNCHANGED <<machine, grad, plugged, trainVars, stale, abandoned, seen>>,
         UNCHANGED hooked \/ (tpc = "idle" /\ hooked' \subseteq hooked)
  PROVE  ArmInv' /\ PassInv' /\ UpdateInv'
<1>1. Own' = Own /\ Live' = Live
  BY SameSets
<1>2. \A p \in Params : Follows(p) => Follows(p)'
  BY FollowsWithMoreSamples
<1>3. Own \subseteq Params
  BY LayersAreLayers DEF Own
<1>4. PassInv'
  BY <1>1, <1>2, <1>3 DEF PassInv, InPass
<1>5. ArmInv'
  BY DEF ArmInv, GatesEndWithTraining, LayersOf
<1>6. UpdateInv'
  BY UpdateUnchanged
<1> QED
  BY <1>4, <1>5, <1>6

\* In main(), too, a training is one of GatedTraining's: an unload and a reload come
\* between trainings, and the serving loop touches neither gates nor gradients.
LEMMA GatedStep ==
  MainInv /\ ArmInv /\ PassInv /\ UpdateInv /\ [MainNext]_allVars =>
    ArmInv' /\ PassInv' /\ UpdateInv'
<1> SUFFICES ASSUME MainInv, ArmInv, PassInv, UpdateInv, [MainNext]_allVars
             PROVE  ArmInv' /\ PassInv' /\ UpdateInv'
  OBVIOUS
<1>1. ASSUME [Next]_vars PROVE ArmInv' /\ PassInv' /\ UpdateInv'
  BY <1>1, ArmStep, PassStep, UpdateStep, TypeStep DEF MainInv, TrainInv
<1>2. ASSUME NEW a \in Adapters, UnloadAdapter(a) PROVE ArmInv' /\ PassInv' /\ UpdateInv'
  <2>1. /\ UNCHANGED <<machine, grad, plugged, trainVars, stale, abandoned, seen>>
        /\ tpc = "idle" /\ hooked' \subseteq hooked
    BY <1>2 DEF UnloadAdapter, At
  <2> QED
    BY <2>1, TrainingIsLeftAlone DEF MainInv
<1>3. ASSUME (\E a \in Adapters : ReloadAdapter(a)) \/ ServeLive \/ Worker
      PROVE  ArmInv' /\ PassInv' /\ UpdateInv'
  <2>1. UNCHANGED <<machine, grad, hooked, plugged, trainVars, stale, abandoned, seen>>
    BY <1>3 DEF ReloadAdapter, ServeLive, SubmitForward, ToggleGate, Worker, Forward, ReadGate,
                ReadMatrix
  <2> QED
    BY <2>1, TrainingIsLeftAlone DEF MainInv
<1>4. CASE Training
  BY <1>1, <1>4 DEF Training, TrainRaises, TrainGoesOn, TrainStep, Next
<1>5. ASSUME NEW a \in Adapters,
             \/ LoadAdapter(a) \/ ExpectRefusal(a) \/ ActivateAdapter(a) \/ PlugInAdapter(a)
             \/ TrainAdapter(a) \/ SaveAdapter(a)
      PROVE  ArmInv' /\ PassInv' /\ UpdateInv'
  <2>1. [Next]_vars
    BY <1>5 DEF LoadAdapter, ExpectRefusal, ActivateAdapter, PlugInAdapter, TrainAdapter,
                SaveAdapter, Next
  <2> QED
    BY <1>1, <2>1
<1>6. CASE OtherStatement \/ RemoveDir \/ (Change /\ UNCHANGED mainVars) \/ UNCHANGED allVars
  BY <1>1, <1>6 DEF OtherStatement, RemoveDir, Next, allVars
<1> QED
  BY <1>2, <1>3, <1>4, <1>5, <1>6 DEF MainNext, Main

\* Only the constructor of an optimizer leaves gates behind, and it ends main().
LEMMA AbandonedStep == AbandonedInv /\ [MainNext]_allVars => AbandonedInv'
<1> SUFFICES ASSUME AbandonedInv, [MainNext]_allVars, raised' = "no" PROVE abandoned' = {}
  BY DEF AbandonedInv
<1>1. CASE Training
  <2>1. TrainGoesOn /\ raised = "no"
    BY <1>1 DEF Training, Raises
  <2>2. abandoned' \subseteq abandoned
    <3>1. ASSUME NEW p \in Params, Backward(p) \/ Step(p) PROVE abandoned' = abandoned
      BY <3>1 DEF Backward, Step
    <3>2. Finally => abandoned' \subseteq abandoned
      BY DEF Finally
    <3>3. Arm \/ MakeOptimizer \/ EndLoop \/ EndBackward \/ StepRaises \/ EndStep
            \/ ForwardPass
            => abandoned' = abandoned
      BY DEF Arm, MakeOptimizer, EndLoop, EndBackward, StepRaises, EndStep, ForwardPass
    <3> QED
      BY <2>1, <3>1, <3>2, <3>3 DEF TrainGoesOn
  <2> QED
    BY <2>1, <2>2 DEF AbandonedInv
<1>2. CASE ~Training
  <2>1. UNCHANGED abandoned
    BY <1>2 DEF MainNext, Main, LoadAdapter, ExpectRefusal, ActivateAdapter, UnloadAdapter,
                PlugInAdapter, PlugIn, TrainAdapter, Train, SaveAdapter, ReloadAdapter,
                OtherStatement, RemoveDir, ServeLive, Worker, Change, allVars, vars
  <2>2. raised = "no"
    BY <1>2 DEF MainNext, Main, LoadAdapter, ExpectRefusal, ActivateAdapter, UnloadAdapter,
                PlugInAdapter, TrainAdapter, SaveAdapter, ReloadAdapter, Pass, Raises,
                OtherStatement, RemoveDir, ServeLive, Worker, mainVars, allVars
  <2> QED
    BY <2>1, <2>2 DEF AbandonedInv
<1> QED
  BY <1>1, <1>2

\* What is proved of trainings by any caller is true of those in main(): optimizers apply
\* gradients of the pass that has just ended, those and the rows that move follow the
\* temperature, and gates end with their training; and unless main() has failed, no gate
\* is left between trainings (e2e_training.py:248-274).
THEOREM MainTrainsAsPromised ==
  MainSpec => [](/\ StepsUseFreshGradients
                 /\ StepsFollowTheTemperature
                 /\ GatesEndWithTraining
                 /\ raised = "no" /\ ~TrainingIsOn => hooked = {})
<1>1. MainInit => ArmInv /\ PassInv /\ UpdateInv /\ AbandonedInv
  BY TrainInvAtFirst DEF MainInit, TrainInv, Init, AbandonedInv
<1>2. MainInv /\ ArmInv /\ PassInv /\ UpdateInv /\ AbandonedInv =>
        /\ StepsUseFreshGradients
        /\ StepsFollowTheTemperature
        /\ GatesEndWithTraining
        /\ raised = "no" /\ ~TrainingIsOn => hooked = {}
  <2> SUFFICES ASSUME MainInv, ArmInv, PassInv, UpdateInv, AbandonedInv
               PROVE  /\ StepsUseFreshGradients
                      /\ StepsFollowTheTemperature
                      /\ GatesEndWithTraining
                      /\ raised = "no" /\ ~TrainingIsOn => hooked = {}
    OBVIOUS
  <2>1. StepsUseFreshGradients
    BY DEF PassInv, InPass, StepsUseFreshGradients
  <2>2. StepsFollowTheTemperature
    BY FollowingIsInvariant DEF MainInv, TrainInv
  <2>3. GatesEndWithTraining
    BY DEF ArmInv
  <2>4. raised = "no" /\ ~TrainingIsOn => hooked = {}
    BY <2>3 DEF GatesEndWithTraining, AbandonedInv, TrainingIsOn
  <2> QED
    BY <2>1, <2>2, <2>3, <2>4
<1> QED
  BY <1>1, <1>2, GatedStep, AbandonedStep, MainInvariant, PTL DEF MainSpec

\* A matrix changes only while its adapter is resident, active and in training, or when it
\* is filled from the file, before the manager has its adapter: whatever main() does with
\* one task, the weights of the other stay (e2e_training.py:303-346).
THEOREM OnlyTheActiveLearns ==
  MainSpec => [][\A p \in Params : version'[p] # version[p] =>
                   \/ TrainingIsOn /\ active \in resident /\ p[1] \in LayersOf(active)
                   \/ Reloaded \notin resident /\ p[1] \in LayersOf(Reloaded)]_allVars
<1>1. MainInv /\ [MainNext]_allVars =>
        [\A p \in Params : version'[p] # version[p] =>
           \/ TrainingIsOn /\ active \in resident /\ p[1] \in LayersOf(active)
           \/ Reloaded \notin resident /\ p[1] \in LayersOf(Reloaded)]_allVars
  <2> SUFFICES ASSUME MainInv, [MainNext]_allVars, NEW p \in Params, version'[p] # version[p]
               PROVE  \/ TrainingIsOn /\ active \in resident /\ p[1] \in LayersOf(active)
                      \/ Reloaded \notin resident /\ p[1] \in LayersOf(Reloaded)
    OBVIOUS
  <2>1. line \in 1..21 /\ version \in [Params -> 0..Versions - 1]
    BY DEF MainInv, RegistryInv, TypeOK, LayerTypeOK
  <2>2. ASSUME NEW a \in Adapters, ReloadAdapter(a)
        PROVE  Reloaded \notin resident /\ p[1] \in LayersOf(Reloaded)
    <3>1. line = 14 /\ a = Reloaded
      <4>1. At(<<"reload", a>>)
        BY <2>2 DEF ReloadAdapter
      <4> QED
        BY ONLY <2>1, <4>1, Lines
    <3>2. resident = {TaskB}
      BY <3>1 DEF MainInv, RegistryInv
    <3>3. p[1] \in LayersOf(a)
      <4>1. version' = [q \in Params |->
              IF q[1] \in LayersOf(a)
                THEN saved[<<CHOOSE s \in Sublayers : LayerAt[a][s] = q[1], q[2]>>]
                ELSE version[q]]
        BY <2>2 DEF ReloadAdapter
      <4>2. version'[p] = IF p[1] \in LayersOf(a)
              THEN saved[<<CHOOSE s \in Sublayers : LayerAt[a][s] = p[1], p[2]>>]
              ELSE version[p]
        BY <4>1, Zenon
      <4> QED
        BY ONLY <4>2, version'[p] # version[p]
    <3> QED
      BY <3>1, <3>2, <3>3
  <2>3. ASSUME NEW q \in Params, Step(q)
        PROVE  TrainingIsOn /\ active \in resident /\ p[1] \in LayersOf(active)
    <3>1. q = p /\ tpc = "step" /\ q \in todo
      BY <2>1, <2>3 DEF Step, WriteMatrix
    <3>2. p \in Own /\ ((line = 5 /\ own = TaskA) \/ (line \in {13, 14} /\ own = TaskB))
      BY <3>1 DEF MainInv, TrainedInv
    <3>3. active = own /\ resident = {own}
      BY <3>2 DEF MainInv, RegistryInv
    <3> QED
      BY <3>1, <3>2, <3>3 DEF Own, TrainingIsOn
  <2> QED
    BY <2>2, <2>3, Writes
<1> QED
  BY <1>1, MainInvariant, PTL DEF MainSpec

================================================================================
