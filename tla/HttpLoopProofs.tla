--------------------------- MODULE HttpLoopProofs ---------------------------
(***************************************************************************)
(* Invariants of HttpLoop for every set of connections and every bound.    *)
(* Kept strengthens both properties: a server is built from a file at      *)
(* least as new as what was promised and as what was asked for in vain;    *)
(* only a waiting message lets a promise get ahead of it, and only a       *)
(* server that is over lets a cut reload.                                  *)
(***************************************************************************)
EXTENDS HttpLoop, TLAPS

Kept ==
    /\ promised <= file.version /\ cut <= file.version
    /\ main = "built" => served >= promised
    /\ main = "serving" => pending \/ served >= promised
    /\ main \in {"built", "serving"} => served >= cut

States == {"closed", "fresh", "idle", "working", "reloading", "replying"}

----------------------------------------------------------------------------
LEMMA InitTyped == Init => TypeOK
<1> SUFFICES ASSUME Init PROVE TypeOK
  OBVIOUS
<1>1. conn \in [Conns -> States] /\ 0 \in 0..MaxVersion /\ 0 \in 0..MaxSignals
  BY BoundAssumption DEF Init, States
<1>2. file \in [version : 0..MaxVersion, good : BOOLEAN]
  BY <1>1 DEF Init
<1> QED BY <1>1, <1>2 DEF Init, TypeOK, Ended, States

LEMMA ConnStepTyped ==
    ASSUME TypeOK, NEW k \in Conns, NEW from, NEW to \in States, ConnStep(k, from, to)
    PROVE  conn' \in [Conns -> States]
BY DEF TypeOK, ConnStep, States

LEMMA LoopTyped == ASSUME TypeOK, Loop PROVE TypeOK'
BY DEF TypeOK, Ended, Loop, Leave, Subscribe, Build, BuildFails, Bind, BindFails,
       TakeReload, TakeSignal, StopServing, Drained, eventVars, history

LEMMA ConnectionTyped ==
    ASSUME TypeOK, NEW k \in Conns, Connection(k)
    PROVE  TypeOK'
<1>1. conn' \in [Conns -> States]
  BY ConnStepTyped DEF Connection, Accept, Request, Work, SendReload, SendPanics,
     Reply, CloseIdle, ClientCloses, States
<1>2. file' \in [version : 0..MaxVersion, good : BOOLEAN]
  <2>1. CASE Work(k)
    <3>1. ASSUME file.version < MaxVersion
          PROVE  [version |-> file.version + 1, good |-> TRUE]
                    \in [version : 0..MaxVersion, good : BOOLEAN]
      BY <3>1, BoundAssumption DEF TypeOK
    <3> QED BY <2>1, <3>1 DEF TypeOK, Work
  <2>2. CASE ~Work(k)
    BY <2>2 DEF TypeOK, Connection, Accept, Request, SendReload, SendPanics,
       Reply, CloseIdle, ClientCloses
  <2> QED BY <2>1, <2>2
<1>3. /\ UNCHANGED <<main, continue, served, signalled, installed, signals>>
      /\ pending' \in BOOLEAN
      /\ promised' = promised \/ promised' = file.version
      /\ cut' = cut \/ cut' = file.version
  BY DEF TypeOK, Connection, Accept, Request, Work, SendReload, SendPanics,
     Reply, CloseIdle, ClientCloses, loopVars, eventVars, history
<1>4. promised' \in 0..MaxVersion /\ cut' \in 0..MaxVersion
  BY <1>3 DEF TypeOK
<1> QED BY <1>1, <1>2, <1>3, <1>4 DEF TypeOK, Ended, States

LEMMA EnvironmentTyped ==
    ASSUME TypeOK, Edit \/ Signal
    PROVE  TypeOK'
<1>1. CASE Edit
  BY <1>1, BoundAssumption DEF TypeOK, Edit, Ended, loopVars, eventVars, history
<1>2. CASE Signal
  <2>1. signals' \in 0..MaxSignals
    BY <1>2, BoundAssumption DEF Signal, TypeOK
  <2>2. UNCHANGED conn /\ signalled' \in BOOLEAN /\ main' \in {main, "killed"}
    BY <1>2 DEF Signal, TypeOK
  <2> QED BY <1>2, <2>1, <2>2 DEF TypeOK, Signal, Ended, history
<1> QED BY <1>1, <1>2

\* Every variable keeps its type, in every step of the loop, of a connection
\* and of the environment.
THEOREM HttpTypeCorrect == Spec => []TypeOK
<1>1. TypeOK /\ [Next]_vars => TypeOK'
  <2> SUFFICES ASSUME TypeOK, [Next]_vars PROVE TypeOK'
    OBVIOUS
  <2>1. CASE Next
    BY <2>1, LoopTyped, ConnectionTyped, EnvironmentTyped DEF Next
  <2>2. CASE UNCHANGED vars
    BY <2>2 DEF vars, loopVars, eventVars, history, TypeOK, Ended
  <2> QED BY <2>1, <2>2
<1> QED BY <1>1, InitTyped, PTL DEF Spec

----------------------------------------------------------------------------
LEMMA KeptStep ==
    ASSUME TypeOK, Kept, [Next]_vars
    PROVE  Kept'
<1> USE DEF Kept
<1> file.version \in Nat /\ promised \in Nat /\ served \in Nat /\ cut \in Nat
  BY BoundAssumption DEF TypeOK
<1>1. CASE Loop
  <2>1. /\ UNCHANGED <<file, promised, cut>>
        /\ main' = "built" => served' = file.version \/ (main = "built" /\ served' = served)
        /\ main' = "serving" => main = "built" /\ served' = served
    BY <1>1 DEF Loop, Leave, Subscribe, Build, BuildFails, Bind, BindFails,
       TakeReload, TakeSignal, StopServing, Drained, history
  <2> QED BY <2>1
<1>2. ASSUME NEW k \in Conns, Connection(k) PROVE Kept'
  <2>1. CASE SendReload(k)
    BY <2>1 DEF SendReload, loopVars, history
  <2>2. CASE Work(k)
    BY <2>2, BoundAssumption DEF Work, loopVars, eventVars, history, TypeOK
  <2>3. CASE SendPanics(k)
    BY <2>3 DEF SendPanics, loopVars, eventVars, history
  <2>4. CASE ~SendReload(k) /\ ~Work(k) /\ ~SendPanics(k)
    BY <1>2, <2>4 DEF Connection, Accept, Request, Reply, CloseIdle,
       ClientCloses, loopVars, eventVars, history
  <2> QED BY <2>1, <2>2, <2>3, <2>4
<1>3. CASE Edit
  BY <1>3 DEF Edit, loopVars, eventVars, history, TypeOK
<1>4. CASE Signal
  BY <1>4 DEF Signal, history
<1>5. CASE UNCHANGED vars
  BY <1>5 DEF vars, loopVars, eventVars, history
<1> QED BY <1>1, <1>2, <1>3, <1>4, <1>5 DEF Next

\* "Apps reloaded !": a server that serves with no reload waiting was built from
\* a file at least as new as at any such answer.
THEOREM ReloadTakesEffectAlways == Spec => []ReloadTakesEffect
<1>1. Init => Kept
  BY DEF Init, Kept
<1>2. Kept => ReloadTakesEffect
  BY DEF Kept, ReloadTakesEffect
<1> QED BY <1>1, <1>2, KeptStep, HttpTypeCorrect, PTL DEF Spec

\* A /reload that was cut while its server drained is served by the next one as
\* if it had been answered.
THEOREM CutReloadTakesEffectAlways == Spec => []CutReloadTakesEffect
<1>1. Init => Kept
  BY DEF Init, Kept
<1>2. Kept => CutReloadTakesEffect
  BY DEF Kept, CutReloadTakesEffect
<1> QED BY <1>1, <1>2, KeptStep, HttpTypeCorrect, PTL DEF Spec
=============================================================================
