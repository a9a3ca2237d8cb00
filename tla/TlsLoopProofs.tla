---------------------------- MODULE TlsLoopProofs ----------------------------
(***************************************************************************)
(* Invariants of TlsLoop for every set of connections and every bound: its *)
(* types, with a generation to accept for whenever main waits in the inner *)
(* loop (Typed), and how far main can fall behind a cleared flag (Behind). *)
(***************************************************************************)
EXTENDS TlsLoop, TLAPS

Typed ==
    /\ TypeOK
    /\ main \in {"inner", "accept"} => gen \in Gens

\* A generation whose flag is up, or that main waits to accept for, has had no
\* stale accept; there is never a second one.
Behind ==
    /\ OneStaleAccept
    /\ gen \in Gens /\ inner[gen] => stale = 0
    /\ main = "accept" => stale = 0

Slot == Connection \cup {Closed}

----------------------------------------------------------------------------
LEMMA SlotOpened ==
    ASSUME NEW g \in Gens
    PROVE  [Closed EXCEPT !.st = "handshake", !.gen = g] \in Slot
BY DEF Closed, Slot, Connection, Open

LEMMA SlotStepped ==
    ASSUME NEW s \in Slot, s.st # "closed", NEW to \in Open
    PROVE  [s EXCEPT !.st = to] \in Slot
BY DEF Closed, Slot, Connection, Open

LEMMA SlotTold ==
    ASSUME NEW s \in Slot, s.st # "closed"
    PROVE  /\ [s EXCEPT !.msg = TRUE] \in Slot
           /\ [s EXCEPT !.sig = TRUE] \in Slot
           /\ [s EXCEPT !.st = "replying", !.msg = TRUE] \in Slot
<1>1. s \in Connection
  BY DEF Closed, Slot
<1> QED BY <1>1 DEF Connection, Slot, Open

LEMMA InitTyped == Init => Typed
<1> SUFFICES ASSUME Init PROVE Typed
  OBVIOUS
<1>1. 0 \in 0..MaxVersion /\ 0 \in 0..MaxSignals /\ 0 \in 0..MaxGens /\ 0 \in Nat
  BY BoundAssumption
<1>2. file \in [version : 0..MaxVersion, good : BOOLEAN]
  BY <1>1 DEF Init
<1>3. conn \in [Conns -> Slot] /\ inner \in [Gens -> BOOLEAN]
      /\ built \in [Gens -> 0..MaxVersion]
  BY <1>1 DEF Init, Slot
<1> QED BY <1>1, <1>2, <1>3 DEF Init, Typed, TypeOK, Ended, Slot

LEMMA MainTyped == ASSUME Typed, Main PROVE Typed'
<1> USE BoundAssumption DEF Typed, TypeOK, Ended, Gens
<1>1. CASE Leave \/ LoadDomains \/ LoadFails \/ LeaveInner \/ WaitForConnection
  BY <1>1 DEF Leave, LoadDomains, LoadFails, LeaveInner, WaitForConnection, envVars, history
<1>2. CASE Build
  BY <1>2 DEF Build, envVars
<1>3. ASSUME NEW k \in Conns, Accept(k) PROVE Typed'
  <2>1. conn' \in [Conns -> Slot]
    BY <1>3, SlotOpened DEF Accept, Slot
  <2>2. stale' \in Nat
    BY <1>3 DEF Accept
  <2> QED BY <1>3, <2>1, <2>2 DEF Accept, envVars, Slot
<1> QED BY <1>1, <1>2, <1>3 DEF Main

LEMMA StepTyped ==
    ASSUME Typed, NEW k \in Conns, NEW from \in Open, NEW to \in Open, Step(k, from, to)
    PROVE  conn' \in [Conns -> Slot]
<1>1. conn[k] \in Slot /\ conn[k].st # "closed"
  BY DEF Typed, TypeOK, Slot, Step, Open
<1>2. [conn[k] EXCEPT !.st = to] \in Slot
  BY <1>1, SlotStepped
<1> QED BY <1>2 DEF Typed, TypeOK, Slot, Step

LEMMA DropTyped ==
    ASSUME Typed, NEW k \in Conns, Drop(k)
    PROVE  conn' \in [Conns -> Slot]
BY DEF Typed, TypeOK, Slot, Drop

LEMMA ReloadTyped ==
    ASSUME Typed, NEW k \in Conns, SendReload(k)
    PROVE  conn' \in [Conns -> Slot]
<1> SUFFICES ASSUME NEW j \in Conns PROVE conn'[j] \in Slot
  BY DEF SendReload, Typed, TypeOK
<1>1. conn[j] \in Slot /\ conn[k] \in Slot /\ conn[k].st # "closed"
  BY DEF SendReload, Typed, TypeOK, Slot
<1>2. CASE j = k
  BY <1>1, <1>2, SlotTold DEF SendReload
<1>3. CASE j # k /\ j \in Receivers
  <2>1. conn[j].st # "closed"
    BY <1>1, <1>3 DEF Receivers, Slot, Connection, Open
  <2> QED BY <1>1, <1>3, <2>1, SlotTold DEF SendReload
<1>4. CASE j # k /\ j \notin Receivers
  BY <1>1, <1>4 DEF SendReload
<1> QED BY <1>2, <1>3, <1>4

LEMMA TaskTyped ==
    ASSUME Typed, NEW k \in Conns, Task(k)
    PROVE  Typed'
<1>1. conn' \in [Conns -> Slot]
  <2>1. CASE Handshake(k) \/ Request(k) \/ Work(k) \/ Reply(k)
    BY <2>1, StepTyped DEF Handshake, Request, Work, Reply, Open
  <2>2. CASE TaskEnds(k) \/ TakeReload(k) \/ TakeSignal(k)
    BY <2>2, DropTyped DEF TaskEnds, TakeReload, TakeSignal, Drop
  <2> QED BY <2>1, <2>2, ReloadTyped DEF Task, Serve
<1>2. /\ UNCHANGED <<main, gen, built, signals, stale>>
      /\ continue' \in BOOLEAN /\ installed' \in BOOLEAN
      /\ promised' \in {promised, file.version}
      /\ inner' \in [Gens -> BOOLEAN]
  BY DEF Task, Serve, Handshake, Request, Work, Reply, TaskEnds, TakeReload, TakeSignal,
     SendReload, Typed, TypeOK, loopVars, envVars, history
<1>3. file' \in [version : 0..MaxVersion, good : BOOLEAN]
  <2>1. CASE Work(k)
    <3>1. ASSUME file.version < MaxVersion
          PROVE  [version |-> file.version + 1, good |-> TRUE]
                    \in [version : 0..MaxVersion, good : BOOLEAN]
      BY <3>1, BoundAssumption DEF Typed, TypeOK
    <3> QED BY <2>1, <3>1 DEF Typed, TypeOK, Work
  <2>2. CASE ~Work(k)
    BY <2>2 DEF Typed, TypeOK, Task, Serve, Handshake, Request, Reply, TaskEnds,
       TakeReload, TakeSignal, SendReload, envVars
  <2> QED BY <2>1, <2>2
<1>4. promised' \in 0..MaxVersion
  BY <1>2 DEF Typed, TypeOK
<1> QED BY <1>1, <1>2, <1>3, <1>4 DEF Typed, TypeOK, Slot

LEMMA EnvironmentTyped ==
    ASSUME Typed, Edit \/ Signal
    PROVE  Typed'
<1>1. CASE Edit
  BY <1>1, BoundAssumption DEF Typed, TypeOK, Edit, loopVars, history
<1>2. CASE Signal
  <2>1. conn' \in [Conns -> Slot]
    <3> SUFFICES ASSUME NEW j \in Conns, installed PROVE conn'[j] \in Slot
      BY <1>2 DEF Signal, Typed, TypeOK, Slot
    <3>1. conn[j] \in Slot
      BY DEF Typed, TypeOK, Slot
    <3>2. CASE conn[j].st \in Open \ {"handshake"}
      <4>1. conn[j].st # "closed"
        BY <3>2 DEF Open
      <4> QED BY <1>2, <3>1, <3>2, <4>1, SlotTold DEF Signal
    <3>3. CASE conn[j].st \notin Open \ {"handshake"}
      BY <1>2, <3>1, <3>3 DEF Signal
    <3> QED BY <3>2, <3>3
  <2>2. signals' \in 0..MaxSignals
    BY <1>2, BoundAssumption DEF Signal, Typed, TypeOK
  <2>3. main' \in {main, "killed"}
    BY <1>2 DEF Signal
  <2> QED BY <1>2, <2>1, <2>2, <2>3 DEF Signal, Typed, TypeOK, Slot, Ended, history
<1> QED BY <1>1, <1>2

LEMMA TypedAlways == Spec => []Typed
<1>1. Typed /\ [Next]_vars => Typed'
  <2> SUFFICES ASSUME Typed, [Next]_vars PROVE Typed'
    OBVIOUS
  <2>1. CASE Next
    BY <2>1, MainTyped, TaskTyped, EnvironmentTyped DEF Next
  <2>2. CASE UNCHANGED vars
    BY <2>2 DEF vars, loopVars, envVars, history, Typed, TypeOK
  <2> QED BY <2>1, <2>2
<1> QED BY <1>1, InitTyped, PTL DEF Spec

\* Every variable keeps its type, in every step of main, of a task and of the
\* environment.
THEOREM TlsTypeCorrect == Spec => []TypeOK
<1>1. Typed => TypeOK
  BY DEF Typed
<1> QED BY <1>1, TypedAlways, PTL

----------------------------------------------------------------------------
LEMMA BehindStep ==
    ASSUME Typed, Behind, [Next]_vars
    PROVE  Behind'
<1> USE DEF Behind, OneStaleAccept
<1> stale \in Nat /\ inner \in [Gens -> BOOLEAN]
  BY DEF Typed, TypeOK
<1>1. CASE Main
  <2>1. CASE Leave \/ LoadDomains \/ LoadFails \/ LeaveInner
    BY <2>1 DEF Leave, LoadDomains, LoadFails, LeaveInner, history
  <2>2. CASE WaitForConnection
    BY <2>2 DEF WaitForConnection, Typed, history
  <2>3. CASE Build
    BY <2>3 DEF Build
  <2>4. ASSUME NEW k \in Conns, Accept(k) PROVE Behind'
    BY <2>4 DEF Accept
  <2> QED BY <1>1, <2>1, <2>2, <2>3, <2>4 DEF Main
<1>2. ASSUME NEW k \in Conns, Task(k) PROVE Behind'
  <2>1. /\ UNCHANGED <<main, gen, stale>>
        /\ \A g \in Gens : inner'[g] => inner[g]
    BY <1>2 DEF Task, Serve, Handshake, Request, Work, Reply, TaskEnds, TakeReload,
       TakeSignal, SendReload, loopVars, history
  <2> QED BY <2>1
<1>3. CASE Edit
  BY <1>3 DEF Edit, loopVars, history
<1>4. CASE Signal
  BY <1>4 DEF Signal, history
<1>5. CASE UNCHANGED vars
  BY <1>5 DEF vars, loopVars, history
<1> QED BY <1>1, <1>2, <1>3, <1>4, <1>5 DEF Next

\* However many connections, generations and signals there are, and whichever
\* tasks clear whichever flags: at most one accept for a generation comes after
\* its flag is cleared.
THEOREM OneStaleAcceptAlways == Spec => []OneStaleAccept
<1>1. Init => Behind
  BY DEF Init, Behind, OneStaleAccept
<1>2. Behind => OneStaleAccept
  BY DEF Behind
<1> QED BY <1>1, <1>2, BehindStep, TypedAlways, PTL DEF Spec
=============================================================================
