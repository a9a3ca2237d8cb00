------------------------------ MODULE HttpLoop ------------------------------
(***************************************************************************)
(* The plain HTTP branch of main: a loop that builds a server from         *)
(* vestibule.yaml, serves until a reload or a signal, drains the open      *)
(* connections and starts again.  Around it: the broadcast channel GET     *)
(* /reload sends on, the signal listener, the connections hyper serves,    *)
(* and a file others change.                                               *)
(*                                                                         *)
(* Contents of the file are numbers that grow with each change.            *)
(***************************************************************************)
EXTENDS Naturals, FiniteSets

CONSTANTS
    Conns,        \* the connections that may be open at once
    MaxVersion,   \* bound: changes of the file
    MaxSignals    \* bound: SIGINT or SIGTERM received

ASSUME BoundAssumption == MaxVersion \in Nat /\ MaxSignals \in Nat

VARIABLES
    main,       \* where the loop is
    continue,   \* continue_main_loop
    pending,    \* a message waits in rx
    signalled,  \* the select! of this turn has a signal to take
    installed,  \* tokio's signal handlers replace the default action
    conn,       \* per connection: what it is doing
    file,       \* vestibule.yaml: [version, good]
    served,     \* the version this server was built from
    promised,   \* history: the version of the file at the last "Apps reloaded !"
    cut,        \* history: the version of the file at the last /reload that was cut
    signals     \* signals received so far

loopVars == <<main, continue, served>>
eventVars == <<pending, signalled, installed, signals>>
history == <<promised, cut>>
vars == <<loopVars, eventVars, conn, file, history>>

Ended == {"stopped", "failed", "killed"}

\* A fresh connection has not sent its first request; hyper does not count it idle.
TypeOK ==
    /\ main \in {"start", "subscribed", "built", "serving", "draining"} \cup Ended
    /\ continue \in BOOLEAN /\ pending \in BOOLEAN /\ signalled \in BOOLEAN
    /\ installed \in BOOLEAN
    /\ conn \in [Conns -> {"closed", "fresh", "idle", "working", "reloading", "replying"}]
    /\ file \in [version : 0..MaxVersion, good : BOOLEAN]
    /\ served \in 0..MaxVersion /\ promised \in 0..MaxVersion /\ cut \in 0..MaxVersion
    /\ signals \in 0..MaxSignals

Init ==
    /\ main = "start" /\ continue = TRUE
    /\ pending = FALSE /\ signalled = FALSE /\ installed = FALSE
    /\ conn = [k \in Conns |-> "closed"]
    /\ file = [version |-> 0, good |-> TRUE]
    /\ served = 0 /\ promised = 0 /\ cut = 0
    /\ signals = 0

-----------------------------------------------------------------------------
(* The loop.                                                               *)

Leave ==
    /\ main = "start" /\ ~continue
    /\ main' = "stopped"
    /\ UNCHANGED <<continue, served, eventVars, conn, file, history>>

\* Slip: the flag is set again on every turn of the loop.
SubscribeAnyway ==
    /\ main = "start"
    /\ main' = "subscribed" /\ continue' = TRUE
    /\ pending' = FALSE
    /\ UNCHANGED <<served, signalled, installed, signals, conn, file, history>>

Subscribe ==
    /\ main = "start" /\ continue
    /\ main' = "subscribed"
    /\ pending' = FALSE
    /\ UNCHANGED <<continue, served, signalled, installed, signals, conn, file, history>>

\* Slip: the configuration of the first turn is built again.
BuildStale ==
    /\ main = "subscribed" /\ file.good
    /\ main' = "built"
    /\ UNCHANGED <<continue, served, eventVars, conn, file, history>>

Build ==
    /\ main = "subscribed" /\ file.good
    /\ main' = "built"
    /\ served' = file.version
    /\ UNCHANGED <<continue, eventVars, conn, file, history>>

\* An error of load_config leaves main by ?; an app it cannot build panics.
BuildFails ==
    /\ main = "subscribed" /\ ~file.good
    /\ main' = "failed"
    /\ UNCHANGED <<continue, served, eventVars, conn, file, history>>

\* The first poll of the server polls shutdown_signal, then it accepts.
Bind ==
    /\ main = "built"
    /\ main' = "serving"
    /\ signalled' = FALSE
    /\ installed' = TRUE
    /\ UNCHANGED <<continue, served, pending, signals, conn, file, history>>

\* Server::bind panics when the port is taken.
BindFails ==
    /\ main = "built"
    /\ main' = "failed"
    /\ UNCHANGED <<continue, served, eventVars, conn, file, history>>

\* One branch of the select! is taken; both futures, and rx with them, are dropped.
StopServing == /\ main' = "draining"
               /\ pending' = FALSE
               /\ signalled' = FALSE

TakeReload ==
    /\ main = "serving" /\ pending
    /\ StopServing
    /\ UNCHANGED <<continue, served, installed, signals, conn, file, history>>

TakeSignal ==
    /\ main = "serving" /\ signalled
    /\ StopServing
    /\ continue' = FALSE
    /\ UNCHANGED <<served, installed, signals, conn, file, history>>

Drained ==
    /\ main = "draining" /\ \A k \in Conns : conn[k] = "closed"
    /\ main' = "start"
    /\ UNCHANGED <<continue, served, eventVars, conn, file, history>>

Loop == Leave \/ Subscribe \/ Build \/ BuildFails \/ Bind \/ BindFails
          \/ TakeReload \/ TakeSignal \/ Drained

-----------------------------------------------------------------------------
(* The connections.                                                        *)

Alive == main \in {"serving", "draining"}

ConnStep(k, from, to) ==
    /\ Alive /\ conn[k] = from
    /\ conn' = [conn EXCEPT ![k] = to]

Accept(k) ==
    /\ main = "serving"
    /\ ConnStep(k, "closed", "fresh")
    /\ UNCHANGED <<loopVars, eventVars, file, history>>

\* An idle connection may read one more request before it learns of the shutdown.
Request(k) ==
    /\ \E from \in {"fresh", "idle"}, what \in {"working", "reloading"} :
          ConnStep(k, from, what)
    /\ UNCHANGED <<loopVars, eventVars, file, history>>

\* The other handlers; one may be an admin's change of the file.
Work(k) ==
    /\ ConnStep(k, "working", "replying")
    /\ \/ UNCHANGED file
       \/ /\ file.version < MaxVersion
          /\ file' = [version |-> file.version + 1, good |-> TRUE]
    /\ UNCHANGED <<loopVars, eventVars, history>>

\* Slip: the answer without the message.
SendNothing(k) ==
    /\ main = "serving"
    /\ ConnStep(k, "reloading", "replying")
    /\ promised' = file.version
    /\ UNCHANGED <<loopVars, eventVars, file, cut>>

\* A send succeeds while rx lives: until the select! of this turn is over.
SendReload(k) ==
    /\ main = "serving"
    /\ ConnStep(k, "reloading", "replying")
    /\ pending' = TRUE
    /\ promised' = file.version
    /\ UNCHANGED <<loopVars, signalled, installed, signals, file, cut>>

\* Slip: no receiver is kept while the server serves.
SendPanicsAlways(k) ==
    /\ ConnStep(k, "reloading", "closed")
    /\ cut' = file.version
    /\ UNCHANGED <<loopVars, eventVars, file, promised>>

\* expect("Could not send reload command!"): the connection ends with no answer.
SendPanics(k) ==
    /\ main = "draining"
    /\ ConnStep(k, "reloading", "closed")
    /\ cut' = file.version
    /\ UNCHANGED <<loopVars, eventVars, file, promised>>

\* Keep-alive is off while the server drains.
Reply(k) ==
    /\ ConnStep(k, "replying", IF main = "draining" THEN "closed" ELSE "idle")
    /\ UNCHANGED <<loopVars, eventVars, file, history>>

CloseIdle(k) ==
    /\ main = "draining"
    /\ ConnStep(k, "idle", "closed")
    /\ UNCHANGED <<loopVars, eventVars, file, history>>

\* Slip: a connection that is left half closed.
ClientHalfCloses(k) ==
    /\ \E from \in {"fresh", "idle", "working", "reloading", "replying"} :
          ConnStep(k, from, "half closed")
    /\ UNCHANGED <<loopVars, eventVars, file, history>>

\* The client goes away.
ClientCloses(k) ==
    /\ \E from \in {"fresh", "idle", "working", "reloading", "replying"} :
          ConnStep(k, from, "closed")
    /\ UNCHANGED <<loopVars, eventVars, file, history>>

Connection(k) == Accept(k) \/ Request(k) \/ Work(k) \/ SendReload(k) \/ SendPanics(k)
                   \/ Reply(k) \/ CloseIdle(k) \/ ClientCloses(k)

-----------------------------------------------------------------------------
(* The environment.                                                        *)

\* The operator edits the file, or a save a client walked away from ends.
Edit ==
    /\ main \notin Ended /\ file.version < MaxVersion
    /\ \E good \in BOOLEAN : file' = [version |-> file.version + 1, good |-> good]
    /\ UNCHANGED <<loopVars, eventVars, conn, history>>

\* With no handler installed a signal kills; with one, but no listener, it is ignored.
Signal ==
    /\ main \notin Ended /\ signals < MaxSignals
    /\ signals' = signals + 1
    /\ IF installed
       THEN /\ signalled' = (signalled \/ main = "serving")
            /\ UNCHANGED <<main, conn>>
       ELSE /\ main' = "killed"
            /\ UNCHANGED <<signalled, conn>>
    /\ UNCHANGED <<continue, served, pending, installed, file, history>>

Next == Loop \/ (\E k \in Conns : Connection(k)) \/ Edit \/ Signal

Spec == Init /\ [][Next]_vars

\* What tokio and hyper run without help: the loop and the handlers.
ServerFairness ==
    /\ WF_vars(Loop)
    /\ \A k \in Conns : WF_vars(Work(k) \/ SendReload(k) \/ SendPanics(k)
                                \/ Reply(k) \/ CloseIdle(k))

\* Clients that do not sit on a new connection for ever.
ClientFairness == \A k \in Conns : WF_vars(conn[k] = "fresh" /\ (Request(k) \/ ClientCloses(k)))

FairSpec == Spec /\ ServerFairness /\ ClientFairness

-----------------------------------------------------------------------------
(* Properties.                                                             *)

\* "Apps reloaded !": once no reload is waiting in rx, a server that serves was
\* built from a file at least as new as at any such answer.
ReloadTakesEffect == main = "serving" /\ ~pending => served >= promised

\* A /reload that finds its server draining is cut with no answer, and still
\* loses nothing: whatever serves next was built from a file at least as new as
\* the one it was sent for.
CutReloadTakesEffect == main = "serving" => served >= cut

\* An acknowledged reload is served in the end, unless the process ends first.
ReloadIsServed ==
    \A v \in 1..MaxVersion :
        promised = v ~> (main = "serving" /\ served >= v) \/ main \in Ended

\* A server that is told to stop, and takes it, does stop: no reload that races
\* with the drain starts it again.
TakenSignalStops == (~continue) ~> main = "stopped"
=============================================================================
