------------------------------- MODULE TlsLoop -------------------------------
(***************************************************************************)
(* The TLS branch of main: one listener for the life of the process, an    *)
(* outer loop that builds a generation of the server from vestibule.yaml,  *)
(* and an inner loop that accepts connections for it.  Each connection has *)
(* a task of its own, with its own receiver on the reload channel and its  *)
(* own signal listener, that clears the flags the loops look at between    *)
(* two accepts; main itself waits for neither a reload nor a signal.       *)
(***************************************************************************)
EXTENDS Naturals, FiniteSets

CONSTANTS
    Conns,        \* the connections that may be open at once
    MaxVersion,   \* bound: changes of the file
    MaxGens,      \* bound: generations built
    MaxSignals    \* bound: SIGINT or SIGTERM received

ASSUME BoundAssumption == /\ MaxVersion \in Nat /\ MaxSignals \in Nat
                          /\ MaxGens \in Nat \ {0}

None == 0

VARIABLES
    main,       \* where the loops are
    continue,   \* continue_main_loop
    gen,        \* generations built; the newest is the one that accepts
    inner,      \* per generation: continue_inner_loop
    built,      \* per generation: the version its routes were built from
    conn,       \* per connection: [st, gen, msg, sig]
    installed,  \* tokio's signal handlers replace the default action
    file,       \* vestibule.yaml: [version, good]
    signals,    \* signals received so far
    promised,   \* history: the version of the file at the last "Apps reloaded !"
    stale       \* history: connections accepted by gen since its inner flag was cleared

loopVars == <<main, continue, gen, inner, built>>
envVars == <<installed, file, signals>>
history == <<promised, stale>>
vars == <<loopVars, conn, envVars, history>>

Gens == 1..MaxGens
Ended == {"stopped", "failed", "killed"}
Open == {"handshake", "idle", "working", "reloading", "replying"}

\* msg: a reload waits in the task's rx; sig: a signal waits in its listener.
Connection == [st : Open, gen : Gens, msg : BOOLEAN, sig : BOOLEAN]

Closed == [st |-> "closed", gen |-> None, msg |-> FALSE, sig |-> FALSE]

TypeOK ==
    /\ main \in {"outer", "loaded", "inner", "accept"} \cup Ended
    /\ continue \in BOOLEAN /\ gen \in 0..MaxGens
    /\ inner \in [Gens -> BOOLEAN] /\ built \in [Gens -> 0..MaxVersion]
    /\ conn \in [Conns -> Connection \cup {Closed}]
    /\ installed \in BOOLEAN
    /\ file \in [version : 0..MaxVersion, good : BOOLEAN]
    /\ signals \in 0..MaxSignals /\ promised \in 0..MaxVersion
    /\ stale \in Nat

Init ==
    /\ main = "outer" /\ continue = TRUE
    /\ gen = 0 /\ inner = [g \in Gens |-> TRUE] /\ built = [g \in Gens |-> 0]
    /\ conn = [k \in Conns |-> Closed]
    /\ installed = FALSE
    /\ file = [version |-> 0, good |-> TRUE]
    /\ signals = 0 /\ promised = 0 /\ stale = 0

-----------------------------------------------------------------------------
(* main.                                                                   *)

Leave ==
    /\ main = "outer" /\ ~continue
    /\ main' = "stopped"
    /\ UNCHANGED <<continue, gen, inner, built, conn, envVars, history>>

\* The first of two reads of the file: the domains certificates are asked for,
\* maybe of another version than the routes.
LoadDomains ==
    /\ main = "outer" /\ continue /\ file.good
    /\ main' = "loaded"
    /\ UNCHANGED <<continue, gen, inner, built, conn, envVars, history>>

\* The second: Server::build.
Build ==
    /\ main = "loaded" /\ file.good /\ gen < MaxGens
    /\ main' = "inner"
    /\ gen' = gen + 1
    /\ built' = [built EXCEPT ![gen + 1] = file.version]
    /\ stale' = 0
    /\ UNCHANGED <<continue, inner, conn, envVars, promised>>

\* Either read fails, by ? or by a panic, and the process ends.
LoadFails ==
    /\ main \in {"outer", "loaded"} /\ ~file.good
    /\ main = "outer" => continue
    /\ main' = "failed"
    /\ UNCHANGED <<continue, gen, inner, built, conn, envVars, history>>

\* Slip: continue in the place of break.
StayInner ==
    /\ main = "inner" /\ ~inner[gen]
    /\ UNCHANGED vars

LeaveInner ==
    /\ main = "inner" /\ ~inner[gen]
    /\ main' = "outer"
    /\ UNCHANGED <<continue, gen, inner, built, conn, envVars, history>>

\* Slip: the flag is not looked at before the accept.
WaitUnchecked ==
    /\ main = "inner"
    /\ main' = "accept"
    /\ UNCHANGED <<continue, gen, inner, built, conn, envVars, history>>

WaitForConnection ==
    /\ main = "inner" /\ inner[gen]
    /\ main' = "accept"
    /\ UNCHANGED <<continue, gen, inner, built, conn, envVars, history>>

\* poll_accept, make_service, tx.subscribe() and the spawn of the task.
Accept(k) ==
    /\ main = "accept" /\ conn[k] = Closed
    /\ main' = "inner"
    /\ conn' = [conn EXCEPT ![k] = [Closed EXCEPT !.st = "handshake", !.gen = gen]]
    /\ stale' = IF inner[gen] THEN stale ELSE stale + 1
    /\ UNCHANGED <<continue, gen, inner, built, envVars, promised>>

Main == \/ Leave \/ LoadDomains \/ Build \/ LoadFails \/ LeaveInner
        \/ WaitForConnection \/ \E k \in Conns : Accept(k)

-----------------------------------------------------------------------------
(* The task of a connection.                                               *)

Running == main \notin Ended

Step(k, from, to) ==
    /\ Running /\ conn[k].st = from
    /\ conn' = [conn EXCEPT ![k].st = to]

\* The handshake ends; the first poll of the select! installs the signal handlers.
Handshake(k) ==
    /\ Step(k, "handshake", "idle")
    /\ installed' = TRUE
    /\ UNCHANGED <<loopVars, file, signals, history>>

\* An ACME validation, a failed handshake, a client that goes away: the task ends.
TaskEnds(k) ==
    /\ Running /\ conn[k] # Closed
    /\ conn' = [conn EXCEPT ![k] = Closed]
    /\ UNCHANGED <<loopVars, envVars, history>>

Request(k) ==
    /\ \E what \in {"working", "reloading"} : Step(k, "idle", what)
    /\ UNCHANGED <<loopVars, envVars, history>>

\* The other handlers; one may be an admin's change of the file.
Work(k) ==
    /\ Step(k, "working", "replying")
    /\ \/ UNCHANGED file
       \/ /\ file.version < MaxVersion
          /\ file' = [version |-> file.version + 1, good |-> TRUE]
    /\ UNCHANGED <<loopVars, installed, signals, history>>

\* tx.send reaches the rx of every open connection, of any generation.  The sender
\* is one of them, so the expect of the handler never fails here.
Receivers == {k \in Conns : conn[k] # Closed}

SendReload(k) ==
    /\ Running /\ conn[k].st = "reloading"
    /\ conn' = [j \in Conns |->
                   IF j = k THEN [conn[k] EXCEPT !.st = "replying", !.msg = TRUE]
                   ELSE IF j \in Receivers THEN [conn[j] EXCEPT !.msg = TRUE] ELSE conn[j]]
    /\ promised' = file.version
    /\ UNCHANGED <<loopVars, envVars, stale>>

\* Slip: the connection is closed and its task stays.
ReplyAndLinger(k) ==
    /\ Step(k, "replying", "closed")
    /\ UNCHANGED <<loopVars, envVars, history>>

Reply(k) ==
    /\ Step(k, "replying", "idle")
    /\ UNCHANGED <<loopVars, envVars, history>>

\* graceful_shutdown is called on a future the task then drops unpolled.
Drop(k) == conn' = [conn EXCEPT ![k] = Closed]

InSelect(k) == Running /\ conn[k].st \in Open \ {"handshake"}

TakeReload(k) ==
    /\ InSelect(k) /\ conn[k].msg
    /\ inner' = [inner EXCEPT ![conn[k].gen] = FALSE]
    /\ Drop(k)
    /\ UNCHANGED <<main, continue, gen, built, envVars, promised, stale>>

TakeSignal(k) ==
    /\ InSelect(k) /\ conn[k].sig
    /\ inner' = [inner EXCEPT ![conn[k].gen] = FALSE]
    /\ continue' = FALSE
    /\ Drop(k)
    /\ UNCHANGED <<main, gen, built, envVars, promised, stale>>

Serve(k) == Work(k) \/ SendReload(k) \/ Reply(k) \/ TakeReload(k) \/ TakeSignal(k)

Task(k) == Handshake(k) \/ TaskEnds(k) \/ Request(k) \/ Serve(k)

-----------------------------------------------------------------------------
(* The environment.                                                        *)

Edit ==
    /\ Running /\ file.version < MaxVersion
    /\ \E good \in BOOLEAN : file' = [version |-> file.version + 1, good |-> good]
    /\ UNCHANGED <<loopVars, conn, installed, signals, history>>

\* With no handler installed a signal kills; with one, only the tasks hear it.
Signal ==
    /\ Running /\ signals < MaxSignals
    /\ signals' = signals + 1
    /\ IF installed
       THEN /\ conn' = [k \in Conns |-> IF conn[k].st \in Open \ {"handshake"}
                                        THEN [conn[k] EXCEPT !.sig = TRUE] ELSE conn[k]]
            /\ UNCHANGED main
       ELSE main' = "killed" /\ UNCHANGED conn
    /\ UNCHANGED <<continue, gen, inner, built, installed, file, history>>

Next == Main \/ (\E k \in Conns : Task(k)) \/ Edit \/ Signal

Spec == Init /\ [][Next]_vars

\* main and the tasks run; clients keep coming only where a property says so.
FairSpec == /\ Spec
            /\ WF_vars(Leave \/ LoadDomains \/ Build \/ LoadFails \/ LeaveInner
                         \/ WaitForConnection)
            /\ \A k \in Conns : WF_vars(Handshake(k) \/ Serve(k))

\* Clients that keep connecting, whatever connections they have.
BusySpec == /\ FairSpec
            /\ WF_vars(\E k \in Conns : Accept(k))
            /\ \A k \in Conns : WF_vars(TaskEnds(k))

-----------------------------------------------------------------------------
(* Properties.                                                             *)

\* Whatever tasks clear whichever flags, main accepts at most one more connection
\* for a generation once a reload or a signal has cleared its flag.
OneStaleAccept == stale <= 1

\* Where the bound on generations stops the model.
Exhausted == main = "loaded" /\ gen = MaxGens

\* If clients keep connecting, main does leave a generation whose flag is cleared:
\* for the next one, or for good after a signal.
ClearedFlagIsHeeded ==
    \A g \in Gens :
        gen = g /\ ~inner[g] ~> gen > g \/ main \in Ended \/ Exhausted

\* "Graceful shutdown" (README.md): a connection with a request in progress ends
\* when its client goes away, and for no other reason.
NoRequestCut ==
    [][\A k \in Conns : conn[k].st \in {"working", "reloading", "replying"} =>
          conn'[k].st # "closed" \/ TaskEnds(k)]_vars
=============================================================================
