-------------------------------- MODULE Server --------------------------------
(***************************************************************************)
(* The process around the handlers: RunServe opens the connection pool,    *)
(* Server.Run serves until a signal and drains, and the pool is closed     *)
(* last.  A worker is one request in flight; of its handler only what it   *)
(* needs of the pool is kept.  A statement outside a transaction takes a   *)
(* connection and gives it back; a transaction of InTx keeps its own, and  *)
(* Querier runs the statements inside on that one.  Durations are left     *)
(* out: a request may outlive the drain timeout or not.                    *)
(***************************************************************************)
EXTENDS Naturals, Sequences, FiniteSets

CONSTANTS Workers,
          MaxConns   \* pgxpool's pool_max_conns

ASSUME PoolAssumption == MaxConns \in Nat \ {0}

VARIABLES
    stage,    \* of RunServe
    clean,    \* Shutdown returned nil
    pc,       \* each request: idle, running Go code, or in a statement
    todo,     \* each request: the steps its handler has left
    holders   \* the requests that hold a connection

vars == <<stage, clean, pc, todo, holders>>

Stages == {"starting", "serving", "draining", "closing", "stopped"}
Steps == {"statement", "call", "begin", "inner", "commit"}

\* The orchestrator's /readyz pings the database through the same pool.
ReadinessProbe == <<"statement">>

\* The longest path of each kind of handler; any prefix may be its end.
\* "call" is a call of WhatsApp or Google.
Handlers ==
    { ReadinessProbe,
      <<"statement", "statement", "statement", "call", "statement">>,        \* request
      <<"statement", "call", "statement">>,                                  \* resend
      <<"statement", "begin", "inner", "inner", "inner", "commit">>,         \* confirm
      <<"call", "statement", "begin", "inner", "commit">>,                   \* google
      <<"statement", "statement", "begin", "inner", "inner", "commit">>,     \* clear
      <<"statement", "statement">>,                                          \* list
      \* get-session and sign-out: three of the middleware and one; analytics
      <<"statement", "statement", "statement", "statement">> }

TypeOK ==
    /\ stage \in Stages /\ clean \in BOOLEAN
    /\ pc \in [Workers -> {"idle", "run", "query"}]
    /\ todo \in [Workers -> Seq(Steps)]
    /\ holders \subseteq {w \in Workers : pc[w] # "idle"}
    /\ Cardinality(holders) <= MaxConns

Init ==
    /\ stage = "starting" /\ clean = FALSE
    /\ pc = [w \in Workers |-> "idle"]
    /\ todo = [w \in Workers |-> << >>]
    /\ holders = {}

-----------------------------------------------------------------------------
(* RunServe and Run. *)

requests == <<pc, todo, holders>>

\* NewPool pings the database before anything is served.
Open ==
    /\ stage = "starting"
    /\ stage' \in {"serving", "stopped"}
    /\ UNCHANGED <<clean, requests>>

Signal == stage = "serving" /\ stage' = "draining" /\ UNCHANGED <<clean, requests>>

\* Run returns what ListenAndServe failed with, without a drain.
ListenFails == stage = "serving" /\ stage' = "closing" /\ UNCHANGED <<clean, requests>>

\* Shutdown returns once no request is left, or with an error after 10 s.
Drain ==
    /\ stage = "draining"
    /\ stage' = "closing"
    /\ clean' = (\A w \in Workers : pc[w] = "idle")
    /\ UNCHANGED requests

\* Bug: main returns without the deferred pool.Close.
BugExitAtOnce ==
    stage = "closing" /\ stage' = "stopped" /\ UNCHANGED <<clean, requests>>

\* The deferred pool.Close waits for every connection; then main returns.
ClosePool ==
    /\ stage = "closing" /\ holders = {}
    /\ stage' = "stopped"
    /\ UNCHANGED <<clean, requests>>

-----------------------------------------------------------------------------
(* A request. *)

\* Shutdown stops the listener, but a connection accepted before may still send
\* its request, until Shutdown has seen every connection closed.
Start(w, handler) ==
    /\ stage \in {"serving", "draining"} \/ (stage = "closing" /\ ~clean)
    /\ pc[w] = "idle"
    /\ pc' = [pc EXCEPT ![w] = "run"] /\ todo' = [todo EXCEPT ![w] = handler]
    /\ UNCHANGED <<stage, clean, holders>>

Wants(w, step) == pc[w] = "run" /\ todo[w] # << >> /\ Head(todo[w]) = step

Goto(w, place, rest) ==
    /\ pc' = [pc EXCEPT ![w] = place] /\ todo' = [todo EXCEPT ![w] = rest]
    /\ UNCHANGED <<stage, clean>>

Free == Cardinality(holders) < MaxConns

\* A statement or pool.Begin waits for a connection of an open pool.
Acquire(w) ==
    /\ Free /\ stage # "closing"
    /\ \/ Wants(w, "statement") /\ Goto(w, "query", todo[w])
       \/ Wants(w, "begin") /\ Goto(w, "run", Tail(todo[w]))
    /\ holders' = holders \cup {w}

EndStatement(w) ==
    /\ pc[w] = "query"
    /\ Goto(w, "run", Tail(todo[w]))
    /\ holders' = holders \ {w}

Call(w) == Wants(w, "call") /\ Goto(w, "run", Tail(todo[w])) /\ UNCHANGED holders

\* Bug: a statement inside a transaction takes a connection of its own.
BugOwnConnection(w) ==
    Wants(w, "inner") /\ Free /\ Goto(w, "run", Tail(todo[w])) /\ UNCHANGED holders

InnerStatement(w) ==
    Wants(w, "inner") /\ Goto(w, "run", Tail(todo[w])) /\ UNCHANGED holders

Commit(w) ==
    /\ Wants(w, "commit")
    /\ Goto(w, "run", Tail(todo[w]))
    /\ holders' = holders \ {w}

\* Bug: a failed transaction is not rolled back and keeps its connection.
BugNoRollback(w) ==
    /\ pc[w] # "idle" /\ todo[w] # << >>
    /\ Goto(w, "idle", << >>)
    /\ UNCHANGED holders

\* An early return, an error, a cancelled wait, a closed pool: InTx rolls back,
\* so the connection is given back, and the handler answers.
Return(w) ==
    /\ pc[w] # "idle" /\ todo[w] # << >>
    /\ Goto(w, "idle", << >>)
    /\ holders' = holders \ {w}

Answer(w) ==
    /\ pc[w] = "run" /\ todo[w] = << >>
    /\ Goto(w, "idle", << >>)
    /\ UNCHANGED holders

\* What a handler does of itself, and what a closed pool makes it do.
Advance(w) ==
    \/ EndStatement(w) \/ Call(w) \/ InnerStatement(w) \/ Commit(w) \/ Answer(w)
    \/ stage = "closing" /\ (Wants(w, "statement") \/ Wants(w, "begin")) /\ Return(w)

Next ==
    /\ stage # "stopped"
    /\ \/ Open \/ Signal \/ ListenFails \/ Drain \/ ClosePool
       \/ \E w \in Workers :
            \/ \E handler \in Handlers : Start(w, handler)
            \/ Acquire(w) \/ Advance(w) \/ Return(w)

Spec == Init /\ [][Next]_vars

\* Goroutines run, PostgreSQL and the providers answer or time out, pgxpool
\* serves its waiters in order, and the drain has a timeout.
FairSpec ==
    /\ Spec
    /\ WF_vars(Open) /\ WF_vars(Drain) /\ WF_vars(stage # "stopped" /\ ClosePool)
    /\ \A w \in Workers : /\ SF_vars(Acquire(w))
                          /\ WF_vars(stage # "stopped" /\ Advance(w))

-----------------------------------------------------------------------------
\* The steps left of a handler that is in a transaction begin inside it.
InTx == {"inner", "commit"}
Inside(rest) == rest # << >> /\ Head(rest) \in InTx

\* A stop may cut requests short, after a drain that timed out too, but never a
\* statement under way or a transaction between its statements: the process
\* ends only when each was committed or rolled back by its own handler
\* (serve.go:53, server.go:73-80, uow.go:27-53).
StopCutsNoTransaction ==
    stage = "stopped" => \A w \in Workers : pc[w] # "query" /\ ~Inside(todo[w])

\* Every request ends, although every connection may be taken by a transaction
\* that still has statements to run (uow.go:46-53), unless the process ends.
RequestsEnd ==
    \A w \in Workers : pc[w] # "idle" ~> pc[w] = "idle" \/ stage = "stopped"

\* After the signal the process ends: no request keeps a connection for ever,
\* failed ones included (uow.go:28-39, serve.go:53, server.go:73-80).
ServerStops == stage = "draining" ~> stage = "stopped"
=============================================================================
