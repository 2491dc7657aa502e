------------------------------- MODULE Server -------------------------------
(***************************************************************************)
(* The process: run() from its start to its exit, the signals it gets, the *)
(* connections of its HTTP server, and the database pool.                  *)
(*                                                                         *)
(* The request that matters is a refresh, which makes two store calls: it  *)
(* rotates the token and saves its successor.  Stopping between the two    *)
(* leaves it torn.  Requests of clients that go away are in Sessions.      *)
(*                                                                         *)
(* http.Server, signal.NotifyContext and pgxpool are external: Shutdown    *)
(* closes the listener and the idle connections and waits for the others,  *)
(* and Pool.Close refuses new statements and waits for the running ones.   *)
(***************************************************************************)
EXTENDS Integers

CONSTANTS Conn,          \* connections
          UsePostgres,   \* config.DB.URL is set
          MaxSignals     \* bound on the signals sent

ASSUME ServerAssumption == UsePostgres \in BOOLEAN /\ MaxSignals \in Nat

VARIABLES main,      \* where run() is
          handler,   \* who gets SIGTERM: "default", "context", or "default" again
          ctx,       \* the context of the signals is done
          accept,    \* Serve: "off", "running", "failed"
          conn,      \* what each connection does
          pool,      \* the database pool
          expired,   \* the drain timed out
          result,    \* what run() returns
          exit,      \* how the process ended
          torn,      \* a refresh was stopped between its two calls
          signals    \* signals sent

serverVars == <<main, handler, ctx, accept, conn, pool, expired, result, exit, torn, signals>>

ServerInit == /\ main = "load"
              /\ handler = "default"
              /\ ctx = FALSE
              /\ accept = "off"
              /\ conn = [c \in Conn |-> "none"]
              /\ pool = "none"
              /\ expired = FALSE
              /\ result = "nil"
              /\ exit = "running"
              /\ torn = FALSE
              /\ signals = 0

Alive == exit = "running"

HalfDone(c) == conn[c] \in {"rotated", "saving"}

-----------------------------------------------------------------------------
(* run *)

\* run returns: its deferred calls run, stop first, then the cleanup.
Return(err) ==
  /\ main' = "cleanup"
  /\ handler' = "default"
  /\ pool' = IF pool = "open" THEN "closing" ELSE pool
  /\ result' = err

\* loadConfig, the store, the issuer, the providers and the service.
Load == /\ Alive /\ main = "load"
        /\ \/ main' = "connect" /\ UNCHANGED <<handler, pool, result>>
           \/ Return("error")
        /\ UNCHANGED <<ctx, accept, conn, expired, exit, torn, signals>>

Connect == /\ Alive /\ main = "connect"
           /\ \/ /\ main' = "wire"
                 /\ pool' = IF UsePostgres THEN "open" ELSE "none"
                 /\ UNCHANGED <<handler, result>>
              \/ UsePostgres /\ Return("error")
           /\ UNCHANGED <<ctx, accept, conn, expired, exit, torn, signals>>

\* NotifyContext comes last, before Listen.
Wire == /\ Alive /\ main = "wire"
        /\ \/ main' = "listen" /\ handler' = "context" /\ UNCHANGED <<pool, result>>
           \/ Return("error")
        /\ UNCHANGED <<ctx, accept, conn, expired, exit, torn, signals>>

Listen == /\ Alive /\ main = "listen"
          /\ \/ main' = "serve" /\ accept' = "running" /\ UNCHANGED <<handler, pool, result>>
             \/ Return("error") /\ UNCHANGED accept
          /\ UNCHANGED <<ctx, conn, expired, exit, torn, signals>>

\* Mutant: serve returns with Serve, as soon as Shutdown has closed the listener.
ServeUndrained ==
  /\ Alive /\ main = "serve"
  /\ ctx \/ accept = "failed"
  /\ accept' = "off"
  /\ Return(IF accept = "failed" THEN "error" ELSE "nil")
  /\ UNCHANGED <<ctx, conn, expired, exit, torn, signals>>

\* serve: the select, and Shutdown is called either way.
Serve ==
  /\ Alive /\ main = "serve"
  /\ \/ accept = "failed" /\ result' = "error"
     \/ ctx /\ UNCHANGED result
  /\ main' = "drain"
  /\ accept' = "off"
  /\ UNCHANGED <<handler, ctx, conn, pool, expired, exit, torn, signals>>

\* Shutdown closes the connections that are idle, and returns when none is left.
Drain ==
  /\ Alive /\ main = "drain"
  /\ conn' = [c \in Conn |-> IF conn[c] = "idle" THEN "none" ELSE conn[c]]
  /\ \/ (\A c \in Conn : conn'[c] = "none") /\ Return(result)
     \/ (\E c \in Conn : conn'[c] # "none") /\ UNCHANGED <<main, handler, pool, result>>
  /\ UNCHANGED <<ctx, accept, expired, exit, torn, signals>>

\* Mutants: the drain is not bounded; its timeout is not reported.
DrainTimeoutNever == FALSE /\ UNCHANGED serverVars
DrainTimeoutSilent ==
  /\ Alive /\ main = "drain"
  /\ Return(result)
  /\ expired' = TRUE
  /\ UNCHANGED <<ctx, accept, conn, exit, torn, signals>>

\* shutdownTimeout: the context of Shutdown ends before the drain does.
DrainTimeout ==
  /\ Alive /\ main = "drain"
  /\ Return("error")
  /\ expired' = TRUE
  /\ UNCHANGED <<ctx, accept, conn, exit, torn, signals>>

\* The pool has closed, and main exits with what run returned.
Exit ==
  /\ Alive /\ main = "cleanup"
  /\ pool = "closing" => \A c \in Conn : conn[c] \notin {"rotating", "saving"}
  /\ pool' = IF pool = "closing" THEN "closed" ELSE pool
  /\ exit' = IF result = "nil" THEN "ok" ELSE "error"
  /\ torn' = (torn \/ \E c \in Conn : HalfDone(c))
  /\ UNCHANGED <<main, handler, ctx, accept, conn, expired, result, signals>>

-----------------------------------------------------------------------------
(* Signals *)

\* SIGINT or SIGTERM: the first ends the context, and with the default handler
\* it kills.  A signal between the first and stop is lost.
Signal ==
  /\ Alive /\ signals < MaxSignals
  /\ signals' = signals + 1
  /\ \/ /\ handler = "context"
        /\ ctx' = TRUE
        /\ UNCHANGED <<exit, torn>>
     \/ /\ handler = "default"
        /\ exit' = "killed"
        /\ torn' = (torn \/ \E c \in Conn : HalfDone(c))
        /\ UNCHANGED ctx
  /\ UNCHANGED <<main, handler, accept, conn, pool, expired, result>>

\* context.AfterFunc(ctx, stop), in a goroutine of its own.
Stop == /\ Alive /\ ctx /\ handler = "context"
        /\ handler' = "default"
        /\ UNCHANGED <<main, ctx, accept, conn, pool, expired, result, exit, torn, signals>>

-----------------------------------------------------------------------------
(* The HTTP server *)

Accept(c) == /\ Alive /\ accept = "running" /\ conn[c] = "none"
             /\ conn' = [conn EXCEPT ![c] = "idle"]
             /\ UNCHANGED <<main, handler, ctx, accept, pool, expired, result, exit, torn, signals>>

AcceptFails == /\ Alive /\ accept = "running"
               /\ accept' = "failed"
               /\ UNCHANGED <<main, handler, ctx, conn, pool, expired, result, exit, torn, signals>>

\* A request arrives; on a connection that is still open, also during the drain.
Receive(c) == /\ Alive /\ conn[c] = "idle"
              /\ conn' = [conn EXCEPT ![c] = "received"]
              /\ UNCHANGED <<main, handler, ctx, accept, pool, expired, result, exit, torn, signals>>

\* The two statements of a refresh.  A pool that closes refuses to start one.
Begin(c) ==
  /\ Alive /\ conn[c] \in {"received", "rotated"}
  /\ \/ /\ pool \in {"none", "open"}
        /\ conn' = [conn EXCEPT ![c] = IF @ = "received" THEN "rotating" ELSE "saving"]
        /\ UNCHANGED torn
     \/ /\ pool \notin {"none", "open"}
        /\ conn' = [conn EXCEPT ![c] = "answering"]
        /\ torn' = (torn \/ HalfDone(c))
  /\ UNCHANGED <<main, handler, ctx, accept, pool, expired, result, exit, signals>>

Finish(c) ==
  /\ Alive /\ conn[c] \in {"rotating", "saving"}
  /\ conn' = [conn EXCEPT ![c] = IF @ = "rotating" THEN "rotated" ELSE "answering"]
  /\ UNCHANGED <<main, handler, ctx, accept, pool, expired, result, exit, torn, signals>>

\* A connection outlives its request unless the server is shutting down.
Respond(c) ==
  /\ Alive /\ conn[c] = "answering"
  /\ conn' = [conn EXCEPT ![c] = IF main \in {"drain", "cleanup"} THEN "none" ELSE "idle"]
  /\ UNCHANGED <<main, handler, ctx, accept, pool, expired, result, exit, torn, signals>>

Run == Load \/ Connect \/ Wire \/ Listen \/ Serve \/ Drain \/ DrainTimeout \/ Exit

ServerNext == \/ Run
              \/ Signal \/ Stop \/ AcceptFails
              \/ \E c \in Conn : Accept(c) \/ Receive(c) \/ Begin(c) \/ Finish(c) \/ Respond(c)

\* The goroutines of the process are scheduled, the timer of the drain fires, and
\* statement_timeout ends every statement.  Handlers need not get on.
ServerFairness == /\ WF_serverVars(Load \/ Connect \/ Wire \/ Listen \/ Serve \/ Exit)
                  /\ WF_serverVars(DrainTimeout)
                  /\ WF_serverVars(Stop)
                  /\ \A c \in Conn : WF_serverVars(Finish(c))

ServerSpec == ServerInit /\ [][ServerNext]_serverVars
ServerFairSpec == ServerSpec /\ ServerFairness

-----------------------------------------------------------------------------

\* A refresh is stopped between its two calls only when the drain timed out or a
\* signal killed the process (serve: "a request still running then (a refresh
\* rotated, its successor not yet saved) would fail half-done").
TornOnlyIfForced == torn => expired \/ exit = "killed"

\* A process that exits with success has answered every request it took and has
\* closed its pool.
SuccessMeansDrained ==
  exit = "ok" => /\ \A c \in Conn : conn[c] = "none"
                 /\ pool # "open"
                 /\ ~expired

\* After a signal the process ends, whether or not its requests do
\* (shutdownTimeout "bounds the drain of in-flight requests after a signal").
SignalStops == signals > 0 ~> ~Alive
=============================================================================
