----------------------------- MODULE BeaconProxy -----------------------------
(****************************************************************************)
(* The beacon proxy process: the main goroutine of cmd/beacon-proxy/serve.go,*)
(* the goroutine that runs Server.Serve, the shutter both of them use to     *)
(* terminate the server, the HTTP server underneath and the connections it   *)
(* is serving while all of that happens.                                     *)
(*                                                                           *)
(* net/http, the shutter and the signal handler are libraries: their part is *)
(* modelled from how the code uses them (Go 1.19 semantics, see README).     *)
(****************************************************************************)
EXTENDS JsonRpc

CONSTANTS
    Conns,      \* connections that may be open at the same time
    Requests    \* the requests clients send

ASSUME RequestsAssumption == Requests \subseteq AllRequests

VARIABLES
    main,         \* main goroutine: select -> shutdown -> (drains ->) await -> exited
    serve,        \* Serve goroutine: init -> assigned -> bound -> accepting -> done
                  \*                  or ... failed (-> drains) -> done
    phase,        \* the shutter: open -> terminating -> terminated
    owner,        \* the goroutine whose call to Shutdown runs the callback
    shutErr,      \* the error the shutter terminated with
    httpServer,   \* has the httpServer field been assigned?
    inShutdown,   \* http.Server.Shutdown has been called
    drain,        \* none | skipped | closing | draining | clean | expired
    signalled,    \* a termination signal was delivered
    exitErr,      \* what serveJSONRPCE returned
    conn,         \* conn[c]: where the connection stands
    req,          \* req[c]: the request being served on it
    late,         \* late[c]: that request was routed when already terminating
    answer        \* answer[c]: what it is being told

life == <<main, serve, phase, owner, shutErr, httpServer, inShutdown, drain, signalled, exitErr>>
traffic == <<conn, req, late, answer>>
vars == <<life, traffic>>

Nil == "nil"
ListenErr == "listenErr"

\* A connection with a request on it: the stages of the pipeline.
Busy == {"route", "decode", "validate", "invoke", "write"}

NoRequest == [path |-> "none"]

Init ==
    /\ main = "select"
    /\ serve = "init"
    /\ phase = "open"
    /\ owner = "nobody"
    /\ shutErr = Nil
    /\ httpServer = FALSE
    /\ inShutdown = FALSE
    /\ drain = "none"
    /\ signalled = FALSE
    /\ exitErr = Nil
    /\ conn = [c \in Conns |-> "none"]
    /\ req = [c \in Conns |-> NoRequest]
    /\ late = [c \in Conns |-> FALSE]
    /\ answer = [c \in Conns |-> "none"]

Alive == main # "exited"

-------------------------------------------------------------------------------
(* The shutter.  Only the first call of Shutdown does anything: it records    *)
(* the error, announces termination and runs the OnTerminating callback on    *)
(* the caller's goroutine.  Every other caller returns at once.               *)

\* A bug: a Shutdown that is not guarded against the second call.
ClaimAgain(who, err) ==
    /\ phase' = "terminating"
    /\ owner' = who
    /\ shutErr' = err

Claim(who, err) ==
    /\ phase = "open"
    /\ phase' = "terminating"
    /\ owner' = who
    /\ shutErr' = err

\* The callback returned: the shutter is terminated and its owner goes on.
Terminate ==
    /\ phase' = "terminated"
    /\ \/ owner = "main"  /\ main' = "await" /\ UNCHANGED serve
       \/ owner = "serve" /\ serve' = "done" /\ UNCHANGED main

Terminating == phase = "terminating"

-------------------------------------------------------------------------------
(* Server.Serve                                                               *)

ServeAssign ==
    /\ Alive
    /\ serve = "init"
    /\ serve' = "assigned"
    /\ httpServer' = TRUE
    /\ UNCHANGED <<main, phase, owner, shutErr, inShutdown, drain, signalled, exitErr, traffic>>

\* ListenAndServe: refuses a server that is shutting down, then binds.
Listen ==
    /\ Alive
    /\ serve = "assigned"
    /\ serve' \in IF inShutdown THEN {"done"} ELSE {"bound", "failed"}
    /\ UNCHANGED <<main, phase, owner, shutErr, httpServer, inShutdown, drain,
                   signalled, exitErr, traffic>>

\* A bug: not looking at the shutdown again after binding.
TrackAlways ==
    /\ Alive
    /\ serve = "bound"
    /\ serve' = "accepting"
    /\ UNCHANGED <<main, phase, owner, shutErr, httpServer, inShutdown, drain,
                   signalled, exitErr, traffic>>

\* http.Server.Serve registers the listener, unless Shutdown came in between.
Track ==
    /\ Alive
    /\ serve = "bound"
    /\ serve' = IF inShutdown THEN "done" ELSE "accepting"
    /\ UNCHANGED <<main, phase, owner, shutErr, httpServer, inShutdown, drain,
                   signalled, exitErr, traffic>>

\* Accept returns an error: ErrServerClosed, which Serve ignores, when the
\* server is shutting down; otherwise a failure of the listener.
AcceptEnds ==
    /\ Alive
    /\ serve = "accepting"
    /\ serve' = IF inShutdown THEN "done" ELSE "failed"
    /\ UNCHANGED <<main, phase, owner, shutErr, httpServer, inShutdown, drain,
                   signalled, exitErr, traffic>>

\* s.Shutdown(fmt.Errorf("failed listening http ..."))
ServeShutdown ==
    /\ Alive
    /\ serve = "failed"
    /\ \/ /\ Claim("serve", ListenErr)
          /\ serve' = "drains"
       \/ /\ phase # "open"
          /\ serve' = "done"
          /\ UNCHANGED <<phase, owner, shutErr>>
    /\ UNCHANGED <<main, httpServer, inShutdown, drain, signalled, exitErr, traffic>>

-------------------------------------------------------------------------------
(* The OnTerminating callback, on the goroutine that owns the shutdown.       *)

\* A bug: a Serve that keeps the HTTP server to itself.
SeesNoHttpServer == {FALSE}

\* What the callback reads in srv.httpServer.  Nothing orders the read after
\* Serve's assignment: when main runs the callback just after the assignment
\* it may still read nil.
SeenHttpServer ==
    IF owner = "main" /\ serve = "assigned" THEN BOOLEAN ELSE {httpServer}

\* Without an HTTP server there is nothing to drain.
SkipDrain ==
    /\ Alive
    /\ Terminating
    /\ drain = "none"
    /\ FALSE \in SeenHttpServer
    /\ drain' = "skipped"
    /\ Terminate
    /\ UNCHANGED <<owner, shutErr, httpServer, inShutdown, signalled, exitErr, traffic>>

\* httpServer.Shutdown(ctx): no more listening, then wait for Serve to return.
StartDrain ==
    /\ Alive
    /\ Terminating
    /\ drain = "none"
    /\ TRUE \in SeenHttpServer
    /\ inShutdown' = TRUE
    /\ drain' = "closing"
    /\ UNCHANGED <<main, serve, phase, owner, shutErr, httpServer, signalled, exitErr, traffic>>

\* A bug: not waiting for the accept loop.
ListenerIgnored ==
    /\ Alive
    /\ drain = "closing"
    /\ drain' = "draining"
    /\ UNCHANGED <<main, serve, phase, owner, shutErr, httpServer, inShutdown,
                   signalled, exitErr, traffic>>

ListenerGone ==
    /\ Alive
    /\ drain = "closing"
    /\ serve # "accepting"
    /\ drain' = "draining"
    /\ UNCHANGED <<main, serve, phase, owner, shutErr, httpServer, inShutdown,
                   signalled, exitErr, traffic>>

Quiet(c) == conn[c] \in {"new", "idle"}

\* One poll of http.Server.Shutdown: idle connections are closed, and so is a
\* new one that sent nothing for five seconds; when no other is left the drain
\* is complete.
Poll ==
    /\ Alive
    /\ drain = "draining"
    /\ \E C \in SUBSET {c \in Conns : conn[c] = "new"} :
          LET left == {c \in Conns \ C : conn[c] \notin {"none", "idle"}}
          IN  /\ conn' = [c \in Conns |-> IF c \in left THEN conn[c] ELSE "none"]
              /\ \/ left = {} /\ drain' = "clean" /\ Terminate
                 \/ left # {} /\ UNCHANGED <<drain, main, serve, phase>>
    /\ UNCHANGED <<owner, shutErr, httpServer, inShutdown, signalled, exitErr,
                   req, late, answer>>

\* A bug: a drain without a deadline.
DrainUntilQuiet ==
    /\ Alive
    /\ drain = "draining"
    /\ \A c \in Conns : conn[c] \notin Busy
    /\ drain' = "expired"
    /\ Terminate
    /\ UNCHANGED <<owner, shutErr, httpServer, inShutdown, signalled, exitErr, traffic>>

\* The 15 seconds of the context are over: Shutdown returns, its error is
\* dropped.
DrainTimeout ==
    /\ Alive
    /\ drain = "draining"
    /\ drain' = "expired"
    /\ Terminate
    /\ UNCHANGED <<owner, shutErr, httpServer, inShutdown, signalled, exitErr, traffic>>

-------------------------------------------------------------------------------
(* serveJSONRPCE                                                              *)

SignalArrives ==
    /\ Alive
    /\ ~signalled
    /\ signalled' = TRUE
    /\ UNCHANGED <<main, serve, phase, owner, shutErr, httpServer, inShutdown, drain,
                   exitErr, traffic>>

MainSignal ==
    /\ main = "select"
    /\ signalled
    /\ main' = "shutdown"
    /\ UNCHANGED <<serve, phase, owner, shutErr, httpServer, inShutdown, drain,
                   signalled, exitErr, traffic>>

\* server.Shutdown(nil)
MainShutdown ==
    /\ main = "shutdown"
    /\ \/ /\ Claim("main", Nil)
          /\ main' = "drains"
       \/ /\ phase # "open"
          /\ main' = "await"
          /\ UNCHANGED <<phase, owner, shutErr>>
    /\ UNCHANGED <<serve, httpServer, inShutdown, drain, signalled, exitErr, traffic>>

\* The process ends with the main goroutine, whatever is being served.
Exit(err) ==
    /\ main' = "exited"
    /\ exitErr' = err
    /\ conn' = [c \in Conns |-> IF conn[c] \in Busy THEN "killed" ELSE "none"]
    /\ UNCHANGED <<serve, phase, owner, shutErr, httpServer, inShutdown, drain,
                   signalled, req, late, answer>>

\* A bug: returning nil whatever the server died of.
MainTerminatedNil ==
    /\ main = "select"
    /\ phase = "terminated"
    /\ Exit(Nil)

\* case <-server.Terminated(): return server.Err()
MainTerminated ==
    /\ main = "select"
    /\ phase = "terminated"
    /\ Exit(shutErr)

\* <-server.Terminated() after the signal: return nil
MainAwait ==
    /\ main = "await"
    /\ phase = "terminated"
    /\ Exit(Nil)

-------------------------------------------------------------------------------
(* Connections                                                                *)

\* The accept loop: also a connection that came in just before the listener
\* was closed.
Accept(c) ==
    /\ Alive
    /\ serve = "accepting"
    /\ conn[c] = "none"
    /\ conn' = [conn EXCEPT ![c] = "new"]
    /\ UNCHANGED <<life, req, late, answer>>

\* A client gives up a connection on which nothing is happening.
Hangup(c) ==
    /\ Alive
    /\ Quiet(c)
    /\ conn' = [conn EXCEPT ![c] = "none"]
    /\ UNCHANGED <<life, req, late, answer>>

\* The header of a request has been read, on a new or a kept-alive connection.
Receive(c, r) ==
    /\ Alive
    /\ Quiet(c)
    /\ conn' = [conn EXCEPT ![c] = "route"]
    /\ req' = [req EXCEPT ![c] = r]
    /\ late' = [late EXCEPT ![c] = (phase # "open")]
    /\ UNCHANGED <<life, answer>>

\* Stage s of the pipeline ends by answering a, or by going on to stage t.
AnswerWith(c, s, a) ==
    /\ conn[c] = s
    /\ conn' = [conn EXCEPT ![c] = "write"]
    /\ answer' = [answer EXCEPT ![c] = a]
    /\ UNCHANGED <<life, req, late>>

GoOn(c, s, t) ==
    /\ conn[c] = s
    /\ conn' = [conn EXCEPT ![c] = t]
    /\ UNCHANGED <<life, req, late, answer>>

\* A bug: asking whether the server has terminated instead of whether it is
\* terminating.
HealthTooLate == IF phase = "terminated" THEN "503" ELSE "ok"

\* /healthz: isReady is constantly true in this program.
Health == IF phase # "open" THEN "503" ELSE "ok"

Routed(c) ==
    /\ Alive
    /\ \/ Route(req[c]) = "health"        /\ AnswerWith(c, "route", Health)
       \/ Route(req[c]) \in {"404", "405"} /\ AnswerWith(c, "route", Route(req[c]))
       \/ /\ Route(req[c]) = "rpc"
          /\ conn[c] = "route"
          /\ conn' = [conn EXCEPT ![c] = "decode"]
          /\ req' = [req EXCEPT ![c] = ForceJson(@)]
          /\ UNCHANGED <<life, late, answer>>

Decoded(c) ==
    /\ Alive
    /\ conn[c] = "decode"
    /\ IF Decode(req[c]) = "decoded"
       THEN GoOn(c, "decode", "validate")
       ELSE AnswerWith(c, "decode", Decode(req[c]))

Validated(c) ==
    /\ Alive
    /\ conn[c] = "validate"
    /\ IF ValidateRequest(req[c])
       THEN GoOn(c, "validate", "invoke")
       ELSE AnswerWith(c, "validate", "notValidateable")

\* The request is over; its connection goes to state s.
RequestEnds(c, s) ==
    /\ conn' = [conn EXCEPT ![c] = s]
    /\ req' = [req EXCEPT ![c] = NoRequest]
    /\ late' = [late EXCEPT ![c] = FALSE]
    /\ answer' = [answer EXCEPT ![c] = "none"]
    /\ UNCHANGED life

\* A panic in the handler is recovered by net/http, which drops the connection.
Invoked(c) ==
    /\ Alive
    /\ conn[c] = "invoke"
    /\ IF Handler(req[c]) = "panic"
       THEN RequestEnds(c, "none")
       ELSE AnswerWith(c, "invoke", Handler(req[c]))

\* The answer is out.  The connection is kept alive unless the server is
\* shutting down or the client wants it closed.
Written(c) ==
    /\ Alive
    /\ conn[c] = "write"
    /\ \E s \in IF inShutdown THEN {"none"} ELSE {"idle", "none"} : RequestEnds(c, s)

\* The process is gone; nothing happens any more.
Gone ==
    /\ ~Alive
    /\ UNCHANGED vars

-------------------------------------------------------------------------------
ServeGoroutine == ServeAssign \/ Listen \/ Track \/ AcceptEnds \/ ServeShutdown
Callback == SkipDrain \/ StartDrain \/ ListenerGone \/ Poll \/ DrainTimeout
MainGoroutine == MainSignal \/ MainShutdown \/ MainTerminated \/ MainAwait

Client(c) == Accept(c) \/ Hangup(c) \/ \E r \in Requests : Receive(c, r)
Connection(c) == Routed(c) \/ Decoded(c) \/ Validated(c) \/ Invoked(c) \/ Written(c)

Next ==
    \/ ServeGoroutine
    \/ Callback
    \/ MainGoroutine
    \/ SignalArrives
    \/ \E c \in Conns : Client(c) \/ Connection(c)
    \/ Gone

Spec == Init /\ [][Next]_vars

\* Goroutines are scheduled and the drain's timer fires.  Nothing is assumed
\* of clients: they need not connect, send a body to the end or read an
\* answer, and no signal need come.  The listener need not fail either: only
\* an accept loop that is shutting down is bound to end.
Fairness ==
    /\ WF_vars(ServeAssign) /\ WF_vars(Listen) /\ WF_vars(Track)
    /\ WF_vars(inShutdown /\ AcceptEnds) /\ WF_vars(ServeShutdown)
    /\ WF_vars(SkipDrain \/ StartDrain) /\ WF_vars(ListenerGone)
    /\ WF_vars(Poll) /\ WF_vars(DrainTimeout)
    /\ WF_vars(MainGoroutine)

FairSpec == Spec /\ Fairness

-------------------------------------------------------------------------------
(* Properties                                                                 *)

LifeTypes ==
    /\ main \in {"select", "shutdown", "drains", "await", "exited"}
    /\ serve \in {"init", "assigned", "bound", "accepting", "failed", "drains", "done"}
    /\ phase \in {"open", "terminating", "terminated"}
    /\ owner \in {"nobody", "main", "serve"}
    /\ shutErr \in {Nil, ListenErr}
    /\ httpServer \in BOOLEAN
    /\ inShutdown \in BOOLEAN
    /\ drain \in {"none", "skipped", "closing", "draining", "clean", "expired"}
    /\ signalled \in BOOLEAN
    /\ exitErr \in {Nil, ListenErr}

TrafficTypes ==
    /\ conn \in [Conns -> {"none", "new", "idle", "killed"} \cup Busy]
    /\ req \in [Conns -> AllRequests \cup {NoRequest}]
    /\ late \in [Conns -> BOOLEAN]
    /\ answer \in [Conns -> Answers \cup {"none"}]

TypeOK == LifeTypes /\ TrafficTypes

\* The two parties to the shutdown agree on who runs it and how far it is:
\* the callback runs once, on the goroutine whose Shutdown came first, and the
\* process only ends when it has returned.
OneShutdown ==
    /\ phase = "open" <=> owner = "nobody"
    /\ phase = "terminating" /\ owner = "main" <=> main = "drains"
    /\ phase = "terminating" /\ owner = "serve" <=> serve = "drains"
    /\ phase = "terminated" <=> drain \in {"skipped", "clean", "expired"}
    /\ phase = "open" => drain = "none"
    /\ inShutdown <=> drain \in {"closing", "draining", "clean", "expired"}
    /\ main \in {"select", "shutdown"} => owner # "main"
    /\ main = "await" => phase # "open"
    /\ main = "exited" => phase = "terminated"

\* Where errors come from: only Serve's own Shutdown carries one, and only a
\* signal makes main call Shutdown.
ErrorOrigin ==
    /\ shutErr = ListenErr <=> owner = "serve"
    /\ ~signalled => main \in {"select", "exited"} /\ owner # "main"
    /\ exitErr # Nil => exitErr = shutErr /\ main = "exited"
    /\ main = "exited" /\ ~signalled => exitErr = shutErr

\* What the drain has established about listener and connections.
DrainProgress ==
    /\ drain \in {"draining", "clean", "expired"} => serve # "accepting"
    /\ drain = "clean" => \A c \in Conns : conn[c] = "none"
    /\ Alive => \A c \in Conns : conn[c] # "killed"

\* Before the first accept there are no connections, and only then is a drain
\* skipped: whoever is served after that came when the shutdown had begun.
SkipIsEarly ==
    /\ httpServer <=> serve # "init"
    /\ serve \in {"init", "assigned", "bound"} => \A c \in Conns : conn[c] = "none"
    /\ drain = "skipped" =>
          \A c \in Conns : conn[c] \in Busy \cup {"killed"} => late[c]

\* Whoever is served has a request.
BusyOnRequest == \A c \in Conns : conn[c] \in Busy => req[c] \in AllRequests

\* The inductive invariant behind the theorems of BeaconProxyProofs.
IInv ==
    /\ TypeOK /\ BusyOnRequest /\ OneShutdown /\ ErrorOrigin
    /\ DrainProgress /\ SkipIsEarly

\* A request is cut off by the end of the process only when the time of the
\* drain ran out: a drain that http.Server.Shutdown reported complete, with
\* requests still arriving on kept-alive connections while it ran, leaves
\* nobody behind.  A drain that was skipped, because the signal came before the
\* server, only leaves who came to a server that was already shutting down.
OnlyTimeoutInterrupts ==
    \A c \in Conns : conn[c] = "killed" => drain = "expired" \/ (drain = "skipped" /\ late[c])

\* A listener that fails is reported: without a signal the process can only
\* end by returning the listener's error, and an error it returns is never
\* made up.  (With a signal at the same time the error may be dropped.)
ListenFailureReported ==
    /\ main = "exited" /\ ~signalled => exitErr = ListenErr
    /\ exitErr = ListenErr => owner = "serve"

\* A reply comes only from a handler whose request was routed to the RPC
\* server, decoded and passed validation; and whatever content type a client
\* declares, none is told that it is unsupported.
RepliesAreValidated ==
    \A c \in Conns :
        /\ conn[c] = "write" /\ answer[c] = "reply" =>
              /\ Route(req[c]) = "rpc"
              /\ req[c].method \in Methods
              /\ req[c].param # "illTyped"
              /\ ValidateRequest(req[c])
        /\ answer[c] # "415"

\* The two methods that are registered and not served, and all the others.
Servable == Methods \ {"engine_forkchoiceUpdatedV1", "eth_getBlockByNumber"}

\* Whatever else is registered is served: a request for it with parameters of
\* its type is replied to, and never refused, as long as the process lives.
ServableAreServed ==
    \A c \in Conns :
        /\ conn[c] = "write" /\ Route(req[c]) = "rpc"
        /\ req[c].method \in Servable /\ req[c].param # "illTyped"
        => answer[c] = "reply"

\* Load balancers can rely on /healthz: a probe routed after termination began
\* is answered 503, and 503 is only said when termination has begun.
HealthIsTruthful ==
    \A c \in Conns :
        conn[c] = "write" /\ Route(req[c]) = "health" =>
            /\ late[c] => answer[c] = "503"
            /\ answer[c] = "503" => phase # "open"

\* A signal, or a listener that fails, eventually ends the process: the drain
\* waits for slow clients but not for ever, and the two ways to shut down
\* never wait for each other.
ShutdownCompletes == (signalled \/ serve = "failed") ~> main = "exited"

\* The proxy keeps the promise of GracefulService: the door is open while the
\* accept loop runs, and sealed once http.Server.Shutdown was called and the
\* loop has ended.
Door ==
    IF serve = "accepting" THEN "open" ELSE IF inShutdown THEN "sealed" ELSE "closed"

Standing ==
    [c \in Conns |-> CASE conn[c] = "none"            -> "out"
                       [] conn[c] \in {"new", "idle"} -> "in"
                       [] conn[c] \in Busy            -> "served"
                       [] conn[c] = "killed"          -> "cut"]

Service == INSTANCE GracefulService WITH
    Clients <- Conns, door <- Door, client <- Standing,
    grace <- drain = "expired", alive <- Alive

IsGraceful == Service!Spec

\* json-rpc/server.go:109 says, when there is an HTTP server to drain: "allowing
\* server to gracefully shuts down without interrupting any active connections".
NoActiveConnectionInterrupted ==
    drain # "skipped" => \A c \in Conns : conn[c] # "killed"

\* json-rpc/validator.go:32 requires the argument type of every method to
\* implement Validateable; a method that is registered and reaches validation
\* should then never be refused for it.
RegisteredMethodsServable == \A c \in Conns : answer[c] # "notValidateable"
===============================================================================
