--------------------------- MODULE BeaconProxyProofs ---------------------------
(****************************************************************************)
(* What holds of BeaconProxy for every set of connections and requests.      *)
(****************************************************************************)
EXTENDS BeaconProxy, Naturals, TLAPS

-------------------------------------------------------------------------------
(* What the operators of the pipeline return.                                 *)

LEMMA RouteRange == ASSUME NEW r PROVE Route(r) \in {"health", "rpc", "404", "405"}
  BY DEF Route

LEMMA DecodeRange == ASSUME NEW r PROVE Decode(r) \in {"415", "rpcError", "decoded"}
  BY DEF Decode

LEMMA HandlerRange == ASSUME NEW r PROVE Handler(r) \in {"reply", "rpcError", "panic"}
  BY DEF Handler

\* Forcing the content type of a request yields a request again.
LEMMA ForceJsonType == ASSUME NEW r \in AllRequests PROVE ForceJson(r) \in AllRequests
  BY DEF ForceJson, AllRequests, ContentTypes

-------------------------------------------------------------------------------
(* The kinds of step: those of the life of the process leave the connections  *)
(* alone, those of a connection leave the life of the process alone.  Two     *)
(* touch both, Poll and Exit.                                                 *)

LifeOnly ==
    \/ ServeGoroutine \/ SkipDrain \/ StartDrain \/ ListenerGone \/ DrainTimeout
    \/ MainSignal \/ MainShutdown \/ SignalArrives

\* Steps of the process's life alone leave the connections alone.
LEMMA LifeOnlyFrame == LifeOnly => UNCHANGED traffic
  BY DEF LifeOnly, ServeGoroutine, ServeAssign, Listen, Track, AcceptEnds, ServeShutdown, SkipDrain, StartDrain, ListenerGone, DrainTimeout, MainSignal, MainShutdown, SignalArrives

\* Steps of a connection leave the process alone.
LEMMA ConnectionFrame ==
    ASSUME NEW c \in Conns, Client(c) \/ Connection(c) PROVE UNCHANGED life
<1>1. CASE Client(c)
  BY <1>1 DEF Client, Accept, Hangup, Receive
<1>2. CASE Connection(c)
  BY <1>2 DEF Connection, Routed, Decoded, Validated, Invoked, Written,
              GoOn, AnswerWith, RequestEnds
<1> QED
  BY <1>1, <1>2

\* The process's own variables keep their types.
LEMMA LifeStep == LifeTypes /\ [Next]_vars => LifeTypes'
<1> SUFFICES ASSUME LifeTypes, [Next]_vars PROVE LifeTypes'
  OBVIOUS
<1> USE DEF LifeTypes, Nil, ListenErr
<1>1. CASE ServeAssign
  BY <1>1 DEF ServeAssign
<1>2. CASE Listen
  BY <1>2 DEF Listen
<1>3. CASE Track
  BY <1>3 DEF Track
<1>4. CASE AcceptEnds
  BY <1>4 DEF AcceptEnds
<1>5. CASE ServeShutdown
  BY <1>5 DEF ServeShutdown, Claim
<1>6. CASE SkipDrain
  BY <1>6 DEF SkipDrain, Terminate
<1>7. CASE StartDrain
  BY <1>7 DEF StartDrain
<1>8. CASE ListenerGone
  BY <1>8 DEF ListenerGone
<1>9. CASE Poll
  BY <1>9 DEF Poll, Terminate
<1>10. CASE DrainTimeout
  BY <1>10 DEF DrainTimeout, Terminate
<1>11. CASE MainSignal
  BY <1>11 DEF MainSignal
<1>12. CASE MainShutdown
  BY <1>12 DEF MainShutdown, Claim
<1>13. CASE MainTerminated
  BY <1>13 DEF MainTerminated, Exit
<1>14. CASE MainAwait
  BY <1>14 DEF MainAwait, Exit
<1>15. CASE SignalArrives
  BY <1>15 DEF SignalArrives
<1>16. ASSUME NEW c \in Conns, Client(c) \/ Connection(c) PROVE LifeTypes'
  <2>1. UNCHANGED life
    BY <1>16, ConnectionFrame
  <2> QED
    BY <2>1 DEF life
<1>17. CASE UNCHANGED vars
  BY <1>17 DEF vars, life
<1> QED
  BY <1>1, <1>2, <1>3, <1>4, <1>5, <1>6, <1>7, <1>8, <1>9, <1>10, <1>11, <1>12, <1>13, <1>14, <1>15, <1>16, <1>17 DEF Next, ServeGoroutine, Callback, MainGoroutine, Gone

\* Whatever a connection is doing keeps its type, and a request is there as
\* long as it is served.
LEMMA TrafficStep ==
    TrafficTypes /\ BusyOnRequest /\ [Next]_vars => TrafficTypes' /\ BusyOnRequest'
<1> SUFFICES ASSUME TrafficTypes, BusyOnRequest, [Next]_vars
             PROVE  TrafficTypes' /\ BusyOnRequest'
  OBVIOUS
<1> USE DEF TrafficTypes, BusyOnRequest, Busy
<1>1. CASE LifeOnly
  BY <1>1, LifeOnlyFrame DEF traffic
<1>2. CASE Poll
  BY <1>2 DEF Poll
<1>3. CASE MainTerminated \/ MainAwait
  BY <1>3 DEF MainTerminated, MainAwait, Exit
<1>4. ASSUME NEW c \in Conns, Client(c) PROVE TrafficTypes' /\ BusyOnRequest'
  <2>1. CASE Accept(c)
    BY <2>1 DEF Accept
  <2>2. CASE Hangup(c)
    BY <2>2 DEF Hangup
  <2>3. ASSUME NEW r \in Requests, Receive(c, r) PROVE TrafficTypes' /\ BusyOnRequest'
    <3>1. r \in AllRequests
      BY RequestsAssumption
    <3> QED
      BY <2>3, <3>1 DEF Receive
  <2> QED
    BY <1>4, <2>1, <2>2, <2>3 DEF Client
<1>5. ASSUME NEW c \in Conns, Connection(c) PROVE TrafficTypes' /\ BusyOnRequest'
  <2>1. CASE Routed(c)
    <3>1. conn[c] = "route" => req[c] \in AllRequests /\ ForceJson(req[c]) \in AllRequests
      BY ForceJsonType
    <3> QED
      BY <2>1, <3>1, RouteRange DEF Routed, AnswerWith, Health, Answers
  <2>2. CASE Decoded(c)
    BY <2>2, DecodeRange DEF Decoded, GoOn, AnswerWith, Answers
  <2>3. CASE Validated(c)
    BY <2>3 DEF Validated, GoOn, AnswerWith, Answers
  <2>4. CASE Invoked(c)
    BY <2>4, HandlerRange DEF Invoked, AnswerWith, RequestEnds, Answers
  <2>5. CASE Written(c)
    BY <2>5 DEF Written, RequestEnds
  <2> QED
    BY <1>5, <2>1, <2>2, <2>3, <2>4, <2>5 DEF Connection
<1>6. CASE UNCHANGED vars
  BY <1>6 DEF vars, traffic
<1> QED
  BY <1>1, <1>2, <1>3, <1>4, <1>5, <1>6
  DEF Next, ServeGoroutine, Callback, MainGoroutine, LifeOnly, Gone

\* The parties to the shutdown keep agreeing.
LEMMA ShutdownStep ==
    LifeTypes /\ OneShutdown /\ ErrorOrigin /\ [Next]_vars => OneShutdown' /\ ErrorOrigin'
<1> SUFFICES ASSUME LifeTypes, OneShutdown, ErrorOrigin, [Next]_vars
             PROVE  OneShutdown' /\ ErrorOrigin'
  OBVIOUS
<1> USE DEF LifeTypes, OneShutdown, ErrorOrigin, Nil, ListenErr
<1>1. CASE ServeAssign
  BY <1>1 DEF ServeAssign
<1>2. CASE Listen
  BY <1>2 DEF Listen
<1>3. CASE Track
  BY <1>3 DEF Track
<1>4. CASE AcceptEnds
  BY <1>4 DEF AcceptEnds
<1>5. CASE ServeShutdown
  BY <1>5 DEF ServeShutdown, Claim
<1>6. CASE SkipDrain
  BY <1>6 DEF SkipDrain, Terminate, Terminating
<1>7. CASE StartDrain
  BY <1>7 DEF StartDrain, Terminating
<1>8. CASE ListenerGone
  BY <1>8 DEF ListenerGone
<1>9. CASE Poll
  BY <1>9 DEF Poll, Terminate
<1>10. CASE DrainTimeout
  BY <1>10 DEF DrainTimeout, Terminate
<1>11. CASE MainSignal
  BY <1>11 DEF MainSignal
<1>12. CASE MainShutdown
  BY <1>12 DEF MainShutdown, Claim
<1>13. CASE MainTerminated
  BY <1>13 DEF MainTerminated, Exit
<1>14. CASE MainAwait
  BY <1>14 DEF MainAwait, Exit
<1>15. CASE SignalArrives
  BY <1>15 DEF SignalArrives
<1>16. ASSUME NEW c \in Conns, Client(c) \/ Connection(c)
       PROVE  OneShutdown' /\ ErrorOrigin'
  <2>1. UNCHANGED life
    BY <1>16, ConnectionFrame
  <2> QED
    BY <2>1 DEF life
<1>17. CASE UNCHANGED vars
  BY <1>17 DEF vars, life
<1> QED
  BY <1>1, <1>2, <1>3, <1>4, <1>5, <1>6, <1>7, <1>8, <1>9, <1>10, <1>11, <1>12, <1>13, <1>14, <1>15, <1>16, <1>17
  DEF Next, ServeGoroutine, Callback, MainGoroutine, Gone
\* What the drain has established stays established.
LEMMA DrainStep ==
    LifeTypes /\ TrafficTypes /\ OneShutdown /\ DrainProgress /\ [Next]_vars => DrainProgress'
<1> SUFFICES ASSUME LifeTypes, TrafficTypes, OneShutdown, DrainProgress, [Next]_vars
             PROVE  DrainProgress'
  OBVIOUS
<1> USE DEF LifeTypes, TrafficTypes, OneShutdown, DrainProgress, Alive
<1>1. CASE ServeGoroutine
  <2>1. UNCHANGED <<conn, drain, main>>
    BY <1>1 DEF ServeGoroutine, ServeAssign, Listen, Track, AcceptEnds, ServeShutdown, traffic
  <2>2. drain \in {"draining", "clean", "expired"} => serve' # "accepting"
    BY <1>1 DEF ServeGoroutine, ServeAssign, Listen, Track, AcceptEnds, ServeShutdown
  <2> QED
    BY <2>1, <2>2
<1>2. CASE SkipDrain
  BY <1>2 DEF SkipDrain, Terminate, Terminating, traffic
<1>3. CASE StartDrain
  BY <1>3 DEF StartDrain, Terminating, traffic
<1>4. CASE ListenerGone
  BY <1>4 DEF ListenerGone, traffic
<1>5. CASE Poll
  <2> DEFINE left(C) == {c \in Conns \ C : conn[c] \notin {"none", "idle"}}
  <2>1. PICK C \in SUBSET Conns :
            /\ conn' = [c \in Conns |-> IF c \in left(C) THEN conn[c] ELSE "none"]
            /\ \/ left(C) = {} /\ drain' = "clean" /\ Terminate
               \/ left(C) # {} /\ UNCHANGED <<drain, main, serve, phase>>
    BY <1>5 DEF Poll
  <2>2. CASE left(C) = {} /\ drain' = "clean" /\ Terminate
    BY <1>5, <2>1, <2>2 DEF Poll, Terminate
  <2>3. CASE left(C) # {} /\ UNCHANGED <<drain, main, serve, phase>>
    BY <1>5, <2>1, <2>3 DEF Poll
  <2> QED
    BY <2>1, <2>2, <2>3
<1>6. CASE DrainTimeout
  BY <1>6 DEF DrainTimeout, Terminate, traffic
<1>7. CASE MainSignal \/ MainShutdown \/ SignalArrives
  BY <1>7 DEF MainSignal, MainShutdown, SignalArrives, Claim, traffic
<1>8. CASE MainTerminated \/ MainAwait
  BY <1>8 DEF MainTerminated, MainAwait, Exit, Busy
<1>9. ASSUME NEW c \in Conns, Client(c) \/ Connection(c) PROVE DrainProgress'
  <2>1. UNCHANGED <<main, serve, drain>>
    BY <1>9, ConnectionFrame DEF life
  <2>2. drain # "clean"
    BY <1>9 DEF Client, Connection, Accept, Hangup, Receive, Quiet, Routed, Decoded,
                Validated, Invoked, Written, GoOn, AnswerWith
  <2>3. \E s \in {"none", "new", "idle"} \cup Busy : conn' = [conn EXCEPT ![c] = s]
    BY <1>9 DEF Client, Connection, Accept, Hangup, Receive, Routed, Decoded,
                Validated, Invoked, Written, GoOn, AnswerWith, RequestEnds, Busy
  <2> QED
    BY <2>1, <2>2, <2>3 DEF Busy
<1>10. CASE UNCHANGED vars
  BY <1>10 DEF vars, life, traffic
<1> QED
  BY <1>1, <1>2, <1>3, <1>4, <1>5, <1>6, <1>7, <1>8, <1>9, <1>10
  DEF Next, Callback, MainGoroutine, Gone

\* Before the first accept there is nobody to lose: the callback can only miss
\* the HTTP server then, and whoever comes later comes to a process that is
\* terminating.
LEMMA SkipStep ==
    LifeTypes /\ TrafficTypes /\ OneShutdown /\ SkipIsEarly /\ [Next]_vars => SkipIsEarly'
<1> SUFFICES ASSUME LifeTypes, TrafficTypes, OneShutdown, SkipIsEarly, [Next]_vars
             PROVE  SkipIsEarly'
  OBVIOUS
<1> USE DEF SkipIsEarly
<1>1. CASE ServeGoroutine
  <2>1. UNCHANGED <<conn, late, drain>>
    BY <1>1, LifeOnlyFrame DEF LifeOnly, traffic, ServeGoroutine, ServeAssign, Listen, Track,
         AcceptEnds, ServeShutdown
  <2>2. /\ httpServer' <=> serve' # "init"
        /\ serve' \in {"init", "assigned", "bound"} => serve \in {"init", "assigned", "bound"}
    BY <1>1 DEF ServeGoroutine, ServeAssign, Listen, Track, AcceptEnds, ServeShutdown
  <2> QED
    BY <2>1, <2>2
<1>2. CASE SkipDrain
  <2>1. serve \in {"init", "assigned"}
    BY <1>2 DEF SkipDrain, SeenHttpServer, LifeTypes
  <2>2. \A c \in Conns : conn[c] = "none"
    BY <2>1
  <2>3. UNCHANGED <<conn, late, httpServer>>
    BY <1>2 DEF SkipDrain, traffic
  <2>4. serve' = serve
    BY <1>2, <2>1 DEF SkipDrain, Terminate, Terminating, OneShutdown
  <2> QED
    BY <2>2, <2>3, <2>4 DEF Busy
<1>3. CASE StartDrain \/ ListenerGone
  <2>1. UNCHANGED <<serve, httpServer, conn, late>> /\ drain' # "skipped"
    BY <1>3 DEF StartDrain, ListenerGone, traffic
  <2> QED
    BY <2>1
<1>4. CASE Poll
  <2>1. /\ UNCHANGED <<httpServer, late>>
        /\ drain' # "skipped"
        /\ \A c \in Conns : conn'[c] \in {conn[c], "none"}
    BY <1>4 DEF Poll
  <2>2. serve' = serve \/ (serve = "drains" /\ serve' = "done")
    BY <1>4 DEF Poll, Terminate, OneShutdown, LifeTypes
  <2> QED
    BY <2>1, <2>2
<1>5. CASE DrainTimeout
  <2>1. /\ UNCHANGED <<httpServer, conn, late>>
        /\ drain' # "skipped"
    BY <1>5 DEF DrainTimeout, traffic
  <2>2. serve' = serve \/ (serve = "drains" /\ serve' = "done")
    BY <1>5 DEF DrainTimeout, Terminate, OneShutdown, LifeTypes
  <2> QED
    BY <2>1, <2>2
<1>6. CASE MainSignal \/ MainShutdown \/ SignalArrives
  BY <1>6 DEF MainSignal, MainShutdown, SignalArrives, traffic
<1>7. CASE MainTerminated \/ MainAwait
  BY <1>7 DEF MainTerminated, MainAwait, Exit, Busy
<1>8. ASSUME NEW c \in Conns, Client(c) \/ Connection(c) PROVE SkipIsEarly'
  <2>1. UNCHANGED <<serve, httpServer, drain, phase>>
    BY <1>8, ConnectionFrame DEF life
  <2>2. serve \notin {"init", "assigned", "bound"}
    BY <1>8 DEF Client, Connection, Accept, Hangup, Receive, Quiet, Routed, Decoded, Validated,
         Invoked, Written, AnswerWith
  <2>3. drain = "skipped" => phase # "open"
    BY DEF OneShutdown
  <2>4. CASE Client(c)
    BY <2>1, <2>2, <2>3, <2>4 DEF Client, Accept, Hangup, Receive, TrafficTypes, Busy
  <2>5. CASE Connection(c)
    <3>1. \/ UNCHANGED late /\ conn[c] \in Busy
          \/ conn' = [conn EXCEPT ![c] = conn'[c]] /\ conn'[c] \in {"idle", "none"}
             /\ late' = [late EXCEPT ![c] = FALSE]
      BY <2>5 DEF Connection, Routed, Decoded, Validated, Invoked, Written, GoOn, AnswerWith,
           RequestEnds, Busy, TrafficTypes
    <3>2. \A d \in Conns : d # c => conn'[d] = conn[d]
      BY <2>5 DEF Connection, Routed, Decoded, Validated, Invoked, Written, GoOn, AnswerWith,
           RequestEnds, TrafficTypes
    <3> QED
      BY <2>1, <2>2, <3>1, <3>2 DEF Busy, TrafficTypes
  <2> QED
    BY <1>8, <2>4, <2>5
<1>9. CASE UNCHANGED vars
  BY <1>9 DEF vars, life, traffic
<1> QED
  BY <1>1, <1>2, <1>3, <1>4, <1>5, <1>6, <1>7, <1>8, <1>9
  DEF Next, Callback, MainGoroutine, Gone

-------------------------------------------------------------------------------
(* The theorems.                                                              *)

\* The inductive invariant, for any number of connections and any requests.
THEOREM Invariance == Spec => []IInv
<1>1. Init => IInv
  BY DEF Init, IInv, TypeOK, LifeTypes, TrafficTypes, BusyOnRequest, OneShutdown,
         ErrorOrigin, DrainProgress, SkipIsEarly, Alive, Nil, ListenErr, Busy
<1>2. IInv /\ [Next]_vars => IInv'
  BY LifeStep, TrafficStep, ShutdownStep, DrainStep, SkipStep DEF IInv, TypeOK
<1> QED
  BY <1>1, <1>2, PTL DEF Spec

\* Every variable keeps its type.
THEOREM TypeCorrectness == Spec => []TypeOK
<1>1. IInv => TypeOK
  BY DEF IInv
<1> QED
  BY <1>1, Invariance, PTL

\* The process can only exit when the shutter has terminated.  A drain that was
\* not skipped and did not expire was clean: it left no connection to cut.  One
\* that was skipped was skipped before the first connection was accepted.
THEOREM CleanDrain == Spec => []OnlyTimeoutInterrupts
<1>1. IInv => OnlyTimeoutInterrupts
  BY DEF IInv, TypeOK, LifeTypes, OneShutdown, DrainProgress, SkipIsEarly,
         OnlyTimeoutInterrupts, Alive
<1> QED
  BY <1>1, Invariance, PTL

\* Without a signal only Serve can own the shutdown, and Serve's error is what
\* the process returns.
THEOREM ListenFailure == Spec => []ListenFailureReported
<1>1. IInv => ListenFailureReported
  BY DEF IInv, TypeOK, LifeTypes, OneShutdown, ErrorOrigin, ListenFailureReported,
         Nil, ListenErr
<1> QED
  BY <1>1, Invariance, PTL
-------------------------------------------------------------------------------
(* BeaconProxy implements GracefulService.                                    *)

\* How a connection's state maps to a client's.
StandingOf(s) ==
    CASE s = "none"            -> "out"
      [] s \in {"new", "idle"} -> "in"
      [] s \in Busy            -> "served"
      [] s = "killed"          -> "cut"

\* The mapping, as a function and connection by connection.
LEMMA StandingAt == Standing = [c \in Conns |-> StandingOf(conn[c])]
  BY DEF Standing, StandingOf

LEMMA StandingPoint == \A c \in Conns : Standing[c] = StandingOf(conn[c])
  BY StandingAt

\* What the mapping says of each kind of connection.
LEMMA StandingValue ==
    /\ StandingOf("none") = "out"
    /\ StandingOf("new") = "in" /\ StandingOf("idle") = "in"
    /\ \A s \in Busy : StandingOf(s) = "served"
    /\ StandingOf("killed") = "cut"
  BY DEF StandingOf, Busy

\* The same for the next state.
LEMMA StandingNext == Standing' = [c \in Conns |-> StandingOf(conn'[c])]
  BY DEF Standing, StandingOf

\* A step that moves one connection moves one client.
LEMMA OneMoves ==
    ASSUME TrafficTypes, NEW c \in Conns
    PROVE  \A s : conn' = [conn EXCEPT ![c] = s] => Standing' = [Standing EXCEPT ![c] = StandingOf(s)]
<1> SUFFICES ASSUME NEW s, conn' = [conn EXCEPT ![c] = s]
             PROVE  Standing' = [Standing EXCEPT ![c] = StandingOf(s)]
  OBVIOUS
<1>1. \A d \in Conns : conn'[d] = IF d = c THEN s ELSE conn[d]
  BY DEF TrafficTypes
<1> QED
  BY <1>1, StandingAt, StandingNext

\* A step that leaves connections, accept loop and drain alone is a stutter.
LEMMA Stutter ==
    ASSUME UNCHANGED <<conn, drain = "expired", Alive>>, Door' = Door
    PROVE  UNCHANGED Service!vars
<1>1. Standing' = Standing
  BY StandingAt, StandingNext
<1> QED
  BY <1>1 DEF Service!vars

\* Steps that only move the door.
LEMMA DoorStep ==
    ASSUME UNCHANGED <<conn, drain = "expired", Alive>>, Alive, Door # "sealed"
    PROVE  Service!Swing
<1>1. Standing' = Standing
  BY StandingAt, StandingNext
<1>2. Door' \in {"closed", "open", "sealed"}
  BY DEF Door
<1> QED
  BY <1>1, <1>2 DEF Service!Swing
\* Every step of the process's life is one of the service's, or a stutter.
LEMMA LifeSimulation ==
    ASSUME IInv, LifeOnly PROVE [Service!Next]_(Service!vars)
<1> USE DEF IInv, TypeOK, LifeTypes, OneShutdown, DrainProgress, Alive
<1>0. UNCHANGED conn
  BY LifeOnlyFrame DEF traffic
<1>1. CASE ServeGoroutine
  <2>1. UNCHANGED <<inShutdown, drain, main>>
    BY <1>1 DEF ServeGoroutine, ServeAssign, Listen, Track, AcceptEnds, ServeShutdown
  <2>2. CASE Track \/ AcceptEnds
    <3>1. main # "exited" /\ (Door # "sealed" \/ Door' = Door)
      BY <2>1, <2>2 DEF Track, AcceptEnds, Door
    <3> QED
      BY <1>0, <2>1, <3>1, Stutter, DoorStep DEF Service!Next
  <2>3. CASE ServeAssign \/ Listen \/ ServeShutdown
    <3>1. Door' = Door
      BY <2>1, <2>3 DEF ServeAssign, Listen, ServeShutdown, Door
    <3> QED
      BY <1>0, <2>1, <3>1, Stutter
  <2> QED
    BY <1>1, <2>2, <2>3 DEF ServeGoroutine
<1>2. CASE SkipDrain
  <2>1. UNCHANGED <<inShutdown, drain = "expired", Alive>> /\ Door' = Door
    BY <1>2 DEF SkipDrain, Terminate, Terminating, Door
  <2> QED
    BY <1>0, <2>1, Stutter
<1>3. CASE StartDrain
  <2>1. main # "exited" /\ UNCHANGED <<drain = "expired", main>> /\ Door # "sealed"
    BY <1>3 DEF StartDrain, Door
  <2> QED
    BY <1>0, <2>1, DoorStep DEF Service!Next
<1>4. CASE ListenerGone
  <2>1. UNCHANGED <<inShutdown, drain = "expired", Alive>> /\ Door' = Door
    BY <1>4 DEF ListenerGone, Door
  <2> QED
    BY <1>0, <2>1, Stutter
<1>5. CASE DrainTimeout
  <2>1. /\ main # "exited" /\ main' # "exited"
        /\ Door = "sealed" /\ Door' = Door /\ drain' = "expired"
    BY <1>5 DEF DrainTimeout, Terminate, Door
  <2>2. Standing' = Standing
    BY <1>0, StandingAt, StandingNext
  <2>3. Service!Expire
    BY <2>1, <2>2 DEF Service!Expire
  <2> QED
    BY <2>3 DEF Service!Next
<1>6. CASE MainSignal \/ MainShutdown \/ SignalArrives
  <2>1. UNCHANGED <<inShutdown, drain = "expired", Alive>> /\ Door' = Door
    BY <1>6 DEF MainSignal, MainShutdown, SignalArrives, Door
  <2> QED
    BY <1>0, <2>1, Stutter
<1> QED
  BY <1>1, <1>2, <1>3, <1>4, <1>5, <1>6 DEF LifeOnly

\* A poll shows out the idle connections and some of the new ones.
LEMMA PollSimulation ==
    ASSUME IInv, Poll PROVE Service!Next
<1> USE DEF IInv, TypeOK, LifeTypes, TrafficTypes, OneShutdown, DrainProgress
<1> DEFINE left(C) == {c \in Conns \ C : conn[c] \notin {"none", "idle"}}
<1>1. PICK C \in SUBSET {c \in Conns : conn[c] = "new"} :
          conn' = [c \in Conns |-> IF c \in left(C) THEN conn[c] ELSE "none"]
  BY DEF Poll
<1> DEFINE out == {c \in Conns : conn[c] \in {"new", "idle"} /\ c \notin left(C)}
<1>2. out \in SUBSET {c \in Conns : Standing[c] = "in"}
  BY StandingPoint, StandingValue
<1>3. \A c \in Conns : StandingOf(conn'[c]) = IF c \in out THEN "out" ELSE StandingOf(conn[c])
  BY <1>1 DEF StandingOf, Busy
<1>4. Standing' = [c \in Conns |-> IF c \in out THEN "out" ELSE Standing[c]]
  BY <1>3, StandingAt, StandingNext
<1>5. UNCHANGED <<Door, drain = "expired", Alive>> /\ Alive
  BY DEF Poll, Terminate, Door, Alive
<1>6. Service!Leave
  BY <1>2, <1>4, <1>5 DEF Service!Leave
<1> QED
  BY <1>6 DEF Service!Next

\* The process exits only when the service may die.
LEMMA ExitSimulation ==
    ASSUME IInv, MainTerminated \/ MainAwait PROVE Service!Next
<1> USE DEF IInv, TypeOK, LifeTypes, TrafficTypes, OneShutdown, DrainProgress
<1>1. /\ Alive /\ ~Alive'
      /\ phase = "terminated"
      /\ UNCHANGED <<serve, inShutdown, drain>>
      /\ conn' = [c \in Conns |-> IF conn[c] \in Busy THEN "killed" ELSE "none"]
  BY DEF MainTerminated, MainAwait, Exit, Alive
<1>2. Door = "sealed" => drain = "expired" \/ \A c \in Conns : Standing[c] = "out"
  BY <1>1, StandingPoint, StandingValue DEF Door
<1>3. \A c \in Conns : StandingOf(conn'[c]) = IF StandingOf(conn[c]) = "served" THEN "cut" ELSE "out"
  BY <1>1 DEF StandingOf, Busy
<1>4. Standing' = [c \in Conns |-> IF Standing[c] = "served" THEN "cut" ELSE "out"]
  BY <1>3, StandingAt, StandingNext
<1>5. Service!Die
  BY <1>1, <1>2, <1>4 DEF Service!Die, Door
<1> QED
  BY <1>5 DEF Service!Next
\* A connection's own steps, as the client sees them.
LEMMA ConnectionSimulation ==
    ASSUME IInv, NEW c \in Conns, Client(c) \/ Connection(c)
    PROVE  [Service!Next]_(Service!vars)
<1> USE DEF IInv, TypeOK
<1>0. /\ Standing[c] = StandingOf(conn[c])
      /\ \A s : conn' = [conn EXCEPT ![c] = s] => Standing' = [Standing EXCEPT ![c] = StandingOf(s)]
  BY OneMoves, StandingPoint
<1>1. UNCHANGED <<Door, drain = "expired", Alive>> /\ Alive
  BY ConnectionFrame DEF life, Door, Alive, Client, Connection, Accept, Hangup, Receive,
                         Routed, Decoded, Validated, Invoked, Written
<1>2. ASSUME conn[c] = "none", conn' = [conn EXCEPT ![c] = "new"], Door = "open"
      PROVE  Service!Next
  <2>1. Standing[c] = "out" /\ Standing' = [Standing EXCEPT ![c] = "in"]
    BY <1>2, <1>0, StandingValue
  <2> QED
    BY <1>1, <1>2, <2>1 DEF Service!Next, Service!Enter
<1>3. ASSUME Quiet(c), conn' = [conn EXCEPT ![c] = "none"]
      PROVE  Service!Next
  <2>1. Standing[c] = "in" /\ Standing' = [Standing EXCEPT ![c] = "out"]
    BY <1>3, <1>0, StandingValue DEF Quiet
  <2>2. Standing' = [d \in Conns |-> IF d \in {c} THEN "out" ELSE Standing[d]]
    BY <2>1, StandingAt
  <2>3. Service!Leave
    BY <1>1, <2>1, <2>2 DEF Service!Leave
  <2> QED
    BY <2>3 DEF Service!Next
<1>4. ASSUME Quiet(c), conn' = [conn EXCEPT ![c] = "route"]
      PROVE  Service!Next
  <2>1. Standing[c] = "in" /\ Standing' = [Standing EXCEPT ![c] = "served"]
    BY <1>4, <1>0, StandingValue DEF Quiet, Busy
  <2> QED
    BY <1>1, <2>1 DEF Service!Next, Service!Begin
<1>5. ASSUME conn[c] \in Busy, NEW s \in Busy, conn' = [conn EXCEPT ![c] = s]
      PROVE  UNCHANGED Service!vars
  <2>1. Standing[c] = "served" /\ Standing' = [Standing EXCEPT ![c] = "served"]
    BY <1>5, <1>0, StandingValue
  <2>2. Standing' = Standing
    BY <2>1, StandingAt
  <2> QED
    BY <1>1, <2>2 DEF Service!vars
<1>6. ASSUME conn[c] \in Busy, NEW s \in {"idle", "none"}, conn' = [conn EXCEPT ![c] = s]
      PROVE  Service!Next
  <2>1. Standing[c] = "served" /\ Standing' = [Standing EXCEPT ![c] = StandingOf(s)]
    BY <1>6, <1>0, StandingValue
  <2>2. Service!Finish(c)
    BY <1>1, <1>6, <2>1, StandingValue DEF Service!Finish
  <2> QED
    BY <2>2 DEF Service!Next
<1>7. CASE Client(c)
  BY <1>7, <1>2, <1>3, <1>4 DEF Client, Accept, Hangup, Receive, Door
<1>8. CASE Connection(c)
  <2>1. conn[c] \in Busy
    BY <1>8 DEF Connection, Routed, Decoded, Validated, Invoked, Written, AnswerWith, Busy
  <2>2. \E s \in Busy \cup {"idle", "none"} : conn' = [conn EXCEPT ![c] = s]
    BY <1>8 DEF Connection, Routed, Decoded, Validated, Invoked, Written,
                GoOn, AnswerWith, RequestEnds, Busy
  <2> QED
    BY <2>1, <2>2, <1>5, <1>6
<1> QED
  BY <1>7, <1>8

\* The proxy keeps the service's promise, whatever its clients do: its door is
\* sealed for good once the drain has begun, and it then dies only with nobody
\* inside or after the 15 seconds of grace.
THEOREM Refinement == Spec => IsGraceful
<1>1. Init => Service!Init
  BY StandingAt, StandingValue DEF Init, Service!Init, Door, Alive
<1>2. IInv /\ [Next]_vars => [Service!Next]_(Service!vars)
  <2> SUFFICES ASSUME IInv, [Next]_vars PROVE [Service!Next]_(Service!vars)
    OBVIOUS
  <2>1. CASE UNCHANGED vars
    <3>1. UNCHANGED <<conn, drain = "expired", Alive>> /\ Door' = Door
      BY <2>1 DEF vars, life, traffic, Alive, Door
    <3> QED
      BY <3>1, Stutter
  <2> QED
    BY <2>1, LifeSimulation, PollSimulation, ExitSimulation, ConnectionSimulation
    DEF Next, ServeGoroutine, Callback, MainGoroutine, LifeOnly, Gone
<1> QED
  BY <1>1, <1>2, Invariance, PTL DEF Spec, IsGraceful, Service!Spec
-------------------------------------------------------------------------------
(* The pipeline of a request.                                                 *)

\* What has been established about a request by the stage it is at.
Pipeline ==
    \A c \in Conns :
        /\ conn[c] \in {"decode", "validate", "invoke"} =>
              Route(req[c]) = "rpc" /\ req[c].ctype = Json
        /\ conn[c] \in {"validate", "invoke"} =>
              req[c].method \in Methods /\ req[c].param # "illTyped"
        /\ conn[c] = "invoke" => ValidateRequest(req[c])
        /\ late[c] => phase # "open"

PInv == Pipeline /\ RepliesAreValidated /\ ServableAreServed /\ HealthIsTruthful

\* Validation refuses one method of those that are registered.
LEMMA OneIsRefused ==
    ASSUME NEW r, r.method \in Methods
    PROVE  ValidateRequest(r) <=> r.method # "engine_forkchoiceUpdatedV1"
<1>1. /\ DOMAIN EngineService =
            {"engine_exchangeTransitionConfigurationV1", "engine_executionPayLoadV1",
             "engine_executePayLoadV2", "engine_forkchoiceStateV1",
             "engine_forkchoiceUpdatedV1", "engine_newPayloadV1",
             "engine_payloadAttributesV1", "engine_payloadAttributesV2",
             "engine_payloadStatusV1", "engine_transitionConfigurationV1",
             "engine_withdrawalV1"}
      /\ DOMAIN EthService = {"eth_chainId", "eth_syncing", "eth_getBlockByNumber"}
  BY DEF EngineService, EthService
<1>2. \A m \in DOMAIN EngineService :
          "Validateable" \in EngineService[m] <=> m # "engine_forkchoiceUpdatedV1"
  BY <1>1 DEF EngineService, TransitionConfigurationV1Args, ExecutionPayloadV1Args,
     ExecutionPayloadV2Args, ForkchoiceStateV1Args, ForkchoiceUpdatedV1Args,
     PayloadAttributesV1Args, PayloadAttributesV2Args, PayloadStatusV1Args, WithdrawalV1Args
<1>3. \A m \in DOMAIN EthService :
          "Validateable" \in EthService[m] /\ m # "engine_forkchoiceUpdatedV1"
  BY <1>1 DEF EthService, ChainIdArgs, SyncingArgs, GetBlockByNumberArgs
<1> QED
  BY <1>2, <1>3 DEF ValidateRequest, ArgsOf, Methods

\* Forcing the content type does not change where a request is routed.
LEMMA ForceJsonRoute ==
    ASSUME NEW r \in AllRequests
    PROVE  Route(ForceJson(r)) = Route(r) /\ ForceJson(r).ctype = Json
  BY DEF ForceJson, AllRequests, Route

\* A request that decodes names a method and has parameters of its type.
LEMMA DecodeMeans ==
    ASSUME NEW r, r.ctype = Json
    PROVE  /\ Decode(r) = "decoded" => r.method \in Methods /\ r.param # "illTyped"
           /\ r.method \in Methods /\ r.param # "illTyped" => Decode(r) = "decoded"
           /\ Decode(r) # "415"
  BY DEF Decode

\* What the pipeline makes of a request that is to be served.
LEMMA ServableMeans ==
    ASSUME NEW r, r.method \in Servable
    PROVE  r.method \in Methods /\ ValidateRequest(r) /\ Handler(r) = "reply"
<1>1. r.method \in Methods /\ r.method # "engine_forkchoiceUpdatedV1" /\ r.method # "eth_getBlockByNumber"
  BY DEF Servable
<1> QED
  BY <1>1, OneIsRefused DEF Handler

\* Termination never goes back.
LEMMA Terminates == LifeTypes /\ [Next]_vars /\ phase # "open" => phase' # "open"
<1> SUFFICES ASSUME LifeTypes, [Next]_vars, phase # "open" PROVE phase' # "open"
  OBVIOUS
<1>1. ASSUME NEW c \in Conns, Client(c) \/ Connection(c) PROVE phase' # "open"
  BY <1>1, ConnectionFrame DEF life
<1> QED
  BY <1>1 DEF Next, ServeGoroutine, Callback, MainGoroutine, Gone, ServeAssign, Listen, Track,
     AcceptEnds, ServeShutdown, Claim, SkipDrain, Terminate, StartDrain, ListenerGone, Poll,
     DrainTimeout, MainSignal, MainShutdown, MainTerminated, MainAwait, Exit, SignalArrives,
     vars, life

\* Each stage hands the next one what it relies on.
LEMMA PipelineStep == IInv /\ PInv /\ [Next]_vars => PInv'
<1> SUFFICES ASSUME IInv, PInv, [Next]_vars PROVE PInv'
  OBVIOUS
<1> USE DEF PInv, Pipeline, RepliesAreValidated, ServableAreServed, HealthIsTruthful
<1>0. LifeTypes /\ TrafficTypes /\ BusyOnRequest /\ (phase # "open" => phase' # "open")
  BY Terminates DEF IInv, TypeOK
<1> USE <1>0
<1>1. CASE UNCHANGED traffic
  BY <1>1 DEF traffic
<1>2. CASE Poll \/ MainTerminated \/ MainAwait
  <2>1. /\ UNCHANGED <<req, late, answer>>
        /\ \A c \in Conns : conn'[c] = conn[c] \/ conn'[c] \in {"none", "killed"}
    BY <1>2 DEF Poll, MainTerminated, MainAwait, Exit
  <2> QED
    BY <2>1
<1>3. ASSUME NEW c \in Conns, Client(c) PROVE PInv'
  <2>1. CASE Accept(c) \/ Hangup(c)
    BY <2>1 DEF Accept, Hangup, TrafficTypes
  <2>2. ASSUME NEW r \in Requests, Receive(c, r) PROVE PInv'
    BY <2>2 DEF Receive, TrafficTypes
  <2> QED
    BY <1>3, <2>1, <2>2 DEF Client
<1>4. ASSUME NEW c \in Conns, Connection(c) PROVE PInv'
  <2>0. UNCHANGED life
    BY <1>4, ConnectionFrame
  <2> USE <2>0 DEF life, TrafficTypes
  <2>1. CASE Routed(c)
    <3>1. conn[c] = "route" => Route(ForceJson(req[c])) = Route(req[c]) /\ ForceJson(req[c]).ctype = Json
      BY ForceJsonRoute DEF BusyOnRequest, Busy
    <3>2. CASE Route(req[c]) = "health" /\ AnswerWith(c, "route", Health)
      BY <3>2 DEF AnswerWith, Health
    <3>3. CASE Route(req[c]) \in {"404", "405"} /\ AnswerWith(c, "route", Route(req[c]))
      BY <3>3 DEF AnswerWith
    <3>4. CASE Route(req[c]) = "rpc" /\ conn[c] = "route"
      BY <2>1, <3>1, <3>4 DEF Routed, AnswerWith
    <3> QED
      BY <2>1, <3>2, <3>3, <3>4 DEF Routed
  <2>2. CASE Decoded(c)
    BY <2>2, DecodeMeans, DecodeRange, ServableMeans DEF Decoded, GoOn, AnswerWith
  <2>3. CASE Validated(c)
    BY <2>3, ServableMeans DEF Validated, GoOn, AnswerWith
  <2>4. CASE Invoked(c)
    BY <2>4, HandlerRange, ServableMeans DEF Invoked, AnswerWith, RequestEnds
  <2>5. CASE Written(c)
    BY <2>5 DEF Written, RequestEnds
  <2> QED
    BY <1>4, <2>1, <2>2, <2>3, <2>4, <2>5 DEF Connection
<1> QED
  BY <1>1, <1>2, <1>3, <1>4, LifeOnlyFrame
  DEF Next, ServeGoroutine, Callback, MainGoroutine, LifeOnly, Gone, vars

\* Only validated requests are replied to, 415 is never said, and health probes
\* are told the truth about termination: for any clients and any requests.
THEOREM PipelineSound == Spec => [](RepliesAreValidated /\ ServableAreServed /\ HealthIsTruthful)
<1>1. Init => PInv
  BY DEF Init, PInv, Pipeline, RepliesAreValidated, ServableAreServed, HealthIsTruthful
<1>2. PInv => RepliesAreValidated /\ ServableAreServed /\ HealthIsTruthful
  BY DEF PInv
<1> QED
  BY <1>1, <1>2, PipelineStep, Invariance, PTL DEF Spec

\* A request that comes to a registered method, of all but two, is replied to,
\* whatever content type it declares and whatever else is being served.
THEOREM ServableServed == Spec => []ServableAreServed
<1>1. RepliesAreValidated /\ ServableAreServed /\ HealthIsTruthful => ServableAreServed
  OBVIOUS
<1> QED
  BY <1>1, PipelineSound, PTL

\* Load balancers can rely on /healthz, whatever the clients do.
THEOREM HealthTruth == Spec => []HealthIsTruthful
<1>1. RepliesAreValidated /\ ServableAreServed /\ HealthIsTruthful => HealthIsTruthful
  OBVIOUS
<1> QED
  BY <1>1, PipelineSound, PTL

-------------------------------------------------------------------------------
(* Why the shutdown comes to its end: liveness is out of the provers' reach,  *)
(* but not the argument for it.  Every step of the process brings its end     *)
(* nearer, and a process that has been told to end can always take one.  Both *)
(* only look at what connections never touch, so that with the fairness of    *)
(* FairSpec nobody's requests can hold up the exit for ever.                  *)

\* How many steps main, Serve and the callback have left at most.
MainLeft ==
    CASE main = "select"   -> 4
      [] main = "shutdown" -> 3
      [] main = "drains"   -> 2
      [] main = "await"    -> 1
      [] main = "exited"   -> 0

ServeLeft ==
    CASE serve = "init"      -> 6
      [] serve = "assigned"  -> 5
      [] serve = "bound"     -> 4
      [] serve = "accepting" -> 3
      [] serve = "failed"    -> 2
      [] serve = "drains"    -> 1
      [] serve = "done"      -> 0

DrainLeft ==
    CASE drain = "none"     -> 3
      [] drain = "closing"  -> 2
      [] drain = "draining" -> 1
      [] drain \in {"skipped", "clean", "expired"} -> 0

StepsLeft == MainLeft + ServeLeft + DrainLeft + (IF signalled THEN 0 ELSE 1)

\* Somebody can go on: a guard of an action that is scheduled fairly holds.
\* The polls of the drain are not counted, only its timer.
SomebodyGoesOn ==
    \/ serve \in {"init", "assigned", "bound", "failed"}
    \/ serve = "accepting" /\ inShutdown
    \/ Terminating /\ drain = "none"
    \/ drain = "closing" /\ serve # "accepting"
    \/ drain = "draining"
    \/ main = "select" /\ (signalled \/ phase = "terminated")
    \/ main = "shutdown"
    \/ main = "await" /\ phase = "terminated"

\* Everyone waiting on everyone: main for Terminated, the callback for the
\* accept loop, Serve for the callback.  It never comes to that.
NeverStuck ==
    Alive /\ (signalled \/ serve = "failed" \/ phase # "open") => SomebodyGoesOn

EachStepCounts == [][UNCHANGED life \/ StepsLeft' < StepsLeft]_vars

LEMMA LeftTypes ==
    ASSUME LifeTypes PROVE MainLeft \in 0..4 /\ ServeLeft \in 0..6 /\ DrainLeft \in 0..3
BY DEF LifeTypes, MainLeft, ServeLeft, DrainLeft

\* A sum of four is less when one of them is less and none is more.
LEMMA SumLess ==
    ASSUME NEW a \in Nat, NEW b \in Nat, NEW c \in Nat, NEW d \in Nat,
           NEW e \in Nat, NEW f \in Nat, NEW g \in Nat, NEW h \in Nat,
           e <= a, f <= b, g <= c, h <= d,
           e < a \/ f < b \/ g < c \/ h < d
    PROVE  e + f + g + h < a + b + c + d
OBVIOUS

\* Steps that leave three of the four counts alone, or lower them, and lower one.
LEMMA LeftLess ==
    ASSUME LifeTypes, LifeTypes', signalled => signalled',
           MainLeft' <= MainLeft, ServeLeft' <= ServeLeft, DrainLeft' <= DrainLeft,
           \/ MainLeft' < MainLeft \/ ServeLeft' < ServeLeft \/ DrainLeft' < DrainLeft
           \/ ~signalled /\ signalled'
    PROVE  StepsLeft' < StepsLeft
<1>1. MainLeft \in Nat /\ ServeLeft \in Nat /\ DrainLeft \in Nat
  BY LeftTypes
<1>2. MainLeft' \in Nat /\ ServeLeft' \in Nat /\ DrainLeft' \in Nat
  <2>1. MainLeft' \in 0..4 /\ ServeLeft' \in 0..6 /\ DrainLeft' \in 0..3
    BY DEF LifeTypes, MainLeft, ServeLeft, DrainLeft
  <2> QED
    BY <2>1
<1> DEFINE s == IF signalled THEN 0 ELSE 1
<1>3. s \in Nat /\ s' \in Nat /\ s' <= s /\ (~signalled /\ signalled' => s' < s)
  OBVIOUS
<1>4. MainLeft' + ServeLeft' + DrainLeft' + s' < MainLeft + ServeLeft + DrainLeft + s
  <2> HIDE DEF s
  <2>1. MainLeft' < MainLeft \/ ServeLeft' < ServeLeft \/ DrainLeft' < DrainLeft \/ s' < s
    BY <1>3
  <2> QED
    BY <1>1, <1>2, <1>3, <2>1, SumLess
<1> QED
  BY <1>4 DEF StepsLeft

\* Every step of the process is one less to come.
LEMMA StepCounts ==
    ASSUME IInv, [Next]_vars PROVE UNCHANGED life \/ StepsLeft' < StepsLeft
<1>1. LifeTypes /\ LifeTypes' /\ OneShutdown
  BY LifeStep DEF IInv, TypeOK
<1> USE <1>1
<1>2. ASSUME signalled => signalled',
             UNCHANGED main \/ MainLeft' < MainLeft,
             UNCHANGED serve \/ ServeLeft' < ServeLeft,
             UNCHANGED drain \/ DrainLeft' < DrainLeft,
             \/ MainLeft' < MainLeft \/ ServeLeft' < ServeLeft \/ DrainLeft' < DrainLeft
             \/ ~signalled /\ signalled'
      PROVE  StepsLeft' < StepsLeft
  <2>1. /\ UNCHANGED main => MainLeft' = MainLeft
        /\ UNCHANGED serve => ServeLeft' = ServeLeft
        /\ UNCHANGED drain => DrainLeft' = DrainLeft
    BY DEF MainLeft, ServeLeft, DrainLeft
  <2>2. MainLeft \in Nat /\ ServeLeft \in Nat /\ DrainLeft \in Nat
    BY LeftTypes
  <2>3. MainLeft' \in Nat /\ ServeLeft' \in Nat /\ DrainLeft' \in Nat
    <3>1. MainLeft' \in 0..4 /\ ServeLeft' \in 0..6 /\ DrainLeft' \in 0..3
      BY DEF LifeTypes, MainLeft, ServeLeft, DrainLeft
    <3> QED
      BY <3>1
  <2>4. MainLeft' <= MainLeft /\ ServeLeft' <= ServeLeft /\ DrainLeft' <= DrainLeft
    BY <1>2, <2>1, <2>2, <2>3
  <2> QED
    BY <1>2, <2>4, LeftLess
<1>3. CASE ServeGoroutine
  <2>1. ServeLeft' < ServeLeft
    BY <1>3 DEF ServeGoroutine, ServeAssign, Listen, Track, AcceptEnds, ServeShutdown, ServeLeft
  <2>2. UNCHANGED <<main, drain, signalled>>
    BY <1>3 DEF ServeGoroutine, ServeAssign, Listen, Track, AcceptEnds, ServeShutdown
  <2> QED
    BY <1>2, <2>1, <2>2
<1>4. ASSUME phase = "terminating", Terminate
      PROVE  /\ UNCHANGED main \/ MainLeft' < MainLeft
             /\ UNCHANGED serve \/ ServeLeft' < ServeLeft
  BY <1>4 DEF Terminate, OneShutdown, MainLeft, ServeLeft
<1>5. CASE SkipDrain \/ DrainTimeout
  <2>1. phase = "terminating" /\ Terminate /\ UNCHANGED signalled
    BY <1>5 DEF SkipDrain, DrainTimeout, Terminating, OneShutdown, LifeTypes
  <2>2. DrainLeft' < DrainLeft
    <3>1. CASE SkipDrain
      <4>1. DrainLeft = 3 /\ DrainLeft' = 0
        BY <3>1 DEF SkipDrain, DrainLeft
      <4> QED
        BY <4>1
    <3>2. CASE DrainTimeout
      <4>1. DrainLeft = 1 /\ DrainLeft' = 0
        BY <3>2 DEF DrainTimeout, DrainLeft
      <4> QED
        BY <4>1
    <3> QED
      BY <1>5, <3>1, <3>2
  <2> QED
    BY <1>2, <1>4, <2>1, <2>2
<1>6. CASE StartDrain \/ ListenerGone
  <2>1. UNCHANGED <<main, serve, signalled>>
    BY <1>6 DEF StartDrain, ListenerGone
  <2>2. DrainLeft' < DrainLeft
    <3>1. CASE StartDrain
      <4>1. DrainLeft = 3 /\ DrainLeft' = 2
        BY <3>1 DEF StartDrain, DrainLeft
      <4> QED
        BY <4>1
    <3>2. CASE ListenerGone
      <4>1. DrainLeft = 2 /\ DrainLeft' = 1
        BY <3>2 DEF ListenerGone, DrainLeft
      <4> QED
        BY <4>1
    <3> QED
      BY <1>6, <3>1, <3>2
  <2> QED
    BY <1>2, <2>1, <2>2
<1>7. CASE Poll
  <2>1. \/ drain = "draining" /\ drain' = "clean" /\ Terminate
        \/ UNCHANGED <<drain, main, serve, phase>>
    BY <1>7 DEF Poll
  <2>2. UNCHANGED <<owner, shutErr, httpServer, inShutdown, signalled, exitErr>>
    BY <1>7 DEF Poll
  <2>3. CASE drain = "draining" /\ drain' = "clean" /\ Terminate
    <3>1. phase = "terminating"
      BY <2>3 DEF OneShutdown, LifeTypes
    <3>2. DrainLeft' < DrainLeft
      BY <2>3 DEF DrainLeft
    <3> QED
      BY <1>2, <1>4, <2>2, <2>3, <3>1, <3>2
  <2>4. CASE UNCHANGED <<drain, main, serve, phase>>
    BY <2>2, <2>4 DEF life
  <2> QED
    BY <2>1, <2>3, <2>4
<1>8. CASE MainSignal \/ MainShutdown \/ MainTerminated \/ MainAwait
  <2>1. MainLeft' < MainLeft
    BY <1>8 DEF MainSignal, MainShutdown, MainTerminated, MainAwait, Exit, MainLeft
  <2>2. UNCHANGED <<serve, drain, signalled>>
    BY <1>8 DEF MainSignal, MainShutdown, MainTerminated, MainAwait, Exit
  <2> QED
    BY <1>2, <2>1, <2>2
<1>9. CASE SignalArrives
  BY <1>2, <1>9 DEF SignalArrives
<1>10. ASSUME NEW c \in Conns, Client(c) \/ Connection(c) PROVE UNCHANGED life
  BY <1>10, ConnectionFrame
<1> QED
  BY <1>3, <1>5, <1>6, <1>7, <1>8, <1>9, <1>10
     DEF Next, Callback, MainGoroutine, Gone, vars

\* There are fourteen of them at most, and polls and clients add none.
THEOREM BoundedLife == Spec => [](StepsLeft \in 0..14) /\ EachStepCounts
<1>1. IInv => StepsLeft \in 0..14
  BY LeftTypes DEF IInv, TypeOK, LifeTypes, StepsLeft
<1>2. IInv /\ [Next]_vars => [UNCHANGED life \/ StepsLeft' < StepsLeft]_vars
  BY StepCounts
<1> QED
  BY <1>1, <1>2, Invariance, PTL DEF Spec, EachStepCounts

\* Once a signal has come, the listener has failed or the shutdown has begun,
\* some goroutine can always go on until the process has exited.
THEOREM NoDeadlock == Spec => []NeverStuck
<1>1. IInv => NeverStuck
  BY DEF IInv, TypeOK, LifeTypes, OneShutdown, ErrorOrigin, NeverStuck, SomebodyGoesOn,
         Terminating, Alive
<1> QED
  BY <1>1, Invariance, PTL
===============================================================================
