------------------------------ MODULE Pipeline ------------------------------
(***************************************************************************)
(* One request on its way through the kit: down a chain of middlewares     *)
(* (httpkit) or interceptors (grpckit), into a handler, and up again.      *)
(*                                                                         *)
(* A handler is the sequence of what it does to its response and to the    *)
(* log hook; the kit's own handlers and response functions are operators   *)
(* that give all their sequences.  Every logging layer puts a hook of its  *)
(* own into the context, so that a handler sees the innermost one only.    *)
(*                                                                         *)
(* External: chi's router, WrapResponseWriter and Recoverer, net/http's    *)
(* ResponseWriter, whose first status is the one that counts.              *)
(***************************************************************************)
EXTENDS Naturals, Sequences, SequencesExt

CONSTANTS Globals,    \* chains given to WithGlobalMiddlewares
          Routes,     \* configurations of routes, see RouteChain
          Statuses,   \* what WithStatus is given; 0 stands for no WithStatus
          RPCChains   \* chains of gRPC interceptors

HTTPLayers == {"log", "nolog", "metrics", "recover"}
RPCLayers == {"log", "metrics"}

(* net/http takes no other status for the final one. *)
ASSUME PipelineConstants ==
    /\ Globals \subseteq Seq(HTTPLayers)
    /\ RPCChains \subseteq Seq(RPCLayers)
    /\ Statuses \subseteq {0} \cup 200..999

VARIABLES
    kind,     \* "http" or "grpc"
    chain,    \* the layers, the outermost first
    given,    \* what the handler does
    prog,     \* what is left of it
    pos,      \* the layer that has the request, 0 for the server
    phase,    \* "down", "handler", "up", "panic", "done" or "aborted"
    status,   \* http: the status sent, 0 if none; grpc: the code returned
    body,     \* the parts of the body the handler has written
    reqErr,   \* reqErr[n]: the layer n's variable reqErr is not nil
    skip,     \* skip[n]: the layer n's variable skip
    lines,    \* the access log's lines
    labels    \* what the metrics layers have counted

layers == <<reqErr, skip>>
reports == <<lines, labels>>
vars == <<kind, chain, given, prog, pos, phase, status, body, layers, reports>>

-----------------------------------------------------------------------------
(* What a handler does, step by step.                                      *)
Header(code) == <<[op |-> "header", code |-> code]>>
Write(part) == <<[op |-> "write", part |-> part]>>
LostWrite == <<[op |-> "lost"]>>         \* Write fails: the client is gone
Hook == <<[op |-> "hook"]>>              \* if hook != nil { hook(err) }
BareHook == <<[op |-> "bare hook"]>>     \* GetLogErrHook(ctx)(err)
Broken == <<[op |-> "broken"]>>          \* what is to be sent does not render
Panic == <<[op |-> "panic"]>>
Return(code, coded) == <<[op |-> "return", code |-> code, coded |-> coded]>>

(* http.Error *)
HTTPError(code) == Header(code) \o Write("error")

(* The sentinels of errkit that are told apart; an error may join several. *)
Sentinels == {"ErrAlreadyExists", "ErrNotFound", "ErrUnauthenticated",
              "ErrUnauthorized", "ErrInvalidArgument", "ErrUnavailable"}

(* The entry of the first case that err is one of, the last one for none. *)
Verdict(cases, err) ==
    LET Is(i) == cases[i][1] \in err \cup {"default"}
        first == CHOOSE i \in DOMAIN cases : Is(i) /\ \A j \in 1..i - 1 : ~Is(j)
    IN  cases[first][2]

(* errHTTPResponder: the cases in their order. *)
StatusOf(err) ==
    Verdict(<< <<"ErrAlreadyExists", 409>>, <<"ErrNotFound", 404>>,
               <<"ErrUnauthenticated", 401>>, <<"ErrUnauthorized", 403>>,
               <<"ErrInvalidArgument", 400>>, <<"ErrUnavailable", 503>>,
               <<"default", 500>> >>, err)

(* Mutant: authorization is looked at before authentication. *)
CodeOfReordered(err) ==
    Verdict(<< <<"ErrAlreadyExists", 6>>, <<"ErrNotFound", 5>>,
               <<"ErrUnauthorized", 7>>, <<"ErrUnauthenticated", 16>>,
               <<"ErrInvalidArgument", 3>>, <<"ErrUnavailable", 14>>,
               <<"default", 13>> >>, err)

(* errGRPCResponder, with the numbers of grpc's codes. *)
CodeOf(err) ==
    Verdict(<< <<"ErrAlreadyExists", 6>>, <<"ErrNotFound", 5>>,
               <<"ErrUnauthenticated", 16>>, <<"ErrUnauthorized", 7>>,
               <<"ErrInvalidArgument", 3>>, <<"ErrUnavailable", 14>>,
               <<"default", 13>> >>, err)

OrDefault(option, code) == IF option = 0 THEN code ELSE option

(* Mutant: the value is encoded right into the response. *)
RenderUnbuffered(part) ==
    {Header(OrDefault(o, 200)) \o Broken \o Hook \o HTTPError(500) : o \in Statuses}

(* Rendered into a buffer first, then sent. *)
Render(part) ==
    {Broken \o Hook \o HTTPError(500)}
    \cup {Header(OrDefault(o, 200)) \o sent :
             o \in Statuses, sent \in {Write(part), LostWrite \o Hook}}

JSON == Render("json")
TemplateHTML == Render("page")    \* no such template is a failure to render

(* What is sent is given, and may be empty. *)
Send(part) ==
    {Header(OrDefault(o, 200)) \o sent :
        o \in Statuses, sent \in {<<>>, Write(part), LostWrite \o Hook}}

TEXT == Send("text")
HTML == Send("html")

Status(code) == {Header(OrDefault(o, code)) : o \in Statuses}

ErrorHTTP(err) == {Hook \o HTTPError(OrDefault(o, StatusOf(err))) : o \in Statuses}

(* ErrorGRPC, whose options do not change the code. *)
ErrorGRPC(err) == {Hook \o Return(CodeOf(err), TRUE)}

-----------------------------------------------------------------------------
(* The built-in handlers.  A route that exists has a health checker. *)
Healthy == {Header(200)}
Unhealthy == {BareHook \o HTTPError(503)}

healthCheckHandler == Healthy \cup Unhealthy

(* The report is encoded right into the response, before the status. *)
UnhealthyJSON ==
    {Write("503 Service Unavailable") \o BareHook \o HTTPError(503),
     LostWrite \o BareHook \o Header(500) \o LostWrite}

healthCheckHandlerJSON ==
    UnhealthyJSON
    \cup {Write("200 OK"), LostWrite \o BareHook \o Header(500) \o LostWrite}

(* The page shows the report; its status is 200 whatever the report says. *)
healthCheckHandlerHTML ==
    {Broken \o BareHook \o HTTPError(500),
     Header(200) \o Write("page"),
     Header(200) \o LostWrite \o BareHook}

(* GET runs the handler of the report that was chosen, HEAD the plain one. *)
HealthHandler(report) ==
    healthCheckHandler \cup
    CASE report = "json" -> healthCheckHandlerJSON
      [] report = "html" -> healthCheckHandlerHTML
      [] OTHER -> {}

metricsHandler == {Write("metrics"), LostWrite}

(* chi's profiler *)
Profiler == {Write("profile"), HTTPError(404)}

(* A handler of the program: one response function of the kit, nothing at  *)
(* all, or a panic before or after it has answered.                        *)
AppHandler ==
    UNION {JSON, TemplateHTML, TEXT, HTML, Status(204),
           {<<>>, Panic, Hook \o HTTPError(500) \o Panic},
           UNION {ErrorHTTP(err) : err \in SUBSET Sentinels}}

(* An RPC method: an answer, ErrorGRPC, a status or a plain error of its   *)
(* own, a panic.                                                           *)
Method ==
    UNION {{Return(0, TRUE), Return(5, TRUE), Return(2, FALSE), Panic},
           UNION {ErrorGRPC(err) : err \in SUBSET Sentinels}}

(* configureHealth, configureMetrics, configureProfiler: the layers of a   *)
(* route, inside the global ones.                                          *)
RouteChain(route) ==
    IF route.to = "app" THEN <<>>
    ELSE (IF route.accessLogs THEN <<"log">> ELSE <<"nolog">>)
         \o (IF route.metricsForEndpoint /\ route.to # "profiler" THEN <<"metrics">> ELSE <<>>)

HandlersOf(route) ==
    CASE route.to = "health" -> HealthHandler(route.report)
      [] route.to = "metrics" -> metricsHandler
      [] route.to = "profiler" -> Profiler
      [] OTHER -> AppHandler

Init ==
    /\ \/ \E global \in Globals, route \in Routes :
             /\ kind = "http"
             /\ chain = global \o RouteChain(route)
             /\ given \in HandlersOf(route)
       \/ kind = "grpc" /\ chain \in RPCChains /\ given \in Method
    /\ prog = given
    /\ pos = 1
    /\ phase = "down"
    /\ status = 0
    /\ body = <<>>
    /\ reqErr = [n \in DOMAIN chain |-> FALSE]
    /\ skip = [n \in DOMAIN chain |-> FALSE]
    /\ lines = {}
    /\ labels = {}

-----------------------------------------------------------------------------
LogsAbove(n) == {m \in DOMAIN chain : m < n /\ chain[m] = "log"}

(* The logging layer whose hook and flag the context holds at layer n:     *)
(* each hides those above it.                                              *)
Nearest(n) == {m \in LogsAbove(n) : \A k \in LogsAbove(n) : k <= m}

(* Mutant: the first hook that was set stays. *)
FirstHook == {m \in LogsAbove(pos) : \A k \in LogsAbove(pos) : m <= k}

(* ctxkit.GetLogErrHook *)
GetLogErrHook == Nearest(pos)

(* A layer on the way down.  NoAccessLogMiddleware sets the flag of the    *)
(* logging layer above it; the others only prepare.                        *)
Enter ==
    /\ phase = "down"
    /\ pos <= Len(chain)
    /\ skip' = IF chain[pos] = "nolog"
               THEN [n \in DOMAIN skip |-> skip[n] \/ n \in Nearest(pos)] ELSE skip
    /\ pos' = pos + 1
    /\ UNCHANGED <<kind, chain, given, prog, phase, status, body, reqErr, reports>>

Reach ==
    /\ phase = "down"
    /\ pos > Len(chain)
    /\ phase' = "handler"
    /\ UNCHANGED <<kind, chain, given, prog, pos, status, body, layers, reports>>

(* WriteHeader, and the one a Write does first: the first status counts. *)
WriteHeader(code) == status' = IF status = 0 THEN code ELSE status

(* The next thing the handler does.  Calling a nil hook panics. *)
Handle ==
    LET step == Head(prog) IN
    /\ phase = "handler"
    /\ prog # <<>>
    /\ prog' = Tail(prog)
    /\ \/ /\ step.op = "header"
          /\ WriteHeader(step.code)
          /\ UNCHANGED <<pos, phase, body, reqErr>>
       \/ /\ step.op \in {"write", "lost"}
          /\ WriteHeader(200)
          /\ body' = IF step.op = "write" THEN Append(body, step.part) ELSE body
          /\ UNCHANGED <<pos, phase, reqErr>>
       \/ /\ step.op = "hook" \/ (step.op = "bare hook" /\ GetLogErrHook # {})
          /\ reqErr' = [n \in DOMAIN reqErr |-> reqErr[n] \/ n \in GetLogErrHook]
          /\ UNCHANGED <<pos, phase, status, body>>
       \/ /\ step.op = "panic" \/ (step.op = "bare hook" /\ GetLogErrHook = {})
          /\ phase' = "panic"
          /\ pos' = pos - 1
          /\ UNCHANGED <<status, body, reqErr>>
       \/ /\ step.op = "return"
          /\ status' = step.code
          /\ UNCHANGED <<pos, phase, body, reqErr>>
       \/ /\ step.op = "broken"
          /\ UNCHANGED <<pos, phase, status, body, reqErr>>
    /\ UNCHANGED <<kind, chain, given, skip, reports>>

Answer ==
    /\ phase = "handler"
    /\ prog = <<>>
    /\ phase' = "up"
    /\ pos' = pos - 1
    /\ UNCHANGED <<kind, chain, given, prog, status, body, layers, reports>>

-----------------------------------------------------------------------------
(* The layers on the way up.                                               *)
Leave(layer) ==
    /\ phase = "up"
    /\ pos > 0
    /\ chain[pos] = layer
    /\ pos' = pos - 1
    /\ UNCHANGED <<kind, chain, given, prog, status, body, layers>>

Line(level, err) ==
    lines' = lines \cup {[layer |-> pos, status |-> status, level |-> level, err |-> err]}

(* LoggingMiddleware after the handler: an error is in the line only when  *)
(* the status says so too.                                                 *)
LogHTTP ==
    /\ kind = "http"
    /\ Leave("log")
    /\ \/ skip[pos] /\ UNCHANGED lines
       \/ ~skip[pos] /\ status >= 500 /\ Line("error", reqErr[pos])
       \/ ~skip[pos] /\ status < 500 /\ Line("info", FALSE)
    /\ UNCHANGED <<phase, labels>>

(* Mutant: an error that was not given to the hook is left out. *)
LogRPCGuarded ==
    /\ kind = "grpc"
    /\ Leave("log")
    /\ IF status = 0 THEN Line("info", FALSE) ELSE Line("error", reqErr[pos])
    /\ UNCHANGED <<phase, labels>>

(* LoggingInterceptor after the method: the line of an error takes its     *)
(* text from reqErr, which is nil unless the hook was called.              *)
LogRPC ==
    /\ kind = "grpc"
    /\ Leave("log")
    /\ \/ status = 0 /\ Line("info", FALSE) /\ UNCHANGED phase
       \/ status # 0 /\ reqErr[pos] /\ Line("error", TRUE) /\ UNCHANGED phase
       \/ status # 0 /\ ~reqErr[pos] /\ phase' = "panic" /\ UNCHANGED lines
    /\ UNCHANGED labels

(* MetricsMiddleware; MetricsInterceptor, for which an error that is no    *)
(* status has the code 0.                                                  *)
Counted == IF kind = "grpc" /\ ~Last(given).coded THEN 0 ELSE status

Count ==
    /\ Leave("metrics")
    /\ labels' = labels \cup {[layer |-> pos, code |-> Counted]}
    /\ UNCHANGED <<phase, lines>>

(* NoAccessLogMiddleware, and Recoverer when nothing panics. *)
Pass ==
    /\ Leave("nolog") \/ Leave("recover")
    /\ UNCHANGED <<phase, reports>>

(* Mutant: the request is counted in a deferred call. *)
UnwindCounting ==
    /\ phase = "panic"
    /\ pos > 0
    /\ chain[pos] # "recover"
    /\ pos' = pos - 1
    /\ labels' = IF chain[pos] = "metrics"
                 THEN labels \cup {[layer |-> pos, code |-> status]} ELSE labels
    /\ UNCHANGED <<kind, chain, given, prog, phase, status, body, layers, lines>>

(* A panic leaves out what the layers do after the handler. *)
Unwind ==
    /\ phase = "panic"
    /\ pos > 0
    /\ chain[pos] # "recover"
    /\ pos' = pos - 1
    /\ UNCHANGED <<kind, chain, given, prog, phase, status, body, layers, reports>>

(* RecoveryMiddleware *)
Recover ==
    /\ phase = "panic"
    /\ pos > 0
    /\ chain[pos] = "recover"
    /\ WriteHeader(500)
    /\ phase' = "up"
    /\ pos' = pos - 1
    /\ UNCHANGED <<kind, chain, given, prog, body, layers, reports>>

(* net/http sends 200 for a handler that has sent nothing, and cuts the    *)
(* connection of one that has panicked; grpc-go lets the panic through.    *)
Finish ==
    /\ pos = 0
    /\ \/ phase = "up" /\ phase' = "done"
       \/ phase = "panic" /\ phase' = "aborted"
    /\ status' = IF kind = "http" /\ phase = "up" /\ status = 0 THEN 200 ELSE status
    /\ UNCHANGED <<kind, chain, given, prog, pos, body, layers, reports>>

Next ==
    \/ Enter \/ Reach \/ Handle \/ Answer
    \/ LogHTTP \/ LogRPC \/ Count \/ Pass
    \/ Unwind \/ Recover \/ Finish

Spec == Init /\ [][Next]_vars

-----------------------------------------------------------------------------
(* The state stays well formed, and a request is at a layer it has. *)
TypeOK ==
    /\ kind \in {"http", "grpc"}
    /\ prog = SubSeq(given, Len(given) - Len(prog) + 1, Len(given))
    /\ pos \in 0..Len(chain) + 1
    /\ phase \in {"down", "handler", "up", "panic", "done", "aborted"}
    /\ status \in 0..999
    /\ {reqErr, skip} \subseteq [DOMAIN chain -> BOOLEAN]
    /\ {n \in DOMAIN chain : reqErr[n] \/ skip[n]} \subseteq LogsAbove(Len(chain) + 1)
    /\ {l.layer : l \in lines \cup labels} \subseteq DOMAIN chain

Ended == phase \in {"done", "aborted"}
Logs == {n \in DOMAIN chain : chain[n] = "log"}

(* The handler has come to a step of this kind. *)
Did(op) == \E i \in 1..Len(given) - Len(prog) : given[i].op = op

Told == Did("hook") \/ Did("bare hook")

(* The access log, the metrics and the client agree on the status of a     *)
(* request, whatever was written twice, recovered or interrupted; only for *)
(* a handler that sends nothing do they say 0 where the client sees 200.   *)
OneStatus ==
    phase = "done" /\ kind = "http" =>
        LET sent == IF given = <<>> THEN 0 ELSE status
        IN  \A n \in DOMAIN chain :
                /\ \A l \in lines : l.layer = n => l.status = sent
                /\ \A l \in labels : l.layer = n => l.code = sent

(* NoAccessLogMiddleware is inside layer n, with no logging layer between. *)
Silenced(n) ==
    \E m \in DOMAIN chain :
        /\ chain[m] = "nolog"
        /\ m > n
        /\ \A k \in Logs : k <= n \/ k > m

(* A panic of the handler went through layer n. *)
Skipped(n) == Did("panic") /\ \A m \in DOMAIN chain : m > n => chain[m] # "recover"

(* A request that is over has one line of each logging layer, unless the   *)
(* layer is silenced or a panic went through it; the error the handler     *)
(* told the hook is in one line, that of the innermost layer, if the       *)
(* status is a server error, and in none otherwise.  The last is what      *)
(* LoggingMiddleware does (middlewares.go:76) and less than the comments   *)
(* of respond.go promise: there every error given to the hook "will be     *)
(* logged along with access log line" (respond.go:176, 249), that of a 404 *)
(* too, or of a write that is lost after a 200 (respond.go:190, 214, 238). *)
ErrorIsLogged ==
    phase = "done" /\ kind = "http" =>
        \A n \in Logs :
            LET here == {l \in lines : l.layer = n}
                innermost == \A m \in Logs : m <= n
            IN  IF Silenced(n) \/ Skipped(n) THEN here = {}
                ELSE \E l \in here :
                        /\ here = {l}
                        /\ l.err = (Told /\ innermost /\ status >= 500)

(* What does not render is answered with 500 and at most its text, nothing *)
(* if a panic interrupts that: no part of the answer and no status of the  *)
(* success gets out before.                                                *)
RenderFailureIs500 ==
    phase = "done" /\ Did("broken") =>
        status = 500 /\ body \in {<<>>, <<"error">>}

(* HTTP and gRPC tell a client of the same error the same thing, for an    *)
(* error that joins several sentinels too.                                 *)
SameVerdict ==
    phase = "done" =>
        \A err \in SUBSET Sentinels :
            given \in ErrorGRPC(err) =>
                <<StatusOf(err), status>> \in
                    {<<409, 6>>, <<404, 5>>, <<401, 16>>, <<403, 7>>,
                     <<400, 3>>, <<503, 14>>, <<500, 13>>}

(* What can break a request off.  HTTP: a panic of the program's handler,  *)
(* or a built-in handler with an error to tell below no logging layer, and *)
(* no recovery.  gRPC: a panic of the method, or an error that a logging   *)
(* interceptor was not told.                                               *)
AbortsAreKnown ==
    Ended =>
        (phase = "aborted" <=>
            IF kind = "http"
            THEN /\ Did("panic") \/ (Did("bare hook") /\ Logs = {})
                 /\ \A n \in DOMAIN chain : chain[n] # "recover"
            ELSE \/ Did("panic")
                 \/ /\ status # 0
                    /\ \E n \in Logs : ~Told \/ \E m \in Logs : m > n)
=============================================================================
