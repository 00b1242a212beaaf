-------------------------------- MODULE Serve --------------------------------
(***************************************************************************)
(* memmy serve from its configuration to its exit, with the requests that  *)
(* reach it meanwhile (runServe and mcpService of cmd/memmy/main.go, the   *)
(* tools of internal/transport/mcp/mcp.go, the tenant checks of the        *)
(* service).                                                               *)
(*                                                                         *)
(* The process is the main goroutine, which runs the supervisor and under  *)
(* it mcpService.Serve; one goroutine per call of Serve, which listens;    *)
(* and the handlers.  What a call does to the storage is in MemoryService; *)
(* here it has begun, and ends when the storage answers or is closed.      *)
(***************************************************************************)
EXTENDS TenantSchema

CONSTANTS
    Configs,     \* tenant schemas of the configuration files
    Transports,  \* sets of transports that they enable
    Req,
    MaxFailures  \* bound: failures of a listener

ASSUME ServeAssumption ==
    /\ Configs \subseteq SchemaConfig
    /\ Transports \subseteq SUBSET {"mcp", "stdio", "grpc", "http"}
    /\ MaxFailures \in Nat

VARIABLES
    cfg,        \* the configuration's tenant schema
    enabled,    \* its transports
    proc,       \* where runServe is
    storage,
    server,     \* the transport's locals
    signalled,  \* ctx is done: a signal, or the host has closed stdin
    failures,
    req         \* the requests

vars == <<cfg, enabled, proc, storage, server, signalled, failures, req>>
config == <<cfg, enabled>>

-----------------------------------------------------------------------------
Server == [
    pc       : {"none", "stdio", "idle", "serve", "shutdown", "await", "backoff", "ended"},
    listener : {"none", "starting", "listening", "returned"},
    errCh    : {"empty", "nil", "error"},
    number   : 0..(MaxFailures + 1),   \* of the call of Serve, each with an http.Server
    late     : BOOLEAN]                \* Shutdown gave up after its five seconds

NoServer == [pc |-> "none", listener |-> "none", errCh |-> "empty", number |-> 0, late |-> FALSE]

Answers == {"bad_arguments", "tenant_invalid", "error", "ok", "storage_closed", "lost"}

Request == [
    pc     : {"none", "handler", "storage", "done"},
    op     : {"write", "read", "stats"},
    tuple  : Tuple,
    number : 0..(MaxFailures + 1),     \* of the Serve that took it
    answer : Answers \union {"none"}]

NoRequest == [pc |-> "none", op |-> "read", tuple |-> <<>>, number |-> 0, answer |-> "none"]

ServeTypeOK ==
    /\ cfg \in Configs
    /\ enabled \in Transports
    /\ proc \in {"start", "open", "serving", "closing", "down"}
    /\ storage \in {"none", "open", "closed"}
    /\ server \in Server
    /\ signalled \in BOOLEAN
    /\ failures \in 0..MaxFailures
    /\ req \in [Req -> Request]

Init ==
    /\ cfg \in Configs
    /\ enabled \in Transports
    /\ proc = "start"
    /\ storage = "none"
    /\ server = NoServer
    /\ signalled = FALSE
    /\ failures = 0
    /\ req = [r \in Req |-> NoRequest]

-----------------------------------------------------------------------------
(* Starting.                                                               *)

(* Config.Validate: stdio excludes every other transport; whether one of   *)
(* the others can be served is not asked.                                  *)
ValidTransports == enabled # {} /\ ("stdio" \in enabled => enabled = {"stdio"})

Load ==
    /\ proc = "start"
    /\ proc' = IF ValidTransports /\ ValidConfig(cfg) THEN "open" ELSE "down"
    /\ UNCHANGED <<config, storage, server, signalled, failures, req>>

(* suture calls Serve, and calls it again after a failure.                 *)
Called == [NoServer EXCEPT !.pc = "serve", !.listener = "starting",
                           !.number = server.number + 1]

Open ==
    /\ proc = "open"
    /\ ~signalled
    /\ proc' = "serving"
    /\ storage' = "open"
    /\ server' = IF "stdio" \in enabled THEN [NoServer EXCEPT !.pc = "stdio"]
                 ELSE IF "mcp" \in enabled THEN Called
                 ELSE [NoServer EXCEPT !.pc = "idle"]
    /\ UNCHANGED <<config, signalled, failures, req>>

(* The database, its schema or the embedder is not as configured, or ctx   *)
(* is done: the deferred Close closes what was opened.                     *)
OpenFails ==
    /\ proc = "open"
    /\ proc' = "down"
    /\ storage' \in {"none", "closed"}
    /\ UNCHANGED <<config, server, signalled, failures, req>>

Signal ==
    /\ proc \in {"open", "serving"}
    /\ signalled' = TRUE
    /\ UNCHANGED <<config, proc, storage, server, failures, req>>

-----------------------------------------------------------------------------
(* mcpService.Serve and its goroutine.                                     *)

SetServer(s) == server' = s /\ UNCHANGED <<config, proc, storage, signalled>>

Listen ==
    /\ server.listener = "starting" /\ server.pc = "serve"
    /\ SetServer([server EXCEPT !.listener = "listening"])
    /\ UNCHANGED <<failures, req>>

(* The address is taken, or an Accept fails for good.                      *)
ListenerFails ==
    /\ server.listener \in {"starting", "listening"} /\ server.pc = "serve"
    /\ failures < MaxFailures
    /\ failures' = failures + 1
    /\ SetServer([server EXCEPT !.listener = "returned", !.errCh = "error"])
    /\ UNCHANGED req

(* Fault: only an error is sent.                                           *)
ListenerSaysNothing ==
    /\ server.listener \in {"starting", "listening"} /\ server.pc \in {"shutdown", "await"}
    /\ SetServer([server EXCEPT !.listener = "returned"])
    /\ UNCHANGED <<failures, req>>

(* Shutdown makes ListenAndServe return ErrServerClosed, begun or not.     *)
ListenerStops ==
    /\ server.listener \in {"starting", "listening"} /\ server.pc \in {"shutdown", "await"}
    /\ SetServer([server EXCEPT !.listener = "returned", !.errCh = "nil"])
    /\ UNCHANGED <<failures, req>>

ServeReturns ==
    /\ server.pc = "serve" /\ server.errCh # "empty"
    /\ SetServer([server EXCEPT !.pc = "backoff", !.errCh = "empty"])
    /\ UNCHANGED <<failures, req>>

(* Fault: a service that has not returned is called as well.               *)
RestartRunning ==
    /\ server.pc \in {"serve", "backoff"}
    /\ ~signalled
    /\ SetServer(Called)
    /\ UNCHANGED <<failures, req>>

Restart ==
    /\ server.pc = "backoff"
    /\ ~signalled
    /\ SetServer(Called)
    /\ UNCHANGED <<failures, req>>

BeginShutdown ==
    /\ server.pc = "serve" /\ signalled
    /\ SetServer([server EXCEPT !.pc = "shutdown"])
    /\ UNCHANGED <<failures, req>>

Running(r) == req[r].pc \in {"handler", "storage"}

(* The connections that this http.Server serves.                           *)
Busy == \E r \in Req : Running(r) /\ req[r].number = server.number

(* Fault: the connections are not waited for.                              *)
DoNotWait ==
    /\ server.pc = "shutdown"
    /\ SetServer([server EXCEPT !.pc = "await"])
    /\ UNCHANGED <<failures, req>>

ShutdownDone ==
    /\ server.pc = "shutdown"
    /\ ~Busy
    /\ SetServer([server EXCEPT !.pc = "await"])
    /\ UNCHANGED <<failures, req>>

ShutdownTimesOut ==
    /\ server.pc = "shutdown"
    /\ Busy
    /\ SetServer([server EXCEPT !.pc = "await", !.late = TRUE])
    /\ UNCHANGED <<failures, req>>

AwaitListener ==
    /\ server.pc = "await" /\ server.errCh # "empty"
    /\ SetServer([server EXCEPT !.pc = "ended", !.errCh = "empty"])
    /\ UNCHANGED <<failures, req>>

-----------------------------------------------------------------------------
(* The supervisor, or RunStdio, returns; the deferred Close; the exit.     *)

Return ==
    /\ proc = "serving"
    /\ \/ server.pc = "ended"
       \/ server.pc \in {"backoff", "idle", "stdio"} /\ signalled
    /\ proc' = "closing"
    /\ storage' = "closed"
    /\ UNCHANGED <<config, server, signalled, failures, req>>

Exit ==
    /\ proc = "closing"
    /\ proc' = "down"
    /\ req' = [r \in Req |-> IF Running(r)
                             THEN [req[r] EXCEPT !.pc = "done", !.answer = "lost"]
                             ELSE req[r]]
    /\ UNCHANGED <<config, storage, server, signalled, failures>>

-----------------------------------------------------------------------------
(* Requests.                                                               *)

SetRequest(r, s) ==
    /\ req' = [req EXCEPT ![r] = s]
    /\ UNCHANGED <<config, proc, storage, server, signalled, failures>>

Done(r, answer) == SetRequest(r, [req[r] EXCEPT !.pc = "done", !.answer = answer])

(* The SDK checks the arguments against the tool's InputSchema, which for  *)
(* memory.stats does not require a tenant.                                 *)
Arrive(r) ==
    /\ req[r].pc = "none"
    /\ proc = "serving"
    /\ server.pc = "stdio" \/ (server.pc = "serve" /\ server.listener = "listening")
    /\ \E op \in {"write", "read", "stats"}, tuple \in Tuple, given \in BOOLEAN :
          /\ given \/ (op = "stats" /\ tuple = <<>>)
          /\ LET call == [NoRequest EXCEPT !.pc = "handler", !.op = op, !.tuple = tuple,
                                           !.number = server.number]
             IN  SetRequest(r,
                    IF given /\ ~Accepts(JSONSchema(cfg), tuple)
                    THEN [call EXCEPT !.pc = "done", !.answer = "bad_arguments"]
                    ELSE call)

(* The handler finds an argument empty or malformed.                       *)
RefuseArguments(r) ==
    /\ req[r].pc = "handler" /\ req[r].op # "stats"
    /\ Done(r, "error")

(* resolveTenant, requireValidTenant, or Stats without a tenant; an        *)
(* ErrTenantInvalid becomes a result for the model to read.                *)
CheckTenant(r) ==
    /\ req[r].pc = "handler"
    /\ LET tuple == req[r].tuple IN
       \/ /\ tuple = <<>> /\ req[r].op # "stats"
          /\ Done(r, "error")
       \/ /\ tuple # <<>> /\ ~Valid(cfg, tuple)
          /\ Done(r, "tenant_invalid")
       \/ /\ IF tuple = <<>> THEN req[r].op = "stats" ELSE Valid(cfg, tuple)
          /\ SetRequest(r, [NoRequest EXCEPT !.pc = "storage", !.number = req[r].number])

(* The call's last transaction; it may as well go on for ever.             *)
Answer(r) ==
    /\ req[r].pc = "storage"
    /\ \/ storage = "open" /\ \E answer \in {"ok", "error"} : Done(r, answer)
       \/ storage = "closed" /\ Done(r, "storage_closed")

(* The process has exited.                                                 *)
Rest == proc = "down" /\ UNCHANGED vars

Main ==
    \/ Load \/ Open \/ OpenFails \/ ServeReturns \/ Restart \/ BeginShutdown
    \/ ShutdownDone \/ ShutdownTimesOut \/ AwaitListener \/ Return \/ Exit

Listener == Listen \/ ListenerStops

Requests ==
    /\ proc # "down"
    /\ \E r \in Req : Arrive(r) \/ RefuseArguments(r) \/ CheckTenant(r) \/ Answer(r)

Next == Main \/ Listener \/ ListenerFails \/ Signal \/ Requests \/ Rest

Spec == Init /\ [][Next]_vars

(* The process is scheduled; whether requests end is up to the database.   *)
FairSpec == Spec /\ WF_vars(Main) /\ WF_vars(Listener)

-----------------------------------------------------------------------------
(* Properties.                                                             *)

(* The schema that a client is shown and the one that the service enforces *)
(* are the same: the SDK refuses only tuples that the service would refuse *)
(* as well, and lets none through that the service calls invalid.          *)
PublishedIsEnforced ==
    \A r \in Req :
        /\ req[r].answer # "tenant_invalid"
        /\ req[r].answer = "bad_arguments" => ~Valid(cfg, req[r].tuple)

(* The storage is closed under no request that came over HTTP, unless      *)
(* Shutdown ran out of time.  A listener that failed is the exception:     *)
(* Serve has then returned without a Shutdown, and neither the supervisor  *)
(* nor the next Serve knows of the requests it had taken.                  *)
ClosedWhenIdle ==
    storage = "closed" /\ server.pc = "ended" /\ ~server.late => ~Busy

(* A signal ends the process, whatever requests are still running; until   *)
(* then a server that is configured to listen does so again after every    *)
(* failure.                                                                *)
ServesUntilStopped ==
    /\ signalled ~> proc = "down"
    /\ (proc = "serving" /\ server.pc = "backoff") ~> (server.listener = "listening" \/ signalled)
=============================================================================
