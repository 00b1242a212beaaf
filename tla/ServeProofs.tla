----------------------------- MODULE ServeProofs -----------------------------
(***************************************************************************)
(* Theorems about Serve, for any keys, values, tenant schemas, transports, *)
(* requests and failures: its type invariant, that the schema clients are  *)
(* shown is the one enforced, and that no request is under way when the    *)
(* storage is closed behind a Shutdown that ended in time.                 *)
(***************************************************************************)
EXTENDS Serve, FiniteSetTheorems, TLAPS

-----------------------------------------------------------------------------
(* The tenant schema.                                                      *)

LEMMA SchemaTyped ==
    ASSUME NEW c \in SchemaConfig
    PROVE  /\ c.keys \subseteq Key /\ c.required \subseteq c.keys
           /\ c.one_of \in Seq(SUBSET Key)
           /\ c.matched \in [Key -> SUBSET Value] /\ c.enum \in [Key -> SUBSET Value]
BY DEF SchemaConfig

LEMMA TupleTyped ==
    ASSUME NEW tuple \in Tuple
    PROVE  DOMAIN tuple \subseteq Key /\ \A k \in DOMAIN tuple : tuple[k] \in Value
BY DEF Tuple

(* The key sets of which a tuple has all keys are counted by Validate; a   *)
(* JSON Schema's oneOf asks for one that is alone.                         *)
LEMMA OneOfAgrees ==
    ASSUME NEW c \in SchemaConfig, NEW tuple
    PROVE  OneOf(c, tuple) = {} <=>
             \/ c.one_of = <<>>
             \/ \E i \in DOMAIN c.one_of :
                   \A j \in DOMAIN c.one_of : c.one_of[j] \subseteq DOMAIN tuple <=> j = i
<1> DEFINE D == DOMAIN c.one_of
           M == Matching(c, tuple)
<1>1. IsFiniteSet(D)
  BY SchemaTyped, FS_Interval
<1>2. M \subseteq D /\ \A j \in D : j \in M <=> c.one_of[j] \subseteq DOMAIN tuple
  BY DEF Matching
<1>3. IsFiniteSet(M) /\ Cardinality(M) \in Nat
  BY <1>1, <1>2, FS_Subset, FS_CardinalityType
<1>4. Cardinality(M) = 1 <=> \E i : M = {i}
  BY <1>3, FS_Singleton
<1>5. (\E i : M = {i}) <=> \E i \in D : \A j \in D : j \in M <=> j = i
  BY <1>2
<1>6. OneOf(c, tuple) = {} <=> c.one_of = <<>> \/ Cardinality(M) = 1
  BY DEF OneOf
<1> QED BY <1>2, <1>4, <1>5, <1>6

(* What is published to clients, read as the SDK's validator reads it,     *)
(* accepts exactly the tuples that Validate accepts (JSONSchema and        *)
(* Validate of tenant_schema.go), whatever is configured.                  *)
THEOREM SchemasAgree ==
    ASSUME NEW c \in SchemaConfig, NEW tuple \in Tuple
    PROVE  Accepts(JSONSchema(c), tuple) <=> Valid(c, tuple)
<1> DEFINE D == DOMAIN tuple
           misses == EnumMiss(c, tuple) \union PatternMiss(c, tuple)
           alone == \/ c.one_of = <<>>
                    \/ \E i \in DOMAIN c.one_of :
                          \A j \in DOMAIN c.one_of : c.one_of[j] \subseteq D <=> j = i
           fits == \A k \in D \intersect c.keys :
                       tuple[k] \in c.matched[k] /\ (c.enum[k] = {} \/ tuple[k] \in c.enum[k])
<1>1. Accepts(JSONSchema(c), tuple) <=>
        (~IsConfigured(c) \/ D \subseteq c.keys) /\ fits /\ c.required \subseteq D /\ alone
  BY DEF Accepts, JSONSchema
<1>2. CASE ~IsConfigured(c)
  <2>1. c.keys = {} /\ c.one_of = <<>> /\ c.required = {}
    BY <1>2, SchemaTyped DEF IsConfigured
  <2>2. Valid(c, tuple)
    BY <1>2 DEF Valid, ErrTenantInvalid
  <2> QED BY <1>1, <1>2, <2>1, <2>2
<1>3. CASE IsConfigured(c)
  <2>1. misses # {} =>
          {e \in {"enum_mismatch", "pattern_mismatch"} :
              IF e = "enum_mismatch" THEN EnumMiss(c, tuple) # {}
              ELSE PatternMiss(c, tuple) \ EnumMiss(c, tuple) # {}} # {}
    <3>1. CASE EnumMiss(c, tuple) # {}
      BY <3>1
    <3>2. CASE EnumMiss(c, tuple) = {} /\ PatternMiss(c, tuple) # {}
      BY <3>2
    <3> QED BY <3>1, <3>2
  <2>2. Valid(c, tuple) <=>
          /\ Unknown(c, tuple) = {} /\ misses = {} /\ Missing(c, tuple) = {}
          /\ OneOf(c, tuple) = {}
    BY <1>3, <2>1 DEF Valid, ErrTenantInvalid
  <2>3. Unknown(c, tuple) = {} <=> D \subseteq c.keys
    BY DEF Unknown
  <2>4. Missing(c, tuple) = {} <=> c.required \subseteq D
    BY DEF Missing
  <2>5. D \subseteq c.keys => (misses = {} <=> fits)
    BY DEF EnumMiss, PatternMiss
  <2>6. OneOf(c, tuple) = {} <=> alone
    BY OneOfAgrees
  <2> QED BY <1>1, <1>3, <2>2, <2>3, <2>4, <2>5, <2>6
<1> QED BY <1>2, <1>3
-----------------------------------------------------------------------------
(* The server.                                                             *)

(* What is known of the transport's locals.  Every call of Serve but the   *)
(* first is made after a failure, so their number is bounded; the first    *)
(* is made when nothing has run yet.                                       *)
Counted ==
    /\ proc \in {"start", "open"} => server = NoServer
    /\ server.number <= failures + 1
    /\ server.pc = "serve" => server.errCh \in {"empty", "error"}
    /\ server.pc = "backoff" \/ (server.pc = "serve" /\ server.errCh = "error")
          => server.number <= failures

(* Shutdown has seen its connections idle, or has given up, and no request *)
(* is taken any more by the server that it has closed.                     *)
Drained == server.pc \in {"await", "ended"} /\ ~server.late => ~Busy

(* A request past the SDK's check has a tuple that the schema accepts.     *)
Checked ==
    \A r \in Req : req[r].pc = "handler" =>
        \/ Valid(cfg, req[r].tuple)
        \/ req[r].op = "stats" /\ req[r].tuple = <<>>

IndInv == ServeTypeOK /\ Counted /\ Drained /\ Checked /\ PublishedIsEnforced

(* The locals of a transport that is just called.                          *)
Fresh(pc, listener, number) ==
    [pc |-> pc, listener |-> listener, errCh |-> "empty", number |-> number, late |-> FALSE]

LEMMA NoTuple == <<>> \in Tuple
<1>1. <<>> \in [{} -> Value]
  BY SMT
<1> QED BY <1>1 DEF Tuple

LEMMA NoServerTyped == ServeAssumption => NoServer \in Server
BY DEF ServeAssumption, NoServer, Server

LEMMA NoRequestTyped == ServeAssumption => NoRequest \in Request
BY NoTuple DEF ServeAssumption, NoRequest, Request, Answers

(* The first state.                                                        *)
LEMMA InitInv == Init => IndInv
<1> SUFFICES ASSUME Init PROVE IndInv
  OBVIOUS
<1>1. ServeTypeOK
  <2>1. NoServer \in Server /\ NoRequest \in Request /\ 0 \in 0..MaxFailures
    BY ServeAssumption, NoServerTyped, NoRequestTyped DEF ServeAssumption
  <2> QED BY <2>1 DEF Init, ServeTypeOK
<1>2. Counted /\ Drained
  BY ServeAssumption DEF Init, Counted, Drained, NoServer, ServeAssumption
<1>3. Checked /\ PublishedIsEnforced
  BY DEF Init, Checked, PublishedIsEnforced, NoRequest
<1> QED BY <1>1, <1>2, <1>3 DEF IndInv

(* Starting, the signal, and the end: no request gets further.             *)
LEMMA ProcessInv ==
    ASSUME IndInv, Load \/ Open \/ OpenFails \/ Signal \/ Return
    PROVE  IndInv'
<1> USE DEF IndInv
<1>0. UNCHANGED <<req, config>> /\ UNCHANGED failures
  BY DEF Load, Open, OpenFails, Signal, Return
<1>1. Checked' /\ PublishedIsEnforced'
  BY <1>0 DEF Checked, PublishedIsEnforced, config
<1>2. CASE Open
  <2>1. /\ proc = "open" /\ proc' = "serving" /\ storage' = "open" /\ UNCHANGED signalled
        /\ server = NoServer
    BY <1>2 DEF Open, Counted
  <2>2. server' \in {[NoServer EXCEPT !.pc = "stdio"], Called, [NoServer EXCEPT !.pc = "idle"]}
    BY <1>2 DEF Open
  <2>3. /\ server'.pc \in {"stdio", "serve", "idle"}
        /\ server'.errCh = "empty" /\ server'.number \in {0, 1}
        /\ server' \in Server
    <3>1. /\ MaxFailures \in Nat
          /\ server.number = 0
      BY <2>1, ServeAssumption DEF ServeAssumption, NoServer
    <3>2. \/ server' = Fresh("stdio", "none", 0)
          \/ server' = Fresh("serve", "starting", 1)
          \/ server' = Fresh("idle", "none", 0)
      <4>1. CASE server' = [NoServer EXCEPT !.pc = "stdio"]
        BY <4>1 DEF NoServer, Fresh
      <4>2. CASE server' = Called
        <5>1. server' = Fresh("serve", "starting", server.number + 1)
          BY <4>2 DEF Called, NoServer, Fresh
        <5> QED BY <3>1, <5>1
      <4>3. CASE server' = [NoServer EXCEPT !.pc = "idle"]
        BY <4>3 DEF NoServer, Fresh
      <4> QED BY <2>2, <4>1, <4>2, <4>3
    <3>3. PICK pc \in {"stdio", "serve", "idle"}, listener \in {"none", "starting"},
               number \in {0, 1} : server' = Fresh(pc, listener, number)
      BY <3>2
    <3> QED BY <3>1, <3>3 DEF Fresh, Server
  <2>4. ServeTypeOK'
    BY <1>0, <2>1, <2>3 DEF ServeTypeOK, config
  <2>5. Counted' /\ Drained'
    BY <1>0, <2>1, <2>3 DEF ServeTypeOK, Counted, Drained
  <2> QED BY <1>1, <2>4, <2>5
<1>3. CASE Load \/ OpenFails \/ Signal \/ Return
  <2>1. UNCHANGED server
    BY <1>3 DEF Load, OpenFails, Signal, Return
  <2>2. ServeTypeOK'
    BY <1>0, <1>3, <2>1 DEF ServeTypeOK, config, Load, OpenFails, Signal, Return
  <2>3. Counted'
    BY <1>0, <1>3, <2>1 DEF Counted, Load, OpenFails, Signal, Return
  <2>4. Drained'
    BY <1>0, <2>1 DEF Drained, Busy, Running
  <2> QED BY <1>1, <2>2, <2>3, <2>4
<1> QED BY <1>2, <1>3

(* mcpService.Serve, its listener, and the supervisor that calls it again. *)
LEMMA ServerInv ==
    ASSUME IndInv,
           \/ Listen \/ ListenerFails \/ ListenerStops \/ ServeReturns \/ Restart
           \/ BeginShutdown \/ ShutdownDone \/ ShutdownTimesOut \/ AwaitListener
    PROVE  IndInv'
<1> USE DEF IndInv
<1>0. UNCHANGED <<req, config, proc, storage, signalled>>
  BY DEF Listen, ListenerFails, ListenerStops, ServeReturns, Restart, BeginShutdown,
         ShutdownDone, ShutdownTimesOut, AwaitListener, SetServer
<1>1. Checked' /\ PublishedIsEnforced'
  BY <1>0 DEF Checked, PublishedIsEnforced, config
<1>2. /\ server \in Server /\ failures \in 0..MaxFailures /\ MaxFailures \in Nat
      /\ server.number \in 0..(MaxFailures + 1)
  BY ServeAssumption DEF ServeTypeOK, ServeAssumption, Server
<1>3. server.pc # "none" => proc \notin {"start", "open"}
  BY DEF Counted, NoServer
<1>4. SUFFICES /\ server' \in Server /\ failures' \in 0..MaxFailures
               /\ server.pc # "none" /\ Counted' /\ Drained'
  BY <1>0, <1>1 DEF ServeTypeOK, config
<1>5. CASE Listen
  <2>1. server.pc = "serve" /\ server' = [server EXCEPT !.listener = "listening"]
    BY <1>5 DEF Listen, SetServer
  <2>2. UNCHANGED failures
    BY <1>5 DEF Listen
  <2> QED BY <1>0, <1>2, <1>3, <2>1, <2>2 DEF Server, Counted, Drained
<1>6. CASE ListenerFails
  <2>1. /\ server.pc = "serve" /\ failures < MaxFailures /\ failures' = failures + 1
        /\ server' = [server EXCEPT !.listener = "returned", !.errCh = "error"]
    BY <1>6 DEF ListenerFails, SetServer
  <2>2. /\ server'.pc = "serve" /\ server'.errCh = "error" /\ server'.number = server.number
        /\ server' \in Server
    BY <1>2, <2>1 DEF Server
  <2>3. Counted'
    BY <1>0, <1>2, <1>3, <2>1, <2>2 DEF Counted
  <2> QED BY <1>2, <2>1, <2>2, <2>3 DEF Drained
<1>7. CASE ListenerStops
  <2>1. /\ server.pc \in {"shutdown", "await"} /\ UNCHANGED failures
        /\ server' = [server EXCEPT !.listener = "returned", !.errCh = "nil"]
    BY <1>7 DEF ListenerStops, SetServer
  <2>2. Drained'
    BY <1>0, <1>2, <2>1 DEF Server, Drained, Busy, Running
  <2> QED BY <1>0, <1>2, <1>3, <2>1, <2>2 DEF Server, Counted
<1>8. CASE ServeReturns
  <2>1. /\ server.pc = "serve" /\ server.errCh # "empty" /\ UNCHANGED failures
        /\ server' = [server EXCEPT !.pc = "backoff", !.errCh = "empty"]
    BY <1>8 DEF ServeReturns, SetServer
  <2> QED BY <1>0, <1>2, <1>3, <2>1 DEF Server, Counted, Drained
<1>9. CASE Restart
  <2>1. server.pc = "backoff" /\ server' = Called /\ UNCHANGED failures
    BY <1>9 DEF Restart, SetServer
  <2>2. server.number <= failures
    BY <2>1 DEF Counted
  <2>3. server' = Fresh("serve", "starting", server.number + 1)
    BY <2>1 DEF Called, NoServer, Fresh
  <2>4. server' \in Server
    <3>1. server.number + 1 \in 0..(MaxFailures + 1)
      BY <1>2, <2>2
    <3> QED BY <2>3, <3>1 DEF Fresh, Server
  <2>5. Counted'
    BY <1>0, <1>2, <1>3, <2>1, <2>2, <2>3 DEF Counted, Fresh
  <2> QED BY <1>2, <2>1, <2>3, <2>4, <2>5 DEF Drained, Fresh
<1>10. CASE BeginShutdown
  <2>1. /\ server.pc = "serve" /\ UNCHANGED failures
        /\ server' = [server EXCEPT !.pc = "shutdown"]
    BY <1>10 DEF BeginShutdown, SetServer
  <2> QED BY <1>0, <1>2, <1>3, <2>1 DEF Server, Counted, Drained
<1>11. CASE ShutdownDone
  <2>1. /\ server.pc = "shutdown" /\ ~Busy /\ UNCHANGED failures
        /\ server' = [server EXCEPT !.pc = "await"]
    BY <1>11 DEF ShutdownDone, SetServer
  <2>2. Drained'
    BY <1>0, <1>2, <2>1 DEF Server, Drained, Busy, Running
  <2> QED BY <1>0, <1>2, <1>3, <2>1, <2>2 DEF Server, Counted
<1>12. CASE ShutdownTimesOut
  <2>1. /\ server.pc = "shutdown" /\ UNCHANGED failures
        /\ server' = [server EXCEPT !.pc = "await", !.late = TRUE]
    BY <1>12 DEF ShutdownTimesOut, SetServer
  <2> QED BY <1>0, <1>2, <1>3, <2>1 DEF Server, Counted, Drained
<1>13. CASE AwaitListener
  <2>1. /\ server.pc = "await" /\ UNCHANGED failures
        /\ server' = [server EXCEPT !.pc = "ended", !.errCh = "empty"]
    BY <1>13 DEF AwaitListener, SetServer
  <2>2. Drained'
    BY <1>0, <1>2, <2>1 DEF Server, Drained, Busy, Running
  <2> QED BY <1>0, <1>2, <1>3, <2>1, <2>2 DEF Server, Counted
<1> QED BY <1>5, <1>6, <1>7, <1>8, <1>9, <1>10, <1>11, <1>12, <1>13

(* The process exits, and takes the requests with it.                      *)
LEMMA ExitInv ==
    ASSUME IndInv, Exit
    PROVE  IndInv'
<1> USE DEF IndInv
<1>1. /\ UNCHANGED <<config, storage, server, signalled, failures>>
      /\ proc' = "down" /\ server' = server
  BY DEF Exit
<1>2. \A r \in Req : \/ req'[r] = req[r] /\ ~Running(r)
                     \/ req'[r] = [req[r] EXCEPT !.pc = "done", !.answer = "lost"]
  BY DEF Exit
<1>3. req' \in [Req -> Request]
  <2>1. \A r \in Req : req[r] \in Request
    BY DEF ServeTypeOK
  <2>2. \A r \in Req : [req[r] EXCEPT !.pc = "done", !.answer = "lost"] \in Request
    BY <2>1 DEF Request, Answers
  <2> QED BY <2>1, <2>2 DEF Exit
<1>4. ServeTypeOK'
  BY <1>1, <1>3 DEF ServeTypeOK, config
<1>5. \A r \in Req : /\ req'[r].pc \notin {"handler", "storage"}
                     /\ req'[r].tuple = req[r].tuple
                     /\ req'[r].answer \in {req[r].answer, "lost"}
  <2> TAKE r \in Req
  <2>1. req[r] \in Request
    BY DEF ServeTypeOK
  <2>2. CASE req'[r] = req[r] /\ ~Running(r)
    BY <2>2 DEF Running
  <2>3. CASE req'[r] = [req[r] EXCEPT !.pc = "done", !.answer = "lost"]
    BY <2>1, <2>3 DEF Request
  <2> QED BY <1>2, <2>2, <2>3
<1>6. Counted' /\ Drained' /\ Checked'
  BY <1>1, <1>5 DEF Counted, Drained, Checked, Busy, Running
<1>7. PublishedIsEnforced'
  BY <1>1, <1>5 DEF PublishedIsEnforced, config
<1> QED BY <1>4, <1>6, <1>7

(* What a step of one request has to keep: the server's own locals and the *)
(* other requests stay, and it does not come back to life.                 *)
LEMMA RequestKeeps ==
    ASSUME IndInv, NEW r \in Req, NEW s \in Request, SetRequest(r, s),
           s.pc \in {"handler", "storage"} =>
               server.pc \in {"stdio", "serve"} \/ (Running(r) /\ s.number = req[r].number),
           s.pc = "handler" => Valid(cfg, s.tuple) \/ (s.op = "stats" /\ s.tuple = <<>>),
           s.answer # "tenant_invalid",
           s.answer = "bad_arguments" => ~Valid(cfg, s.tuple)
    PROVE  IndInv'
<1> USE DEF IndInv
<1>1. /\ UNCHANGED <<config, proc, storage, server, signalled, failures>>
      /\ req' = [req EXCEPT ![r] = s]
  BY DEF SetRequest
<1>2. req \in [Req -> Request]
  BY DEF ServeTypeOK
<1>3. req'[r] = s /\ \A q \in Req \ {r} : req'[q] = req[q]
  BY <1>1, <1>2
<1>4. req' \in [Req -> Request]
  BY <1>1, <1>2
<1>5. ServeTypeOK' /\ Counted'
  BY <1>1, <1>4 DEF ServeTypeOK, Counted, config
<1>6. Checked' /\ PublishedIsEnforced'
  BY <1>1, <1>3 DEF Checked, PublishedIsEnforced, config
<1>7. Drained'
  BY <1>1, <1>3 DEF Drained, Busy, Running
<1> QED BY <1>5, <1>6, <1>7

(* Requests: the SDK refuses what the schema it was given does not accept, *)
(* and the service would have refused that, and nothing else.              *)
LEMMA RequestInv ==
    ASSUME IndInv, Requests
    PROVE  IndInv'
<1> USE DEF IndInv
<1>1. PICK r \in Req : Arrive(r) \/ RefuseArguments(r) \/ CheckTenant(r) \/ Answer(r)
  BY DEF Requests
<1>2. req[r] \in Request /\ cfg \in SchemaConfig /\ server \in Server
  BY ServeAssumption DEF ServeTypeOK, ServeAssumption
<1>3. \A answer \in Answers : answer \notin {"tenant_invalid", "bad_arguments"} /\ Done(r, answer)
         => IndInv'
  <2> SUFFICES ASSUME NEW answer \in Answers, answer \notin {"tenant_invalid", "bad_arguments"},
                      Done(r, answer)
               PROVE  IndInv'
    OBVIOUS
  <2> DEFINE s == [req[r] EXCEPT !.pc = "done", !.answer = answer]
  <2>1. s \in Request /\ s.pc = "done" /\ s.answer = answer
    BY <1>2 DEF Request, Answers
  <2>2. SetRequest(r, s)
    BY DEF Done
  <2> QED BY <2>1, <2>2, RequestKeeps
<1>4. CASE Arrive(r)
  <2>1. PICK op \in {"write", "read", "stats"}, tuple \in Tuple, given \in BOOLEAN :
          /\ given \/ (op = "stats" /\ tuple = <<>>)
          /\ LET call == [NoRequest EXCEPT !.pc = "handler", !.op = op, !.tuple = tuple,
                                           !.number = server.number]
             IN  SetRequest(r,
                    IF given /\ ~Accepts(JSONSchema(cfg), tuple)
                    THEN [call EXCEPT !.pc = "done", !.answer = "bad_arguments"]
                    ELSE call)
    BY <1>4 DEF Arrive
  <2> DEFINE call(pc, answer) == [pc |-> pc, op |-> op, tuple |-> tuple,
                                  number |-> server.number, answer |-> answer]
             arrived == [NoRequest EXCEPT !.pc = "handler", !.op = op, !.tuple = tuple,
                                          !.number = server.number]
             refused == [arrived EXCEPT !.pc = "done", !.answer = "bad_arguments"]
  <2>a. ASSUME NEW x, x = arrived PROVE x = call("handler", "none")
    BY <2>a DEF NoRequest
  <2>b. ASSUME NEW x, x = refused PROVE x = call("done", "bad_arguments")
    BY <2>b DEF NoRequest
  <2>2. server.pc \in {"stdio", "serve"} /\ server.number \in 0..(MaxFailures + 1)
    BY <1>2, <1>4 DEF Arrive, Server
  <2>3. call("done", "bad_arguments") \in Request /\ call("handler", "none") \in Request
    BY <2>2 DEF Request, Answers
  <2>4. Accepts(JSONSchema(cfg), tuple) <=> Valid(cfg, tuple)
    BY <1>2, SchemasAgree
  <2>5. CASE given /\ ~Accepts(JSONSchema(cfg), tuple)
    <3>1. SetRequest(r, call("done", "bad_arguments"))
      BY <2>1, <2>5, <2>b
    <3> QED BY <2>3, <2>4, <2>5, <3>1, RequestKeeps
  <2>6. CASE ~(given /\ ~Accepts(JSONSchema(cfg), tuple))
    <3>1. SetRequest(r, call("handler", "none"))
      BY <2>1, <2>6, <2>a
    <3>2. Valid(cfg, tuple) \/ (op = "stats" /\ tuple = <<>>)
      BY <2>1, <2>4, <2>6
    <3> QED BY <2>2, <2>3, <3>1, <3>2, RequestKeeps
  <2> QED BY <2>5, <2>6
<1>5. CASE RefuseArguments(r)
  BY <1>3, <1>5 DEF RefuseArguments, Answers
<1>6. CASE CheckTenant(r)
  <2>1. /\ req[r].pc = "handler"
        /\ Valid(cfg, req[r].tuple) \/ (req[r].op = "stats" /\ req[r].tuple = <<>>)
    BY <1>6 DEF CheckTenant, Checked
  <2>2. CASE Done(r, "error")
    BY <1>3, <2>2 DEF Answers
  <2>3. CASE SetRequest(r, [NoRequest EXCEPT !.pc = "storage", !.number = req[r].number])
    <3> DEFINE s == [pc |-> "storage", op |-> "read", tuple |-> <<>>,
                     number |-> req[r].number, answer |-> "none"]
    <3>0. ASSUME NEW x, x = [NoRequest EXCEPT !.pc = "storage", !.number = req[r].number]
          PROVE  x = s
      BY <3>0 DEF NoRequest
    <3>1. SetRequest(r, s)
      BY <2>3, <3>0
    <3>2. s \in Request
      BY <1>2, NoTuple DEF Request, Answers
    <3> QED BY <2>1, <3>1, <3>2, RequestKeeps DEF Running
  <2> QED BY <1>6, <2>1, <2>2, <2>3 DEF CheckTenant
<1>7. CASE Answer(r)
  BY <1>3, <1>7 DEF Answer, Answers
<1> QED BY <1>1, <1>4, <1>5, <1>6, <1>7

-----------------------------------------------------------------------------
(* Every reachable state satisfies the inductive invariant.                *)
THEOREM Invariance == Spec => []IndInv
<1>1. Init => IndInv
  BY InitInv
<1>2. IndInv /\ [Next]_vars => IndInv'
  <2> SUFFICES ASSUME IndInv, [Next]_vars PROVE IndInv'
    OBVIOUS
  <2>1. CASE UNCHANGED vars
    BY <2>1 DEF vars, IndInv, ServeTypeOK, Counted, Drained, Checked, PublishedIsEnforced, Busy,
                Running
  <2>2. CASE Next /\ ~Rest
    BY <2>2, ProcessInv, ServerInv, ExitInv, RequestInv DEF Next, Main, Listener
  <2> QED BY <2>1, <2>2 DEF Rest
<1> QED BY <1>1, <1>2, PTL DEF Spec

(* The supervisor calls Serve once and once more per failure, and every    *)
(* request belongs to one of these calls.                                  *)
THEOREM ServeTypes == Spec => []ServeTypeOK
<1>1. IndInv => ServeTypeOK
  BY DEF IndInv
<1> QED BY <1>1, Invariance, PTL

(* Whatever is configured, no client that keeps to the published schema is *)
(* told that its tenant is invalid, and the SDK turns nobody away whom the *)
(* service would have let in.                                              *)
THEOREM SchemaIsEnforced == Spec => []PublishedIsEnforced
<1>1. IndInv => PublishedIsEnforced
  BY DEF IndInv
<1> QED BY <1>1, Invariance, PTL

(* A Shutdown that was not late leaves no request to the closed storage,   *)
(* with any number of requests, failures and calls of Serve.               *)
THEOREM NobodyCutOff == Spec => []ClosedWhenIdle
<1>1. IndInv => ClosedWhenIdle
  BY DEF IndInv, Drained, ClosedWhenIdle
<1> QED BY <1>1, Invariance, PTL
=============================================================================
