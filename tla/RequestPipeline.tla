--------------------------- MODULE RequestPipeline ---------------------------
(***************************************************************************)
(* The HTTP request pipeline: createRouteHandler (http/pipeline.ts) with   *)
(* rate limit, guards, parameters, handler, answer and error mapping, for  *)
(* requests that are handled concurrently and share the rate limiter.      *)
(*                                                                         *)
(* A request is a record: the fields of its RequestContext that later      *)
(* stages read, and the stage it awaits something in.  Each action is one  *)
(* continuation of the async handler, up to its next await.  What user     *)
(* code answers (guards, schemas, handlers, sources) is chosen freely.     *)
(*                                                                         *)
(* A route has a limit or not, the guards of its class and of its method,  *)
(* its parameters in the order in which extractArgs visits them, the       *)
(* contents that its clients send, and may be an @Sse route.  All requests *)
(* share one key of the rate limiter, as with a keyGenerator or when one   *)
(* client repeats a request.                                               *)
(***************************************************************************)
EXTENDS RateLimit, EventSource, SequencesExt

CONSTANTS
    Requests,
    RouteOf,     \* per request its route
    Key,         \* the key that the requests share
    HeartbeatMs, \* of the @Sse routes
    MaxTime      \* bound: the clock stops there

Source == {"body", "form", "plain"}   \* plain: whatever reads no stream
Param == [source : Source, schema : BOOLEAN]
Guard == {"jwt", "custom"}
Contents == {"json", "broken json", "multipart"}

ASSUME PipelineAssumption ==
    /\ HeartbeatMs \in Nat /\ MaxTime \in Nat
    /\ \A r \in Requests :
          /\ RouteOf[r].limited \in BOOLEAN /\ RouteOf[r].sse \in BOOLEAN
          /\ RouteOf[r].classGuards \in Seq(Guard)
          /\ RouteOf[r].routeGuards \in Seq(Guard)
          /\ RouteOf[r].params \in Seq(Param)
          /\ RouteOf[r].contents \subseteq Contents

VARIABLES
    now,
    buckets,   \* of MemoryStorage
    stopped,   \* HttpServer.stop() was called: the storage is closed
    admitted,  \* history: when hits were allowed, as long as it is open
    req

vars == <<now, buckets, stopped, admitted, req>>

\* The exceptions of the pipeline and of user code, with the status that
\* errorToResponse gives them; other stands for any further HttpException.
StatusOf ==
    [ badRequest |-> 400, unauthorized |-> 401, forbidden |-> 403,
      other |-> 409, tooMany |-> 429, zod |-> 400, error |-> 500 ]
Exceptions == DOMAIN StatusOf
ErrorStatus == { StatusOf[e] : e \in Exceptions }

NoBucket == [count |-> 0, resetAt |-> 0]

\* createContext(): headers stands for ctx.responseHeaders; took (whether a
\* guard read the stream) and log are history.
NewContext ==
    [ stage |-> "new", content |-> "json", step |-> 1, taken |-> FALSE,
      bodyRead |-> FALSE, jwt |-> FALSE, headers |-> {}, status |-> 0,
      answer |-> {}, retryAfter |-> 0, bucket |-> NoBucket,
      aborted |-> FALSE, span |-> FALSE, stream |-> NoStream,
      took |-> FALSE, log |-> << >> ]

Stage == {"new", "limit", "guards", "params", "handler", "streaming", "answered"}
Header == {"static", "rate limit", "retry-after"}

TypeOK ==
    /\ now \in 0..MaxTime
    /\ AreBuckets(buckets, {Key})
    /\ stopped \in BOOLEAN
    /\ \A i \in DOMAIN admitted : admitted[i] \in 0..now
    /\ \A r \in Requests :
          /\ req[r].stage \in Stage
          /\ req[r].content \in Contents
          /\ req[r].headers \subseteq Header /\ req[r].answer \subseteq Header
          /\ req[r].status \in {0, 200, 204} \cup ErrorStatus
          /\ req[r].stream \in Stream
          /\ req[r].span <=> req[r].stage \notin {"new", "streaming", "answered"}
          /\ req[r].status # 0 <=> req[r].stage \in {"streaming", "answered"}
          /\ LetsGo(req[r].stream)

Init ==
    /\ now = 0
    /\ buckets = NoBuckets
    /\ stopped = FALSE
    /\ admitted = << >>
    /\ req = [r \in Requests |-> NewContext]

-----------------------------------------------------------------------------

Noted(c, event) == [c EXCEPT !.log = Append(@, event)]

\* A Response with the headers collected so far; instrumentRequest ends the
\* span in its finally block, and the context is gone.
Answered(c, status) ==
    [c EXCEPT !.stage = "answered", !.status = status, !.answer = c.headers,
              !.span = FALSE, !.headers = {}, !.step = 1, !.taken = FALSE,
              !.bodyRead = FALSE, !.aborted = FALSE]

\* Slip: the catch block does not cover the stages before the handler.
FailedUncaught(c, error) ==
    IF Contains(c.log, "handled") THEN Answered(c, StatusOf[error])
    ELSE [c EXCEPT !.stage = "rejected"]

\* The catch block: errorToResponse.
Failed(c, error) == Answered(c, StatusOf[error])

\* An exception of the framework itself, which the history names.
Refuses(c, error) == Failed(Noted(c, error), error)

\* User code may throw any exception, those of the framework too: the status
\* is its choice.
Throws(c, error) == Failed(Noted(c, "chosen"), error)

Goes(r, c) == req' = [req EXCEPT ![r] = c]
Other == UNCHANGED <<now, buckets, stopped, admitted>>
At(r, stage) == req[r].stage = stage

\* Slip: the guards of the controller are left out.
RouteGuardsOnly(route) == route.routeGuards

\* buildRoutes(): the class's guards come first.
Guards(route) == route.classGuards \o route.routeGuards

AfterGuard(c, guards, g) ==
    [c EXCEPT !.stage = IF g = Len(guards) THEN "params" ELSE "guards",
              !.step = IF g = Len(guards) THEN 1 ELSE g + 1]

\* getRateLimit(): the route or its controller carries @RateLimit.
Limited(r) == RouteOf[r].limited

\* The handler is called: the context is made, the static headers are set and
\* the hit is counted before the first await.  Connections kept alive bring
\* requests even after stop().
Arrive(r, content) ==
    LET c == [NewContext EXCEPT !.content = content, !.headers = {"static"},
                                !.span = TRUE, !.aborted = req[r].aborted]
        b == HitBucket(buckets, Key, now)
    IN
    /\ At(r, "new")
    /\ IF Limited(r)
       THEN /\ buckets' = Hit(buckets, Key, now)
            /\ admitted' = IF Allowed(b) /\ ~stopped THEN Append(admitted, now)
                           ELSE admitted
            /\ Goes(r, [c EXCEPT !.stage = "limit", !.bucket = b])
       ELSE /\ Goes(r, AfterGuard(c, Guards(RouteOf[r]), 0))
            /\ UNCHANGED <<buckets, admitted>>
    /\ UNCHANGED <<now, stopped>>

\* A keyGenerator that throws.
KeyGeneratorThrows(r, error) ==
    /\ At(r, "new") /\ Limited(r)
    /\ Goes(r, Throws([NewContext EXCEPT !.headers = {"static"},
                                         !.aborted = req[r].aborted], error))
    /\ Other

\* enforceRateLimit() after its await.
Enforce(r) ==
    LET c == [req[r] EXCEPT !.headers = @ \cup {"rate limit"}]
        refused == [c EXCEPT !.headers = @ \cup {"retry-after"},
                             !.retryAfter = now + RetryAfter(c.bucket, now) * SecondMs]
    IN
    /\ At(r, "limit")
    /\ Goes(r, IF Allowed(c.bucket)
               THEN AfterGuard(Noted([c EXCEPT !.bucket = NoBucket], "admitted"),
                               Guards(RouteOf[r]), 0)
               ELSE Refuses(refused, "tooMany"))
    /\ Other

-----------------------------------------------------------------------------

\* The guard that is awaited.
Awaited(r, guard) ==
    At(r, "guards") /\ Guards(RouteOf[r])[req[r].step] = guard

Passes(r, c) ==
    Goes(r, AfterGuard(Noted(c, "passed"), Guards(RouteOf[r]), c.step))

\* JwtGuard: no bearer token, or one that verify() has no payload for, throws
\* UnauthorizedException; otherwise the payload goes into ctx.state.  Without
\* JwtModule it cannot be resolved.
JwtGuard(r) ==
    /\ Awaited(r, "jwt")
    /\ \/ \E error \in {"unauthorized", "error"} : Goes(r, Refuses(req[r], error))
       \/ Passes(r, [req[r] EXCEPT !.jwt = TRUE])
    /\ Other

\* Any other guard: it may read the request's stream, and a verdict that is
\* not truthy becomes ForbiddenException.  It may throw, or not be resolvable.
CustomGuard(r) ==
    /\ Awaited(r, "custom")
    /\ \/ Passes(r, req[r])
       \/ Passes(r, [req[r] EXCEPT !.taken = TRUE, !.took = TRUE])
       \/ \E error \in {"forbidden", "error"} : Goes(r, Refuses(req[r], error))
       \/ \E error \in Exceptions : Goes(r, Throws(req[r], error))
    /\ Other

-----------------------------------------------------------------------------

\* Slip: bodyRead is not looked at.
UnreadAlways(c) == TRUE

Unread(c) == ~c.bodyRead

\* readBody() and readMultipart(): the stream of a request is taken once.
\* Other content than JSON is read as text, which cannot be malformed;
\* "multipart" is any content that formData() can read.
BodyFails(c) == Unread(c) /\ (c.taken \/ c.content = "broken json")
FormFails(c) == c.taken \/ c.content # "multipart"

\* One parameter of extractArgs, with its schema.  What validate() makes of a
\* ZodError is "invalid"; another exception of a schema goes on as it is.
ReadParam(r) ==
    LET p == RouteOf[r].params[req[r].step]
        read == IF p.source = "plain" THEN req[r]
                ELSE [req[r] EXCEPT !.taken = TRUE,
                                    !.bodyRead = @ \/ p.source = "body"]
        fails == \/ p.source = "body" /\ BodyFails(req[r])
                 \/ p.source = "form" /\ FormFails(req[r])
    IN
    /\ At(r, "params") /\ req[r].step <= Len(RouteOf[r].params)
    /\ \/ fails /\ Goes(r, Refuses(Noted(read, "unreadable"), "badRequest"))
       \/ ~fails /\ Goes(r, [read EXCEPT !.step = @ + 1])
       \/ ~fails /\ p.schema /\ Goes(r, Refuses(Noted(read, "invalid"), "badRequest"))
       \/ /\ ~fails /\ p.schema
          /\ \E error \in Exceptions \ {"zod"} : Goes(r, Throws(read, error))
    /\ Other

\* The arguments are complete: the handler is called.
CallHandler(r) ==
    /\ At(r, "params") /\ req[r].step > Len(RouteOf[r].params)
    /\ Goes(r, [Noted(req[r], "handled") EXCEPT !.stage = "handler"])
    /\ Other

\* The handler throws or rejects.  Its controller was instantiated at start-up.
HandlerThrows(r, error) ==
    /\ At(r, "handler")
    /\ Goes(r, Throws(req[r], error))
    /\ Other

\* serialize(): no content, content, a status of the handler's own (in its
\* Response or in ctx.statusCode), or a value JSON has no text for.
HandlerReturns(r) ==
    /\ At(r, "handler") /\ ~RouteOf[r].sse
    /\ \/ \E status \in {200, 204} : Goes(r, Answered(req[r], status))
       \/ \E status \in ErrorStatus :
             Goes(r, Answered(Noted(req[r], "chosen"), status))
       \/ Goes(r, Refuses(req[r], "error"))
    /\ Other

\* sseResponse(): a Response of its own, with the headers of the protocol and
\* none of the context's.  What is not iterable ends the stream at once.
HandlerStreams(r) ==
    LET c == [req[r] EXCEPT !.stage = "streaming", !.status = 200, !.span = FALSE,
                            !.stream = Started(HeartbeatMs)]
    IN
    /\ At(r, "handler") /\ RouteOf[r].sse
    /\ Goes(r, c) \/ Goes(r, [c EXCEPT !.stream = SourceOver(@)])
    /\ Other

-----------------------------------------------------------------------------

Waiting(r) == req[r].stream.loop = "waiting"
Streams(r, s) == Goes(r, [req[r] EXCEPT !.stream = s])

SourceYields(r, printable) ==
    /\ Waiting(r)
    /\ Streams(r, Yielded(req[r].stream, req[r].aborted, printable))
    /\ Other

SourceEnds(r) == Waiting(r) /\ Streams(r, SourceOver(req[r].stream)) /\ Other

\* The client goes, or stop(true) closes its connection.  Only event streams
\* look at the request's signal.
ClientGone(r) ==
    /\ RouteOf[r].sse /\ ~req[r].aborted /\ ~At(r, "answered")
    /\ Goes(r, [req[r] EXCEPT !.aborted = TRUE, !.stream = Aborted(@)])
    /\ Other

Sweep ==
    /\ ~stopped
    /\ Swept(buckets, now) # buckets
    /\ buckets' = Swept(buckets, now)
    /\ UNCHANGED <<now, stopped, admitted, req>>

\* HttpServer.stop() closes the storage before it waits for anything.
Stop ==
    /\ ~stopped
    /\ stopped' = TRUE
    /\ buckets' = NoBuckets
    /\ UNCHANGED <<now, admitted, req>>

Tick ==
    /\ now < MaxTime
    /\ now' = now + 1
    /\ UNCHANGED <<buckets, stopped, admitted, req>>

Continues(r) ==
    \/ Enforce(r) \/ JwtGuard(r) \/ CustomGuard(r) \/ ReadParam(r)
    \/ CallHandler(r) \/ HandlerReturns(r) \/ HandlerStreams(r)
    \/ \E error \in Exceptions : HandlerThrows(r, error)

Next ==
    \/ \E r \in Requests :
          \/ \E content \in RouteOf[r].contents : Arrive(r, content)
          \/ \E error \in Exceptions : KeyGeneratorThrows(r, error)
          \/ Continues(r)
          \/ \E printable \in BOOLEAN : SourceYields(r, printable)
          \/ SourceEnds(r) \/ ClientGone(r)
    \/ Sweep \/ Stop \/ Tick

Spec == Init /\ [][Next]_vars

\* What the runtime and the user's code owe: continuations run, promises of
\* guards and handlers settle.  A source owes no message.
FairSpec == Spec /\ \A r \in Requests : WF_vars(Continues(r))

-----------------------------------------------------------------------------

Said(r, event) == event \in ToSet(req[r].log)
HasParam(r, source) ==
    \E i \in DOMAIN RouteOf[r].params : RouteOf[r].params[i].source = source
Readers(r) ==
    { i \in DOMAIN RouteOf[r].params : RouteOf[r].params[i].source # "plain" }

\* Within any span of one window's length no more than twice the limit is
\* admitted, and a later window takes over only from an elapsed one: the sweep
\* and the edge `now >= resetAt` give nothing away (MemoryStorage; the limit
\* is forgotten only by stop(), which closes the storage first).
AtMostTwiceTheLimit ==
    \A t \in 0..MaxTime :
        Cardinality({ i \in DOMAIN admitted : admitted[i] \in t..(t + WindowMs - 1) })
            <= 2 * MaxHits

\* A handler runs only after its request was admitted and every guard of its
\* class and of its method passed, in this order; with @JwtPayload it finds
\* the payload of JwtGuard (docs/rate-limiting.md, "Ordering").
HandlerWasAdmitted ==
    \A r \in Requests :
        LET guards == RouteOf[r].classGuards \o RouteOf[r].routeGuards
            before == (IF Limited(r) THEN <<"admitted">> ELSE << >>)
                          \o [i \in DOMAIN guards |-> "passed"]
        IN  Said(r, "handled") =>
                /\ IsPrefix(Append(before, "handled"), req[r].log)
                /\ Contains(guards, "jwt") => req[r].jwt

\* Every answer has its reason.  Unless user code chose the status (a guard,
\* schema, handler or keyGenerator threw, or a handler answered with it): 429
\* only when the limiter refused; 401 only on a route with JwtGuard, 403 only
\* on one with another guard, 400 only when the body could not be read or a
\* schema did not accept a value, none of these after the handler was called,
\* and 2xx only after it.  The limiter refuses only over the limit, before any
\* guard, with a Retry-After after which the window is over; a body cannot be
\* read only if malformed, not multipart, or taken before, by a guard or for a
\* parameter.  An answer has the static headers and, if the hit was counted,
\* those of the limiter, whoever chose its status.
AnswersAreReal ==
    \A r \in Requests : At(r, "answered") =>
        LET status == req[r].status
            guards == ToSet(RouteOf[r].classGuards \o RouteOf[r].routeGuards)
        IN
        /\ Said(r, "chosen")
           \/ /\ status = 429 => Said(r, "tooMany")
              /\ status = 401 => "jwt" \in guards
              /\ status = 403 => "custom" \in guards
              /\ status = 400 => Said(r, "unreadable") \/ Said(r, "invalid")
              /\ status \in {429, 401, 403, 400} => ~Said(r, "handled")
              /\ status \in {200, 204} => Said(r, "handled")
        /\ Said(r, "tooMany") =>
              /\ Limited(r) /\ req[r].bucket.count > MaxHits
              /\ req[r].retryAfter >= req[r].bucket.resetAt
              /\ "retry-after" \in req[r].answer
              /\ ~Said(r, "passed") /\ ~Said(r, "handled")
        /\ Said(r, "unreadable") =>
              \/ req[r].content = "broken json"
              \/ HasParam(r, "form") /\ req[r].content # "multipart"
              \/ HasParam(r, "form") /\ Cardinality(Readers(r)) > 1
              \/ req[r].took
        /\ Said(r, "admitted") \/ Said(r, "tooMany") => "rate limit" \in req[r].answer
        /\ "static" \in req[r].answer

\* Every request that arrived is answered, whatever user code throws and
\* whenever the client goes (createRouteHandler, errorToResponse).  Each of the
\* finitely many requests arrives once: that none stays without answer is that
\* time and again none is on its way.
RequestsAreAnswered ==
    []<>(\A r \in Requests : req[r].stage \in {"new", "streaming", "answered"})

\* docs/realtime.md: "When the client disconnects, the request's AbortSignal
\* fires, the generator loop stops, and the stream closes."
DisconnectReleases ==
    \A r \in Requests :
        req[r].stage = "streaming" /\ req[r].aborted ~> Released(req[r].stream)
=============================================================================
