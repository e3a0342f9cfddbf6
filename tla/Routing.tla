------------------------------- MODULE Routing -------------------------------
(***************************************************************************)
(* The routes map of HttpServer (http/server.ts) and who answers a         *)
(* request: the map in-memory tests dispatch on (testing/test-app.ts,      *)
(* http/matcher.ts), and the server with its fallback.                     *)
(*                                                                         *)
(* A path, of a route or of a request, is the sequence of its segments,    *)
(* what is between the slashes after the first: "/" has one, which is      *)
(* empty, and "/users/" ends with an empty one.  A segment of a route may  *)
(* be a parameter, with its name, or the wildcard.                         *)
(* The map is a sequence of entries in the order in which their keys were  *)
(* set; an entry's methods map a method to the name of what answers it.    *)
(***************************************************************************)
EXTENDS SequencesExt

CONSTANT Parameters   \* the segments such as ":id"

Rest == "*"
Root == <<"">>

ASSUME ParametersAssumption == Parameters \cap {"", Rest} = {}

\* joinPaths() of two normalized paths.
JoinPaths(base, sub) ==
    IF sub = Root THEN base ELSE IF base = Root THEN sub ELSE base \o sub

\* The declarations of a controller, with their full paths.
Declared(base, routes) ==
    [i \in DOMAIN routes |-> [routes[i] EXCEPT !.path = JoinPaths(base, @)]]

Position(map, path) == SelectInSeq(map, LAMBDA e : e.path = path)

\* map[path] = methods
SetPath(map, path, methods) ==
    IF Position(map, path) = 0 THEN Append(map, [path |-> path, methods |-> methods])
    ELSE [map EXCEPT ![Position(map, path)].methods = methods]

\* methods[route.method] = handler
WithMethod(methods, route) ==
    [m \in DOMAIN methods \cup {route.method} |->
        IF m = route.method THEN route.handler ELSE methods[m]]

\* Slip: the methods that the path has already are not kept.
AddedAlone(map, route) == SetPath(map, route.path, WithMethod(<< >>, route))

\* methods = map[path] ?? {}, and the route's method set there.
Added(map, route) ==
    LET i == Position(map, route.path)
        methods == IF i = 0 THEN << >> ELSE map[i].methods
    IN  SetPath(map, route.path, WithMethod(methods, route))

\* buildRoutes()
BuildRoutes(declarations) ==
    LET upTo[n \in 0..Len(declarations)] ==
            IF n = 0 THEN << >> ELSE Added(upTo[n - 1], declarations[n])
    IN  upTo[Len(declarations)]

GetOnly(handler) == [m \in {"GET"} |-> handler]

\* addOpenApiRoutes() and addHealthRoutes(), with their default paths.
WithOpenApi(map, openapi, ui) ==
    LET described == SetPath(map, <<"openapi.json">>, GetOnly("spec"))
    IN  IF ~openapi THEN map
        ELSE IF ui THEN SetPath(described, <<"docs">>, GetOnly("ui")) ELSE described
WithHealth(map, on) ==
    IF on THEN SetPath(SetPath(map, <<"health">>, GetOnly("alive")),
                       <<"ready">>, GetOnly("ready"))
    ELSE map

\* The constructor of HttpServer.
RoutesMap(declarations, options) ==
    WithHealth(WithOpenApi(BuildRoutes(declarations), options.openapi, options.ui),
               options.health)

-----------------------------------------------------------------------------

\* RouteMatcher: the pattern as a regular expression on the whole path.  A
\* parameter is ([^/]+), the wildcard (.*), which is the empty string or goes on
\* over slashes.  reached[i]: the segments of url that the first i of the
\* pattern may have used up.
Matches(pattern, url) ==
    LET Fits(segment, given) ==
            IF segment \in Parameters THEN given # "" ELSE given = segment
        reached[i \in 0..Len(pattern)] ==
            IF i = 0 THEN {0}
            ELSE IF pattern[i] = Rest
                 THEN { n \in 1..Len(url) : \E m \in reached[i - 1] : m < n }
            ELSE { n \in 1..Len(url) : /\ n - 1 \in reached[i - 1]
                                       /\ Fits(pattern[i], url[n]) }
    IN  Len(url) \in reached[Len(pattern)]

\* TestApp.dispatch(): the first entry that matches, and its method.
Dispatch(map, url, method) ==
    LET i == SelectInSeq(map, LAMBDA e : Matches(e.path, url))
    IN  IF i = 0 THEN "404"
        ELSE IF method \in DOMAIN map[i].methods THEN map[i].methods[method]
        ELSE "405"

\* Cors.isPreflight(): the OPTIONS requests asked about are preflight requests.
IsPreflight(options, method) == options.cors /\ method = "OPTIONS"

\* StaticFiles.matches(): the prefix or what is below it.
IsStatic(options, url) == options.static # << >> /\ IsPrefix(options.static, url)

\* fallback(): a gateway, a preflight request, a static file, or nothing.
Fallback(options, gateways, url, method) ==
    CASE url \in DOMAIN gateways -> gateways[url]
      [] url \notin DOMAIN gateways /\ IsPreflight(options, method) -> "preflight"
      [] url \notin DOMAIN gateways /\ ~IsPreflight(options, method) ->
            IF IsStatic(options, url) THEN "file" ELSE "404"

\* Bun.serve: some entry that matches and has the method, else the fallback.
\* Which one, when several match, is the runtime's to say.
ServedBy(map, options, gateways, url, method) ==
    LET is == { i \in DOMAIN map : Matches(map[i].path, url)
                                      /\ method \in DOMAIN map[i].methods }
    IN  IF is = {} THEN {Fallback(options, gateways, url, method)}
        ELSE { map[i].methods[method] : i \in is }
=============================================================================
