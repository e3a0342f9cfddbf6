-------------------------------- MODULE Boot --------------------------------
(***************************************************************************)
(* From a root module to something that answers: compileModules, the       *)
(* instantiation of all providers, the onModuleInit hooks, the wiring of   *)
(* handlers to the CQRS buses, and the routes map; as Application.create   *)
(* (core/application.ts) and TestingModuleBuilder.compile followed by      *)
(* createTestApp (testing/testing-module.ts) do it.                        *)
(*                                                                         *)
(* Providers may use the buses as soon as they exist, also in their hooks, *)
(* which run before the wiring.  An instance made from a class carries the *)
(* metadata of its decorators; a value that overrides it carries none.     *)
(***************************************************************************)
EXTENDS Modules, Routing

CONSTANTS
    Bus,              \* the token that stands for the three buses
    EventHandlers,    \* the tokens whose class handles the one event
    CommandHandlers,  \* the tokens whose class handles the one command
    GatewayPath,      \* per token of a gateway its path
    Programs,         \* the roots, what controllers declare, the server's options
    Urls, Methods,    \* the requests asked about
    Callers           \* the calls made to the buses

ASSUME BootAssumption ==
    /\ Bus \in Tokens
    /\ EventHandlers \subseteq Tokens /\ CommandHandlers \subseteq Tokens
    /\ Nobody \notin CommandHandlers
    /\ \A p \in Programs :
          /\ p.root \in Roots
          /\ \A t \in Controllers : LET routes == p.declared[t].routes
                                   IN  routes \in Seq(ToSet(routes))

VARIABLES
    declared,   \* per controller its path and routes
    options,    \* of the server
    phase,
    hooks,      \* how many instances had their onModuleInit
    wired,      \* the event handlers in EventBus
    commander,  \* the handler of the command in CommandBus
    routes,     \* HttpServer's routes map
    call        \* what was published or executed, and what became of it

cvars == <<declared, options>>
bvars == <<phase, hooks, wired, commander, routes>>
allvars == <<kvars, mvars, cvars, bvars, call>>

NoCall == [pc |-> "idle", early |-> FALSE, todo |-> {}, ran |-> {}, by |-> Nobody]

TypeOK ==
    /\ ContainerTypeOK /\ ModulesTypeOK
    /\ phase \in {"compile", "instantiate", "hooks", "wired", "serving", "rejected"}
    /\ hooks \in 0..Len(instances)
    /\ wired \subseteq EventHandlers
    /\ commander \in CommandHandlers \cup {Nobody}
    /\ IsInjective([i \in DOMAIN routes |-> routes[i].path])
    /\ \A c \in Callers :
          /\ call[c].pc \in {"idle", "publishing", "done", "no handler"}
          /\ call[c].todo \cup call[c].ran \subseteq EventHandlers
          /\ call[c].by \in CommandHandlers \cup {Nobody}

Init ==
    /\ \E p \in Programs :
          root = p.root /\ declared = p.declared /\ options = p.options
    /\ asked = Bus
    /\ ContainerInit /\ ModulesInit
    /\ phase = "compile"
    /\ hooks = 0
    /\ wired = {}
    /\ commander = Nobody
    /\ routes = << >>
    /\ call = [c \in Callers |-> NoCall]

-----------------------------------------------------------------------------

\* TestingModuleBuilder: the root that compile() makes of the metadata given to
\* createTestingModule() and of the overrides, which come last.
TestRoot(class, metadata, overrides) ==
    Dynamic(class, [metadata EXCEPT !.providers = @ \o overrides])

\* An exception: create() and compile() reject.
Rejects == phase' = "rejected" /\ UNCHANGED <<hooks, wired, commander, routes>>

CompileModules ==
    /\ phase = "compile" /\ Compile
    /\ UNCHANGED <<cvars, bvars, call>>

CompileThrows ==
    /\ phase = "compile" /\ NotAModule
    /\ Rejects /\ UNCHANGED <<kvars, mvars, cvars, call>>

Instantiate ==
    /\ phase = "compile" /\ Compiled
    /\ InstantiateAll
    /\ phase' = "instantiate"
    /\ UNCHANGED <<mvars, cvars, hooks, wired, commander, routes, call>>

ResolveNext ==
    /\ phase = "instantiate"
    /\ \/ \E t \in Tokens :
             ReturnCached(t) \/ NotRegistered(t) \/ Circular(t) \/ Enter(t)
       \/ Construct \/ ConstructFails
    /\ UNCHANGED <<mvars, cvars, bvars, call>>

Instantiated ==
    /\ phase = "instantiate" /\ todo = << >>
    /\ IF outcome = "ok"
       THEN phase' = "hooks" /\ UNCHANGED <<hooks, wired, commander, routes>>
       ELSE Rejects
    /\ UNCHANGED <<kvars, mvars, cvars, call>>

\* runLifecycle(instances, "onModuleInit"): the next hook is over, or throws.
InitHook ==
    /\ phase = "hooks" /\ hooks < Len(instances)
    /\ hooks' = hooks + 1
    /\ UNCHANGED <<kvars, mvars, cvars, phase, wired, commander, routes, call>>

InitHookThrows ==
    /\ phase = "hooks" /\ hooks < Len(instances)
    /\ Rejects /\ UNCHANGED <<kvars, mvars, cvars, call>>

\* The constructor of an instance that is of the class of its token.
IsOfClass(t) == providers[t].kind = "class"

\* wireCqrs(): the instances whose class carries a handler's metadata.
HandlersAmongInstances(handlers) ==
    { i \in DOMAIN instances : instances[i] \in handlers /\ IsOfClass(instances[i]) }

\* collectGateways(): the last instance of a path is its gateway.
GatewaysOf(list) ==
    LET is == { i \in DOMAIN list : list[i] \in DOMAIN GatewayPath /\ IsOfClass(list[i]) }
    IN  [path \in { GatewayPath[list[i]] : i \in is } |->
            list[Max({ i \in is : GatewayPath[list[i]] = path })]]
Gateways == GatewaysOf(instances)

DeclarationsOf(list) ==
    FlattenSeq([i \in DOMAIN list |->
        Declared(declared[list[i]].path, declared[list[i]].routes)])

\* wireCqrs(), after the last hook, if there are buses.
WireCqrs ==
    LET commanders == HandlersAmongInstances(CommandHandlers) IN
    /\ phase = "hooks" /\ hooks = Len(instances)
    /\ phase' = "wired"
    /\ IF providers[Bus] # Missing
       THEN /\ wired' = { instances[i] : i \in HandlersAmongInstances(EventHandlers) }
            /\ commander' = IF commanders = {} THEN Nobody ELSE instances[Max(commanders)]
       ELSE UNCHANGED <<wired, commander>>
    /\ UNCHANGED <<kvars, mvars, cvars, hooks, routes, call>>

\* The constructor of HttpServer: after wireRabbit(), or in createTestApp().
MakeServer ==
    /\ phase = "wired"
    /\ phase' = "serving"
    /\ routes' = RoutesMap(DeclarationsOf(controllers), options)
    /\ UNCHANGED <<kvars, mvars, cvars, hooks, wired, commander, call>>

-----------------------------------------------------------------------------

\* Also from a constructor or a hook of what has the bus injected.
BusIsThere == phase # "rejected" /\ Has(Bus)

Early == phase \notin {"wired", "serving"}

Called(c, record) ==
    /\ call[c].pc = "idle" /\ BusIsThere
    /\ call' = [call EXCEPT ![c] = record]
    /\ UNCHANGED <<kvars, mvars, cvars, bvars>>

\* CommandBus.execute() (QueryBus is the same).
Execute(c) ==
    Called(c, [NoCall EXCEPT !.pc = IF commander = Nobody THEN "no handler" ELSE "done",
                             !.early = Early, !.by = commander])

\* EventBus.publishAndWait(), or publish(), which drops its promise: every
\* handler is called at once and its dispatch is awaited.
Publish(c) ==
    Called(c, [NoCall EXCEPT !.pc = IF wired = {} THEN "done" ELSE "publishing",
                             !.early = Early, !.todo = wired])

\* Slip: the exception of a handler ends Promise.all.
AfterThrowing(todo_h) == {}

\* dispatch() logs the exception and nothing else.
AfterFailure(todo_h) == todo_h

HandlerSettles(c, h, throws) ==
    LET left == call[c].todo \ {h}
        rest == IF throws THEN AfterFailure(left) ELSE left
    IN
    /\ call[c].pc = "publishing" /\ h \in call[c].todo
    /\ call' = [call EXCEPT ![c].todo = rest, ![c].ran = @ \cup {h},
                            ![c].pc = IF rest = {} THEN "done" ELSE "publishing"]
    /\ UNCHANGED <<kvars, mvars, cvars, bvars>>

Next ==
    \/ CompileModules \/ CompileThrows \/ Instantiate \/ ResolveNext \/ Instantiated
    \/ InitHook \/ InitHookThrows \/ WireCqrs \/ MakeServer
    \/ \E c \in Callers :
          \/ Execute(c) \/ Publish(c)
          \/ \E h \in EventHandlers, throws \in BOOLEAN : HandlerSettles(c, h, throws)

Spec == Init /\ [][Next]_allvars

-----------------------------------------------------------------------------

\* When publishAndWait() resolves every handler of the event has run, also
\* those after one that threw, and a command reaches a handler: unless they
\* came before the wiring, from a constructor or an onModuleInit, or there is
\* no instance of such a class, as when a test replaced it by a value
\* (docs/cqrs.md, "Every handler registered for an event runs").
BusesReachHandlers ==
    \A c \in Callers :
        LET real(handlers) == { t \in handlers : providers[t].kind = "class" } IN
        /\ call[c].pc = "done" /\ call[c].by = Nobody /\ ~call[c].early
              => call[c].ran = real(EventHandlers)
        /\ call[c].pc = "no handler" => call[c].early \/ real(CommandHandlers) = {}
        /\ call[c].by # Nobody => call[c].by \in real(CommandHandlers)

\* The declared routes, one after the other, without the map: the first
\* declared path that matches decides, and of that path the last declaration
\* of the method.
Reference(url, method) ==
    LET all == DeclarationsOf(controllers)
        first == SelectInSeq(all, LAMBDA d : Matches(d.path, url))
        same == { i \in DOMAIN all : all[i].path = all[first].path
                                        /\ all[i].method = method }
    IN  IF first = 0 THEN "404"
        ELSE IF same = {} THEN "405" ELSE all[Max(same)].handler

\* Every declared route is found where its controller declared it: a path that
\* several controllers share keeps all their methods, and only the endpoints
\* of the server's own options take a path over.  Where none of those is in
\* the way, the in-memory application lets the first declared path that matches
\* decide, although another one may have the method (/users/:id and
\* /users/:name are two paths), while the server never falls back on files or
\* 404 when some declaration fits; and where just one path matches, the two
\* give the same answer (buildRoutes, TestApp.dispatch; docs/testing.md).
RoutesAreFound ==
    phase = "serving" => \A url \in Urls, method \in Methods :
        LET answer == Dispatch(routes, url, method)
            served == ServedBy(routes, options, Gateways, url, method)
            own == { i \in DOMAIN routes : routes[i].methods \in
                        { GetOnly(x) : x \in {"spec", "ui", "alive", "ready"} } }
            matching == { i \in DOMAIN routes : Matches(routes[i].path, url) }
            fitting == { d \in ToSet(DeclarationsOf(controllers)) :
                            Matches(d.path, url) /\ d.method = method }
        IN
        /\ matching \cap own = {} =>
              /\ answer = Reference(url, method)
              /\ fitting # {} => served \subseteq { d.handler : d \in fitting }
        /\ matching # {} /\ Cardinality(matching) = 1 /\ answer # "405"
              => served = {answer}
        /\ matching = {} => /\ answer = "404"
                            /\ served = {Fallback(options, Gateways, url, method)}
=============================================================================
