------------------------------- MODULE MCBoot -------------------------------
(***************************************************************************)
(* Boot for TLC: one small program, started from every root of two kinds.  *)
(* Module programs: the application, something that is no module, and test *)
(* roots that import up to two of its modules, in both orders, with every  *)
(* kind of override.  users and orders import each other, extra and cqrs   *)
(* are dynamic, spin has a provider that needs itself.  Route programs:    *)
(* two controllers whose three routes range over paths that coincide,      *)
(* overlap and collide with those of the server's own endpoints.           *)
(***************************************************************************)
EXTENDS Boot

MCDepsOf ==
    [ svc |-> <<"repo">>, repo |-> << >>, bus |-> << >>, h1 |-> <<"svc">>,
      h2 |-> <<"bus">>, cmd |-> <<"svc", "bus">>, ctl1 |-> <<"svc">>,
      ctl2 |-> << >>, gate |-> << >>, ring |-> <<"ring">> ]
MCTokens == DOMAIN MCDepsOf

Cqrs == Dynamic("cqrs", [NoMetadata EXCEPT !.providers = <<Class("bus")>>])
ExtraValue == Dynamic("extra", [NoMetadata EXCEPT !.providers = <<Value("repo")>>])
ExtraClass == Dynamic("extra", [NoMetadata EXCEPT !.providers = <<Class("cmd")>>])

MCStaticMetadata ==
    [ app    |-> [ imports     |-> <<Plain("users"), Plain("shared"), ExtraClass>>,
                   providers   |-> << >>, controllers |-> << >> ],
      users  |-> [ imports     |-> <<Plain("shared"), Plain("orders"), Cqrs>>,
                   providers   |-> <<Class("h1"), Class("svc")>>,
                   controllers |-> <<"ctl1">> ],
      orders |-> [ imports     |-> <<Plain("users"), ExtraValue>>,
                   providers   |-> <<Class("h2"), Class("cmd"), Value("svc")>>,
                   controllers |-> <<"ctl2">> ],
      shared |-> [ imports     |-> << >>,
                   providers   |-> <<Class("svc"), Class("repo")>>,
                   controllers |-> << >> ],
      extra  |-> [ imports     |-> << >>,
                   providers   |-> <<Class("gate")>>,
                   controllers |-> << >> ],
      spin   |-> [ imports     |-> << >>,
                   providers   |-> <<Class("ring")>>,
                   controllers |-> << >> ] ]
MCDecorated == DOMAIN MCStaticMetadata
MCModuleClasses == MCDecorated \cup {"cqrs", "plain", "test"}

Importable ==
    { Plain(m) : m \in {"app", "users", "orders", "shared", "spin", "plain"} }
        \cup {Cqrs, ExtraValue, ExtraClass}
Testing(imports, provided, mounted) ==
    [imports |-> imports, providers |-> provided, controllers |-> mounted]
Overrides ==
    { << >>, <<Value("svc")>>, <<Value("h1")>>, <<Value("cmd")>>,
      <<Value("ctl2"), Value("gate")>> }
TestRoots ==
    { TestRoot("test", Testing(i, p, c), o) :
        i \in { s \in SeqOf(Importable, 2) : IsInjective(s) },
        p \in { << >>, <<Class("cmd")>> }, c \in { << >>, <<"ctl2">> }, o \in Overrides }
RouteRoot ==
    TestRoot("test", Testing(<< >>, <<Class("gate")>>, <<"ctl1", "ctl2">>),
             <<Value("svc")>>)

MCRoots == {Plain("app"), Plain("plain"), RouteRoot} \cup TestRoots
MCEntries == Importable \cup MCRoots
MCControllers == {"ctl1", "ctl2"}

Route(method, path, name) == [method |-> method, path |-> path, handler |-> name]
MCParameters == {":id", ":name"}
Places == { Root, <<"health">>, <<":id">>, <<":name">>, <<Rest>> }
RoutesNamed(name) ==
    { Route(m, p, name) : m \in {"GET", "POST"}, p \in Places }
AllDeclared ==
    { [ ctl1 |-> [path |-> b1, routes |-> <<r1, r2>>],
        ctl2 |-> [path |-> b2, routes |-> <<r3>>] ] :
      b1 \in { Root, <<"users">> }, b2 \in { Root, <<"users">> },
      r1 \in RoutesNamed("a"), r2 \in RoutesNamed("b"), r3 \in RoutesNamed("c") }
OneDeclared == CHOOSE d \in AllDeclared : TRUE

NoOptions == [ openapi |-> FALSE, ui |-> FALSE, health |-> FALSE, cors |-> FALSE,
               static |-> << >> ]
SpecOnly == [NoOptions EXCEPT !.openapi = TRUE]
AllOptions == [ openapi |-> TRUE, ui |-> TRUE, health |-> TRUE, cors |-> TRUE,
                static |-> <<"public">> ]

MCPrograms ==
    { [root |-> r, declared |-> OneDeclared, options |-> AllOptions] :
        r \in MCRoots \ {RouteRoot} }
    \cup { [root |-> RouteRoot, declared |-> d, options |-> o] :
             d \in AllDeclared, o \in {NoOptions, SpecOnly, AllOptions} }

MCEventHandlers == {"h1", "h2"}
MCCommandHandlers == {"cmd"}
MCGatewayPath == [gate |-> <<"live">>]
MCUrls ==
    { Root, <<"users">>, <<"users", "">>, <<"health">>, <<"users", "health">>,
      <<"docs">>, <<"live">>, <<"public", "logo">> }
MCMethods == {"GET", "POST", "OPTIONS"}
=============================================================================
