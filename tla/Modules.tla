------------------------------- MODULE Modules -------------------------------
(***************************************************************************)
(* compileModules (core/module.ts): a depth-first visit of the imports     *)
(* from the root that registers every module's providers and controllers   *)
(* in the container (module Container, whose variables are used here).     *)
(*                                                                         *)
(* visits is the stack of the recursive visit().  An import is an entry: a *)
(* class, with the metadata of its @Module decorator, or a dynamic module, *)
(* which adds metadata of its own.  `from` records who registered a token  *)
(* last: a provider's class and dependencies are those of its token, and   *)
(* only an override replaces it by a value.                                *)
(***************************************************************************)
EXTENDS Container

CONSTANTS
    ModuleClasses,
    Decorated,       \* the classes that have an @Module decorator
    StaticMetadata,  \* what it says
    DepsOf,          \* per token what its class has injected
    Controllers,     \* the tokens that modules name as controllers
    Entries,         \* whatever is imported, and the roots
    Roots            \* the entries that an application or a test starts from

VARIABLES
    visits,       \* the calls of visit() in progress
    modules,      \* the classes seen, in the order of their visit
    controllers,  \* the controllers, in the order of their registration
    from,         \* history: the module that registered the token last
    root          \* the entry compileModules() was called with

mvars == <<visits, modules, controllers, from, root>>

NoMetadata == [imports |-> << >>, providers |-> << >>, controllers |-> << >>]
Nobody == "nobody"

\* What a provider in a metadata's list registers under its token.
Class(t) == [token |-> t, provider |-> [kind |-> "class", deps |-> DepsOf[t]]]
Value(t) == [token |-> t, provider |-> [kind |-> "value", deps |-> << >>]]

Plain(m) == [module |-> m, dynamic |-> FALSE, meta |-> NoMetadata]
Dynamic(m, meta) == [module |-> m, dynamic |-> TRUE, meta |-> meta]

Registration == { Class(t) : t \in Tokens } \cup { Value(t) : t \in Tokens }
IsMetadata(meta) ==
    /\ meta.imports \in Seq(Entries)
    /\ meta.providers \in Seq(Registration)
    /\ meta.controllers \in Seq(Controllers)

ASSUME ModulesAssumption ==
    /\ Nobody \notin ModuleClasses
    /\ Controllers \subseteq Tokens /\ Roots \subseteq Entries
    /\ DepsOf \in [Tokens -> SeqOf(Tokens, MaxDeps)]
    /\ \A e \in Entries : e.module \in ModuleClasses /\ IsMetadata(e.meta)
    /\ \A m \in Decorated : IsMetadata(StaticMetadata[m])

MetadataOf(m) == IF m \in Decorated THEN StaticMetadata[m] ELSE NoMetadata

ModulesTypeOK ==
    /\ \A i \in DOMAIN visits : visits[i].module \in ToSet(modules)
    /\ ToSet(modules) \subseteq ModuleClasses
    /\ ToSet(controllers) \subseteq Controllers
    /\ from \in [Tokens -> ModuleClasses \cup {Nobody}]
    /\ \A t \in Tokens : from[t] = Nobody <=> providers[t] = Missing
    /\ root \in Roots

ModulesInit ==
    /\ visits = << >>
    /\ modules = << >>
    /\ controllers = << >>
    /\ from = [t \in Tokens |-> Nobody]
    /\ root \in Roots

-----------------------------------------------------------------------------

\* The decorator's metadata come before those of the dynamic module.
Merged(e, field) == MetadataOf(e.module)[field] \o e.meta[field]

IsModule(e) == e.module \in Decorated \/ e.dynamic
Seen(e) == e.module \in ToSet(modules)

Enters(e, stack) ==
    /\ visits' = Append(stack,
           [ module      |-> e.module,
             imports     |-> Merged(e, "imports"),
             providers   |-> Merged(e, "providers"),
             controllers |-> Merged(e, "controllers") ])
    /\ modules' = Append(modules, e.module)

VisitRoot ==
    /\ modules = << >> /\ IsModule(root)
    /\ Enters(root, << >>)
    /\ UNCHANGED <<controllers, from, root>> /\ UNCHANGED kvars

Importing == visits # << >> /\ Last(visits).imports # << >>
NextImport == Head(Last(visits).imports)
WithoutImport == [visits EXCEPT ![Len(visits)].imports = Tail(@)]

\* An import of a class seen before is skipped, whatever it brings.
SkipImport ==
    /\ Importing /\ Seen(NextImport)
    /\ visits' = WithoutImport
    /\ UNCHANGED <<modules, controllers, from, root>> /\ UNCHANGED kvars

VisitImport ==
    /\ Importing /\ ~Seen(NextImport) /\ IsModule(NextImport)
    /\ Enters(NextImport, WithoutImport)
    /\ UNCHANGED <<controllers, from, root>> /\ UNCHANGED kvars

\* Neither decorated nor dynamic: ModuleInitializationError.
NotAModule ==
    \/ modules = << >> /\ ~IsModule(root)
    \/ Importing /\ ~Seen(NextImport) /\ ~IsModule(NextImport)

\* Slip: a token that is registered already is left as it is.
LatestFirst(registrations, t) ==
    LET is == { i \in DOMAIN registrations : registrations[i].token = t }
    IN  IF providers[t] # Missing THEN providers[t]
        ELSE registrations[Min(is)].provider

\* register() of the same token again replaces the provider.
Latest(registrations, t) ==
    LET is == { i \in DOMAIN registrations : registrations[i].token = t }
    IN  registrations[Max(is)].provider

\* Map.set keeps the place of a token that is there already.
KeysAfter(registrations) ==
    LET upTo[n \in 0..Len(registrations)] ==
            IF n = 0 THEN order
            ELSE LET keys == upTo[n - 1]
                     token == registrations[n].token
                 IN  IF Contains(keys, token) THEN keys ELSE Append(keys, token)
    IN  upTo[Len(registrations)]

\* All imports are visited: the module's providers and then its controllers
\* are registered.
RegisterModule ==
    LET m == Last(visits)
        all == m.providers \o [i \in DOMAIN m.controllers |-> Class(m.controllers[i])]
        tokens == { all[i].token : i \in DOMAIN all }
    IN
    /\ visits # << >> /\ m.imports = << >>
    /\ providers' = [t \in Tokens |-> IF t \in tokens THEN Latest(all, t)
                                      ELSE providers[t]]
    /\ order' = KeysAfter(all)
    /\ controllers' = controllers \o m.controllers
    /\ from' = [t \in Tokens |-> IF t \in tokens THEN m.module ELSE from[t]]
    /\ visits' = Front(visits)
    /\ UNCHANGED <<modules, root, instances, frames, resolving, todo, outcome, asked, built>>

Compile == VisitRoot \/ SkipImport \/ VisitImport \/ RegisterModule
Compiled == modules # << >> /\ visits = << >>

\* Nothing is resolved yet; what is compiled does not change any more.
JustCompiled == Compiled /\ todo = << >> /\ instances = << >>

-----------------------------------------------------------------------------

\* The modules that R leads to from m, by one step or more.
Reach(R, m) ==
    { k \in ModuleClasses : \A S \in SUBSET ModuleClasses :
         R[m] \subseteq S /\ (\A i \in S : R[i] \subseteq S) => k \in S }

ModulesOf(list) == { list[i].module : i \in DOMAIN list }
TokensOf(list) == { list[i].token : i \in DOMAIN list }

\* The reference: what a module's decorator, or the root, names.
Imports ==
    [m \in ModuleClasses |-> ModulesOf(MetadataOf(m).imports)
        \cup IF m = root.module THEN ModulesOf(root.meta.imports) ELSE {}]
ProvidedBy(m) ==
    TokensOf(MetadataOf(m).providers) \cup ToSet(MetadataOf(m).controllers)
        \cup IF m = root.module
             THEN TokensOf(root.meta.providers) \cup ToSet(root.meta.controllers) ELSE {}

\* What a module may import, with the dynamic modules of its class.
MayImport ==
    [m \in ModuleClasses |-> ModulesOf(MetadataOf(m).imports)
        \cup UNION { ModulesOf(e.meta.imports) : e \in { f \in Entries : f.module = m } }]
MayReach == [m \in ModuleClasses |-> Reach(MayImport, m)]

\* Every module that the root imports, directly or not, is compiled exactly
\* once, however the imports meet or go round, and everything it declares is
\* in the container; what only a second, dropped dynamic import of a class
\* brings is not (compileModules, `seen`).
ModulesCompiledOnce ==
    /\ IsInjective(modules)
    /\ JustCompiled =>
          \A m \in {root.module} \cup Reach(Imports, root.module) :
              /\ m \in ToSet(modules)
              /\ \A t \in ProvidedBy(m) : providers[t] # Missing
              /\ ToSet(MetadataOf(m).controllers) \subseteq ToSet(controllers)

\* A module's provider is never overruled by one of a module it imports,
\* directly or, if it is on no cycle of imports, indirectly, unless that one
\* may import it too; and of the root's own providers of a token, among which a
\* test's overrides come last, the last one overrules everything but the root's
\* controllers (docs/testing.md, "Overriding providers").
ImporterWins ==
    JustCompiled =>
        /\ \A m \in ToSet(modules) :
              LET below == IF m \in MayReach[m] THEN Imports[m] ELSE Reach(Imports, m)
              IN  \A t \in ProvidedBy(m) :
                     from[t] \in below \ {m} => m \in MayReach[from[t]]
        /\ \A t \in TokensOf(root.meta.providers) \ ToSet(Merged(root, "controllers")) :
              LET is == { i \in DOMAIN root.meta.providers :
                              root.meta.providers[i].token = t }
              IN  providers[t] = root.meta.providers[Max(is)].provider

\* What compileModules makes of the modules: nothing lost, nothing twice, and
\* the right one of several providers of a token.
ModulesCompose == ModulesCompiledOnce /\ ImporterWins
=============================================================================
