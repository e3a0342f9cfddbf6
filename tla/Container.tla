------------------------------ MODULE Container ------------------------------
(***************************************************************************)
(* The dependency injection container (core/container.ts): providers are   *)
(* registered, by compileModules or by a test, and then tokens are         *)
(* resolved, one by one or all of them (instantiateAll).                   *)
(*                                                                         *)
(* resolve() is synchronous and recursive: frames is its call stack, and   *)
(* `resolving` the container's own stack of tokens, which the code pops in *)
(* a finally block.  Nothing happens between two steps of one resolution;  *)
(* what is hard is what a resolution that threw leaves for the next one.   *)
(*                                                                         *)
(* A provider is abstracted to the tokens it has injected: the parameters  *)
(* of a class or the inject list of a factory, and none for a value.  A    *)
(* dependency that has no token (undefined, Object) is one not registered. *)
(***************************************************************************)
EXTENDS Naturals, SequencesExt

CONSTANTS
    Tokens,
    MaxDeps     \* bound: how many dependencies a provider has

ASSUME ContainerAssumption == MaxDeps \in Nat

VARIABLES
    providers,  \* Map: per token its provider, or Missing
    order,      \* the keys of that Map, in the order they were first set
    instances,  \* the keys of the Map of instances, in order of insertion
    frames,     \* the calls of resolve() in progress that construct something
    resolving,  \* the array of the tokens being resolved
    todo,       \* the tokens that the caller still has to resolve
    outcome,    \* of the last call from outside: "ok" or what was thrown
    asked,      \* history: the token the last outcome is about, if there is one
    built       \* history: how often each token's instance was constructed

kvars == <<providers, order, instances, frames, resolving, todo, outcome, asked, built>>

Missing == [kind |-> "missing", deps |-> << >>]
Provider ==
    { [kind |-> "value", deps |-> << >>] } \cup
    { [kind |-> "class", deps |-> d] : d \in SeqOf(Tokens, MaxDeps) }

Dependencies(t) == ToSet(providers[t].deps)
Has(t) == t \in ToSet(instances)

ContainerTypeOK ==
    /\ DOMAIN providers = Tokens
    /\ \A t \in Tokens :
          /\ providers[t].kind \in {"missing", "value", "class"}
          /\ Dependencies(t) \subseteq Tokens /\ Len(providers[t].deps) <= MaxDeps
          /\ providers[t].kind # "class" => providers[t].deps = << >>
    /\ IsInjective(order) /\ ToSet(order) = { t \in Tokens : providers[t] # Missing }
    /\ ToSet(instances) \subseteq Tokens
    /\ \A i \in DOMAIN frames :
          frames[i].token \in Tokens /\ frames[i].next \in 1..(MaxDeps + 1)
    /\ IsInjective(resolving) /\ ToSet(resolving) \subseteq Tokens
    /\ ToSet(todo) \subseteq Tokens
    /\ outcome \in {"none", "ok", "not registered", "circular", "thrown"}
    /\ built \in [Tokens -> Nat]

ContainerInit ==
    /\ providers = [t \in Tokens |-> Missing]
    /\ order = << >>
    /\ instances = << >>
    /\ frames = << >>
    /\ resolving = << >>
    /\ todo = << >>
    /\ outcome = "none"
    /\ asked \in Tokens
    /\ built = [t \in Tokens |-> 0]

-----------------------------------------------------------------------------

\* register(): Map.set keeps the place of a token that is already there.
\* Everything is registered before anything is resolved.
Register(t, p) ==
    /\ outcome = "none" /\ todo = << >>
    /\ providers' = [providers EXCEPT ![t] = p]
    /\ order' = IF providers[t] = Missing THEN Append(order, t) ELSE order
    /\ UNCHANGED <<instances, frames, resolving, todo, outcome, asked, built>>

Ask(tokens) ==
    /\ todo = << >>
    /\ todo' = tokens
    /\ outcome' = "none"
    /\ UNCHANGED <<providers, order, instances, frames, resolving, asked, built>>

\* resolve() called from outside.
Resolve(t) == Ask(<<t>>)

\* instantiateAll(), over the keys in their order.
InstantiateAll == order # << >> /\ Ask(order)

-----------------------------------------------------------------------------

\* The call of resolve() that comes next: the next dependency of the provider
\* being instantiated, or the next token the caller asks for.
Calls(t) ==
    /\ todo # << >>
    /\ IF frames = << >> THEN t = Head(todo)
       ELSE LET f == Last(frames) IN
            /\ f.next <= Len(providers[f.token].deps)
            /\ t = providers[f.token].deps[f.next]

\* resolve() returns to the calls in stack: to the instantiation at its top,
\* or to the caller, who goes on with its next token.
Returns(stack) ==
    IF stack # << >>
    THEN /\ frames' = [stack EXCEPT ![Len(stack)].next = @ + 1]
         /\ UNCHANGED <<todo, outcome, asked>>
    ELSE /\ frames' = << >>
         /\ todo' = Tail(todo)
         /\ outcome' = IF Len(todo) = 1 THEN "ok" ELSE "none"
         /\ asked' = Head(todo)

\* Slip: the token is not popped when the instantiation throws.
UnwoundNot == resolving

\* Every finally block of the calls in progress pops one token.
Unwound == SubSeq(resolving, 1, Len(resolving) - Len(frames))

Throws(error) ==
    /\ frames' = << >>
    /\ resolving' = Unwound
    /\ todo' = << >>
    /\ outcome' = error
    /\ asked' = Head(todo)
    /\ UNCHANGED <<providers, order, instances, built>>

Cached(t) == Has(t)

ReturnCached(t) ==
    /\ Calls(t)
    /\ Cached(t)
    /\ Returns(frames)
    /\ UNCHANGED <<providers, order, instances, resolving, built>>

NotRegistered(t) ==
    /\ Calls(t)
    /\ ~Cached(t)
    /\ providers[t] = Missing
    /\ Throws("not registered")

\* Slip: the stack of tokens is not looked at.
IsResolvingNever(t) == FALSE

IsResolving(t) == t \in ToSet(resolving)

Circular(t) ==
    /\ Calls(t)
    /\ ~Cached(t)
    /\ providers[t] # Missing
    /\ IsResolving(t)
    /\ Throws("circular")

\* Slip: the instance is put into the map before its dependencies exist.
StoredOnEntry(t) == instances' = Append(instances, t)

EnteredOnly(t) == UNCHANGED instances

Enter(t) ==
    /\ Calls(t)
    /\ ~Cached(t)
    /\ providers[t] # Missing
    /\ ~IsResolving(t)
    /\ resolving' = Append(resolving, t)
    /\ frames' = Append(frames, [token |-> t, next |-> 1])
    /\ EnteredOnly(t)
    /\ UNCHANGED <<providers, order, todo, outcome, asked, built>>

\* All dependencies are resolved: the constructor or factory is called.
Complete ==
    /\ frames # << >>
    /\ Last(frames).next > Len(providers[Last(frames).token].deps)

Construct ==
    LET t == Last(frames).token IN
    /\ Complete
    /\ instances' = Append(instances, t)
    /\ built' = [built EXCEPT ![t] = @ + 1]
    /\ resolving' = Front(resolving)
    /\ Returns(Front(frames))
    /\ UNCHANGED <<providers, order>>

\* The constructor or factory throws; a value has none.
ConstructFails ==
    /\ Complete
    /\ providers[Last(frames).token].kind = "class"
    /\ Throws("thrown")

ContainerNext ==
    \/ \E t \in Tokens : \E p \in Provider : Register(t, p)
    \/ \E t \in Tokens :
          \/ Resolve(t)
          \/ ReturnCached(t) \/ NotRegistered(t) \/ Circular(t) \/ Enter(t)
    \/ InstantiateAll \/ Construct \/ ConstructFails

ContainerSpec == ContainerInit /\ [][ContainerNext]_kvars

-----------------------------------------------------------------------------

\* The reference: the tokens that t needs, itself included, and cycles.
Closed(S) == \A u \in S : Dependencies(u) \subseteq S
Needs(t) ==
    { u \in Tokens : \A S \in SUBSET Tokens : t \in S /\ Closed(S) => u \in S }
OnCycle(t) == \E d \in Dependencies(t) : t \in Needs(d)

\* A resolution ends as the graph of providers says, whatever was resolved,
\* or thrown, before: a cycle is reported only if the token needs one, a
\* missing provider only if it needs one, and success means that everything
\* it needs is there (resolve, its cache and its finally block).
OutcomeIsReal ==
    /\ outcome = "circular" => \E t \in Needs(asked) : OnCycle(t)
    /\ outcome = "not registered" => \E t \in Needs(asked) : providers[t] = Missing
    /\ outcome = "ok" => \A t \in Needs(asked) : Has(t) /\ ~OnCycle(t)

\* docs/dependency-injection.md: "Providers are constructed once and cached",
\* also when a resolution in between has failed half way; and an instance
\* comes after everything it depends on, so that the hooks, which run in this
\* order and in its reverse, initialise and destroy every provider while its
\* dependencies are alive (getInstances, runLifecycle).
DependenciesFirst ==
    /\ \A t \in Tokens : built[t] <= 1
    /\ \A i \in DOMAIN instances : \A d \in Dependencies(instances[i]) :
          \E j \in 1..(i - 1) : instances[j] = d
=============================================================================
