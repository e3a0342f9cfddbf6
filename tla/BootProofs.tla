------------------------------ MODULE BootProofs ------------------------------
(***************************************************************************)
(* Theorems about Container, Modules, Routing and Boot, one part for each, *)
(* for any tokens, providers, modules, programs, paths and callers.        *)
(*                                                                         *)
(* First Container.  The inductive invariant reads the stack of a          *)
(* resolution: each of its calls waits for the next one, the dependencies  *)
(* before that one exist, and a token on the stack has no instance yet.    *)
(* So a token that is met again on the stack needs itself, and an instance *)
(* comes after all it depends on.                                          *)
(***************************************************************************)
EXTENDS Boot, Integers, FiniteSetTheorems, WellFoundedInduction, TLAPS

\* A call of resolve() that constructs something.
Frame == [token : Tokens, next : Nat \ {0}]

ContainerTypes ==
    /\ providers \in [Tokens -> Provider \cup {Missing}]
    /\ order \in Seq(Tokens) /\ instances \in Seq(Tokens)
    /\ frames \in Seq(Frame) /\ resolving \in Seq(Tokens) /\ todo \in Seq(Tokens)
    /\ outcome \in {"none", "ok", "not registered", "circular", "thrown"}
    /\ asked \in Tokens
    /\ built \in [Tokens -> Nat]

\* Every token that was registered has one place in the order.
OrderInv ==
    /\ IsInjective(order)
    /\ \A t \in Tokens : t \in ToSet(order) <=> providers[t] # Missing

\* What the call f waits for, if it does not construct its instance next.
Waits(f, t) ==
    /\ f.next <= Len(providers[f.token].deps)
    /\ providers[f.token].deps[f.next] = t

\* A call with the instances ins: its provider exists and has no instance, but
\* those of its dependencies that come before the next one have.
FrameOK(f, ins) ==
    /\ providers[f.token] # Missing /\ f.token \notin ToSet(ins)
    /\ f.next <= Len(providers[f.token].deps) + 1
    /\ \A k \in 1..f.next - 1 : providers[f.token].deps[k] \in ToSet(ins)

\* Each call waits for the one above it, so its token needs all above it.
StackOK(fs, rs, ins) ==
    /\ Len(rs) = Len(fs) /\ IsInjective(rs)
    /\ \A i \in 1..Len(fs) : rs[i] = fs[i].token /\ FrameOK(fs[i], ins)
    /\ \A i \in 1..Len(fs) - 1 : Waits(fs[i], fs[i + 1].token)
    /\ \A i \in 1..Len(fs) : \A j \in i..Len(fs) : fs[j].token \in Needs(fs[i].token)

\* The first call is the caller's.
StackInv ==
    /\ StackOK(frames, resolving, instances)
    /\ frames # << >> => todo # << >> /\ frames[1].token = Head(todo)

\* Dependencies come first in seq.
Ordered(seq) ==
    /\ IsInjective(seq)
    /\ \A i \in 1..Len(seq) : \A d \in Dependencies(seq[i]) :
          \E j \in 1..(i - 1) : seq[j] = d

\* A constructor is called once, when the instance is stored.
InstanceInv ==
    /\ Ordered(instances)
    /\ \A t \in Tokens : built[t] = IF Has(t) THEN 1 ELSE 0

\* Nothing is resolved before the first call, and nothing between two calls.
PhaseInv ==
    /\ todo = << >> => frames = << >>
    /\ todo = << >> /\ outcome = "none" => instances = << >>
    /\ todo # << >> => outcome = "none"

ContainerIInv ==
    /\ ContainerTypes /\ OrderInv /\ StackInv
    /\ InstanceInv /\ PhaseInv /\ OutcomeIsReal

USE ContainerAssumption

-----------------------------------------------------------------------------
(* Lemmas about sequences of calls and tokens. *)

\* A call is pushed, or the top one popped.
LEMMA FrameSeqs ==
    ASSUME NEW s \in Seq(Frame)
    PROVE  /\ Len(s) \in Nat /\ DOMAIN s = 1..Len(s) /\ \A i \in 1..Len(s) : s[i] \in Frame
           /\ s = << >> <=> Len(s) = 0
           /\ \A f \in Frame : /\ Append(s, f) \in Seq(Frame) /\ Len(Append(s, f)) = Len(s) + 1
                              /\ Append(s, f)[Len(s) + 1] = f
                              /\ \A i \in 1..Len(s) : Append(s, f)[i] = s[i]
           /\ s # << >> => /\ Front(s) \in Seq(Frame) /\ Len(Front(s)) = Len(s) - 1
                           /\ \A i \in 1..Len(s) - 1 : Front(s)[i] = s[i]
<1>1. /\ Len(s) \in Nat /\ DOMAIN s = 1..Len(s) /\ \A i \in 1..Len(s) : s[i] \in Frame
      /\ s = << >> <=> Len(s) = 0
  OBVIOUS
<1>2. ASSUME NEW x \in Frame
      PROVE  /\ Append(s, x) \in Seq(Frame) /\ Len(Append(s, x)) = Len(s) + 1
             /\ Append(s, x)[Len(s) + 1] = x
             /\ \A i \in 1..Len(s) : Append(s, x)[i] = s[i]
  OBVIOUS
<1>3. ASSUME s # << >>
      PROVE  /\ Front(s) \in Seq(Frame) /\ Len(Front(s)) = Len(s) - 1
             /\ \A i \in 1..Len(s) - 1 : Front(s)[i] = s[i]
  <2>1. Len(s) - 1 \in 0..Len(s)
    BY <1>1, <1>3
  <2> QED BY <1>1, <2>1 DEF Front
<1> QED BY <1>1, <1>2, <1>3

\* So are tokens.
LEMMA TokenSeqs ==
    ASSUME NEW s \in Seq(Tokens)
    PROVE  /\ Len(s) \in Nat /\ DOMAIN s = 1..Len(s) /\ \A i \in 1..Len(s) : s[i] \in Tokens
           /\ s = << >> <=> Len(s) = 0
           /\ \A t \in Tokens : /\ Append(s, t) \in Seq(Tokens) /\ Len(Append(s, t)) = Len(s) + 1
                                /\ Append(s, t)[Len(s) + 1] = t
                                /\ \A i \in 1..Len(s) : Append(s, t)[i] = s[i]
           /\ s # << >> => /\ Front(s) \in Seq(Tokens) /\ Len(Front(s)) = Len(s) - 1
                           /\ \A i \in 1..Len(s) - 1 : Front(s)[i] = s[i]
                           /\ Head(s) = s[1] /\ Head(s) \in Tokens /\ Tail(s) \in Seq(Tokens)
                           /\ Tail(s) = << >> <=> Len(s) = 1
<1>1. /\ Len(s) \in Nat /\ DOMAIN s = 1..Len(s) /\ \A i \in 1..Len(s) : s[i] \in Tokens
      /\ s = << >> <=> Len(s) = 0
  OBVIOUS
<1>2. ASSUME NEW x \in Tokens
      PROVE  /\ Append(s, x) \in Seq(Tokens) /\ Len(Append(s, x)) = Len(s) + 1
             /\ Append(s, x)[Len(s) + 1] = x
             /\ \A i \in 1..Len(s) : Append(s, x)[i] = s[i]
  OBVIOUS
<1>3. ASSUME s # << >>
      PROVE  /\ Front(s) \in Seq(Tokens) /\ Len(Front(s)) = Len(s) - 1
             /\ \A i \in 1..Len(s) - 1 : Front(s)[i] = s[i]
  <2>1. Len(s) - 1 \in 0..Len(s)
    BY <1>1, <1>3
  <2> QED BY <1>1, <2>1 DEF Front
<1>4. ASSUME s # << >>
      PROVE  /\ Head(s) = s[1] /\ Head(s) \in Tokens /\ Tail(s) \in Seq(Tokens)
             /\ Len(Tail(s)) = Len(s) - 1
  BY <1>1, <1>4
<1>5. ASSUME s # << >> PROVE Tail(s) = << >> <=> Len(s) = 1
  <2>1. PICK u : u = Tail(s)
    OBVIOUS
  <2>2. u \in Seq(Tokens) /\ Len(u) = Len(s) - 1
    BY <1>4, <1>5, <2>1
  <2>3. u = << >> <=> Len(u) = 0
    BY <2>2
  <2> QED BY <1>1, <2>1, <2>2, <2>3
<1> QED BY <1>1, <1>2, <1>3, <1>4, <1>5

\* A token that is appended is one more element, and the only new one.
LEMMA AppendSet ==
    ASSUME NEW s \in Seq(Tokens), NEW t \in Tokens
    PROVE  /\ ToSet(Append(s, t)) = ToSet(s) \cup {t}
           /\ ToSet(s) \subseteq Tokens
           /\ IsInjective(s) /\ t \notin ToSet(s) => IsInjective(Append(s, t))
<1>1. PICK n, a : n = Len(s) /\ a = Append(s, t)
  OBVIOUS
<1>2. /\ n \in Nat /\ DOMAIN s = 1..n /\ DOMAIN a = 1..n + 1 /\ a[n + 1] = t
      /\ \A i \in 1..n : a[i] = s[i] /\ s[i] \in Tokens
  BY <1>1, TokenSeqs
<1>3. ToSet(a) = ToSet(s) \cup {t}
  <2>1. \A i \in 1..n + 1 : i \in 1..n \/ i = n + 1
    BY <1>2
  <2>2. \A i \in 1..n : i \in 1..n + 1
    BY <1>2
  <2>3. n + 1 \in 1..n + 1
    BY <1>2
  <2> QED BY <1>2, <2>1, <2>2, <2>3 DEF ToSet
<1>4. ASSUME IsInjective(s), t \notin ToSet(s) PROVE IsInjective(a)
  <2>1. \A i \in 1..n : s[i] # t
    BY <1>2, <1>4 DEF ToSet
  <2>2. \A i, j \in 1..n : s[i] = s[j] => i = j
    BY <1>2, <1>4 DEF IsInjective
  <2> QED BY <1>2, <2>1, <2>2 DEF IsInjective
<1> QED BY <1>1, <1>2, <1>3, <1>4 DEF ToSet

-----------------------------------------------------------------------------
(* Lemmas about providers and what they need. *)

\* A provider's dependencies are tokens, and only a class or a factory has any.
LEMMA ProviderFacts ==
    ASSUME ContainerTypes, NEW t \in Tokens
    PROVE  /\ providers[t].deps \in Seq(Tokens) /\ Len(providers[t].deps) <= MaxDeps
           /\ providers[t].kind \in {"missing", "value", "class"}
           /\ providers[t].kind # "class" => providers[t].deps = << >>
           /\ Dependencies(t) \subseteq Tokens
           /\ \A k \in 1..Len(providers[t].deps) : providers[t].deps[k] \in Dependencies(t)
<1>1. \A d \in SeqOf(Tokens, MaxDeps) : d \in Seq(Tokens) /\ Len(d) <= MaxDeps
  BY DEF SeqOf
<1>2. << >> \in Seq(Tokens) /\ Len(<< >>) = 0
  OBVIOUS
<1>3. PICK p : p = providers[t]
  OBVIOUS
<1>4. p \in Provider \cup {Missing}
  BY <1>3 DEF ContainerTypes
<1>5. /\ p.deps \in Seq(Tokens) /\ Len(p.deps) <= MaxDeps
      /\ p.kind \in {"missing", "value", "class"}
      /\ p.kind # "class" => p.deps = << >>
  <2>1. CASE p.deps = << >> /\ p.kind \in {"missing", "value"}
    BY <1>2, <2>1
  <2>2. CASE p.kind = "class" /\ p.deps \in SeqOf(Tokens, MaxDeps)
    BY <1>1, <2>2
  <2>3. \/ p.deps = << >> /\ p.kind \in {"missing", "value"}
        \/ p.kind = "class" /\ p.deps \in SeqOf(Tokens, MaxDeps)
    BY <1>4 DEF Provider, Missing
  <2> QED BY <2>1, <2>2, <2>3
<1> QED BY <1>3, <1>5 DEF Dependencies, ToSet

\* What a token needs is closed, and the least such set.
LEMMA NeedsFacts ==
    ASSUME ContainerTypes, NEW t \in Tokens
    PROVE  /\ t \in Needs(t) /\ Needs(t) \subseteq Tokens
           /\ \A u \in Needs(t) : Dependencies(u) \subseteq Needs(t)
           /\ \A S \in SUBSET Tokens : t \in S /\ Closed(S) => Needs(t) \subseteq S
<1>1. t \in Needs(t) /\ Needs(t) \subseteq Tokens
  BY DEF Needs
<1>2. ASSUME NEW u \in Needs(t), NEW d \in Dependencies(u) PROVE d \in Needs(t)
  <2>1. u \in Tokens /\ d \in Tokens
    BY <1>1, <1>2, ProviderFacts
  <2>2. ASSUME NEW S \in SUBSET Tokens, t \in S, Closed(S) PROVE d \in S
    BY <1>2, <2>2 DEF Needs, Closed
  <2> QED BY <2>1, <2>2 DEF Needs
<1>3. ASSUME NEW S \in SUBSET Tokens, t \in S, Closed(S) PROVE Needs(t) \subseteq S
  BY <1>3 DEF Needs
<1> QED BY <1>1, <1>2, <1>3

\* Where dependencies come first there is all that is needed, and no cycle.
LEMMA OrderedFacts ==
    ASSUME ContainerTypes, NEW seq \in Seq(Tokens), Ordered(seq), NEW a \in ToSet(seq)
    PROVE  \A t \in Needs(a) : t \in ToSet(seq) /\ ~OnCycle(t)
<1>1. PICK n : n = Len(seq)
  OBVIOUS
<1>2. /\ n \in Nat /\ DOMAIN seq = 1..n /\ ToSet(seq) = { seq[i] : i \in 1..n }
      /\ \A i \in 1..n : seq[i] \in Tokens
  BY <1>1, TokenSeqs DEF ToSet
<1> DEFINE First(m) == { seq[i] : i \in 1..m }
<1>3. ASSUME NEW m \in 0..n PROVE First(m) \in SUBSET Tokens /\ Closed(First(m))
  <2>1. First(m) \in SUBSET Tokens
    BY <1>2, <1>3
  <2>2. ASSUME NEW i \in 1..m, NEW d \in Dependencies(seq[i]) PROVE d \in First(m)
    <3>1. i \in 1..n
      BY <1>2, <1>3
    <3>2. PICK j \in 1..i - 1 : seq[j] = d
      BY <1>1, <3>1, <2>2 DEF Ordered
    <3>3. j \in 1..m
      BY <1>2, <1>3, <3>2
    <3> QED BY <3>2, <3>3
  <2> QED BY <2>1, <2>2 DEF Closed
<1>4. Needs(a) \subseteq ToSet(seq)
  <2>1. First(n) = ToSet(seq) /\ a \in Tokens /\ n \in 0..n
    BY <1>2
  <2> QED BY <1>3, <2>1, NeedsFacts
<1>5. ASSUME NEW i \in 1..n PROVE ~OnCycle(seq[i])
  <2> SUFFICES ASSUME NEW d \in Dependencies(seq[i]), seq[i] \in Needs(d) PROVE FALSE
    BY DEF OnCycle
  <2>1. PICK j \in 1..i - 1 : seq[j] = d
    BY <1>1 DEF Ordered
  <2>2. j \in 0..n /\ j \in 1..n /\ d \in Tokens
    BY <1>2, <2>1
  <2>3. d \in First(j)
    BY <2>1, <2>2
  <2>4. seq[i] \in First(j)
    BY <1>3, <2>2, <2>3, NeedsFacts
  <2>5. PICK k \in 1..j : seq[k] = seq[i]
    BY <2>4
  <2>6. k \in 1..n /\ k # i
    BY <1>2, <2>1, <2>2
  <2> QED BY <1>2, <2>5, <2>6 DEF Ordered, IsInjective
<1> QED BY <1>2, <1>4, <1>5

-----------------------------------------------------------------------------
(* Lemmas about the stack. *)

\* The top call goes on with the dependency after the one that now exists.
LEMMA AdvanceOK ==
    ASSUME ContainerTypes, NEW fs \in Seq(Frame), NEW rs, NEW ins, NEW t,
           StackOK(fs, rs, ins), fs # << >>, Waits(Last(fs), t), t \in ToSet(ins),
           NEW gs, gs = [fs EXCEPT ![Len(fs)].next = @ + 1]
    PROVE  gs \in Seq(Frame) /\ StackOK(gs, rs, ins) /\ gs # << >> /\ gs[1].token = fs[1].token
<1>1. PICK n, f : n = Len(fs) /\ f = fs[n]
  OBVIOUS
<1>2. /\ n \in Nat /\ n > 0 /\ DOMAIN fs = 1..n /\ \A i \in 1..n : fs[i] \in Frame
      /\ f \in Frame /\ n \in 1..n
  BY <1>1, FrameSeqs
<1>3. PICK g : g = [f EXCEPT !.next = @ + 1]
  OBVIOUS
<1>4. g \in Frame /\ g.token = f.token /\ g.next = f.next + 1 /\ f.next \in Nat \ {0}
      /\ f.token \in Tokens
  BY <1>2, <1>3 DEF Frame
<1>5. gs = [fs EXCEPT ![n] = g]
  BY <1>1, <1>2, <1>3
<1>6. /\ gs \in Seq(Frame) /\ Len(gs) = n /\ gs[n] = g
      /\ \A i \in 1..n : i # n => gs[i] = fs[i]
  BY <1>1, <1>2, <1>4, <1>5
<1>7. \A i \in 1..n : gs[i].token = fs[i].token
  BY <1>1, <1>4, <1>6
<1>8. FrameOK(g, ins)
  <2>1. FrameOK(f, ins) /\ Waits(f, t)
    BY <1>1, <1>2 DEF StackOK, Last
  <2>2. Len(providers[f.token].deps) \in Nat
    BY <1>4, ProviderFacts
  <2>3. g.next <= Len(providers[g.token].deps) + 1
    BY <1>4, <2>1, <2>2 DEF Waits
  <2>4. \A k \in 1..g.next - 1 : k \in 1..f.next - 1 \/ k = f.next
    BY <1>4
  <2>5. \A k \in 1..g.next - 1 : providers[g.token].deps[k] \in ToSet(ins)
    BY <1>4, <2>1, <2>4 DEF FrameOK, Waits
  <2> QED BY <1>4, <2>1, <2>3, <2>5 DEF FrameOK
<1>9. \A i \in 1..n : FrameOK(gs[i], ins)
  BY <1>1, <1>6, <1>8 DEF StackOK
<1>10. \A i \in 1..n - 1 : Waits(gs[i], gs[i + 1].token)
  <2>1. \A i \in 1..n - 1 : i \in 1..n /\ i # n /\ i + 1 \in 1..n
    BY <1>2
  <2> QED BY <1>1, <1>6, <1>7, <2>1 DEF StackOK
<1>11. \A i \in 1..n : \A j \in i..n : gs[j].token \in Needs(gs[i].token)
  <2>1. \A i \in 1..n : \A j \in i..n : j \in 1..n
    BY <1>2
  <2> QED BY <1>1, <1>7, <2>1 DEF StackOK
<1>12. StackOK(gs, rs, ins)
  BY <1>1, <1>6, <1>7, <1>9, <1>10, <1>11 DEF StackOK
<1> QED BY <1>2, <1>6, <1>7, <1>12, FrameSeqs

\* An instance that no call on the stack constructs is stored.
LEMMA GrownOK ==
    ASSUME NEW fs \in Seq(Frame), NEW rs, NEW ins \in Seq(Tokens), NEW t \in Tokens,
           StackOK(fs, rs, ins), \A i \in 1..Len(fs) : fs[i].token # t
    PROVE  StackOK(fs, rs, Append(ins, t))
<1>1. \A u : u \in ToSet(Append(ins, t)) <=> u \in ToSet(ins) \/ u = t
  BY AppendSet
<1>2. \A i \in 1..Len(fs) : FrameOK(fs[i], Append(ins, t))
  BY <1>1 DEF StackOK, FrameOK
<1> QED BY <1>2 DEF StackOK

\* The top call returns.
LEMMA PopOK ==
    ASSUME NEW fs \in Seq(Frame), NEW rs \in Seq(Tokens), NEW ins,
           StackOK(fs, rs, ins), fs # << >>
    PROVE  /\ StackOK(Front(fs), Front(rs), ins)
           /\ \A i \in 1..Len(Front(fs)) : Front(fs)[i].token # Last(fs).token
           /\ Front(fs) # << >> => /\ Waits(Last(Front(fs)), Last(fs).token)
                                   /\ Front(fs)[1].token = fs[1].token
<1>1. PICK n, gs, qs : n = Len(fs) /\ gs = Front(fs) /\ qs = Front(rs)
  OBVIOUS
<1>2. /\ n \in Nat /\ n > 0 /\ Len(rs) = n /\ rs # << >>
      /\ gs \in Seq(Frame) /\ Len(gs) = n - 1 /\ \A i \in 1..n - 1 : gs[i] = fs[i]
      /\ qs \in Seq(Tokens) /\ Len(qs) = n - 1 /\ \A i \in 1..n - 1 : qs[i] = rs[i]
  BY <1>1, FrameSeqs, TokenSeqs DEF StackOK
<1>3. \A i \in 1..n - 1 : i \in 1..n
  BY <1>2
<1>4. DOMAIN rs = 1..n /\ IsInjective(qs)
  <2>1. DOMAIN rs = 1..n /\ DOMAIN qs = 1..n - 1
    BY <1>2, TokenSeqs
  <2>2. \A a, b \in 1..n : rs[a] = rs[b] => a = b
    BY <2>1 DEF StackOK, IsInjective
  <2> QED BY <1>2, <1>3, <2>1, <2>2 DEF IsInjective
<1>5. \A i \in 1..n - 1 : qs[i] = gs[i].token /\ FrameOK(gs[i], ins)
  BY <1>1, <1>2, <1>3 DEF StackOK
<1>6. \A i \in 1..(n - 1) - 1 : Waits(gs[i], gs[i + 1].token)
  <2>1. \A i \in 1..(n - 1) - 1 : i \in 1..n - 1 /\ i + 1 \in 1..n - 1
    BY <1>2
  <2> QED BY <1>1, <1>2, <2>1 DEF StackOK
<1>7. \A i \in 1..n - 1 : \A j \in i..n - 1 : gs[j].token \in Needs(gs[i].token)
  <2>1. \A i \in 1..n - 1 : \A j \in i..n - 1 : j \in 1..n - 1 /\ j \in i..n
    BY <1>2
  <2> QED BY <1>1, <1>2, <1>3, <2>1 DEF StackOK
<1>8. StackOK(gs, qs, ins)
  BY <1>2, <1>4, <1>5, <1>6, <1>7 DEF StackOK
<1>9. \A i \in 1..n - 1 : gs[i].token # fs[n].token
  <2>1. \A i \in 1..n - 1 : i # n /\ i \in 1..n /\ n \in 1..n
    BY <1>2
  <2>2. \A a, b \in 1..n : fs[a].token = fs[b].token => a = b
    BY <1>1, <1>4 DEF StackOK, IsInjective
  <2> QED BY <1>2, <2>1, <2>2
<1>10. gs # << >> => Waits(gs[n - 1], fs[n].token) /\ gs[1].token = fs[1].token
  <2> SUFFICES ASSUME gs # << >>
               PROVE  Waits(gs[n - 1], fs[n].token) /\ gs[1].token = fs[1].token
    OBVIOUS
  <2>1. n - 1 \in 1..n - 1 /\ 1 \in 1..n - 1 /\ (n - 1) + 1 = n
    BY <1>2, FrameSeqs
  <2> QED BY <1>1, <1>2, <2>1 DEF StackOK
<1> QED BY <1>1, <1>2, <1>8, <1>9, <1>10 DEF Last

\* A call is entered for a token that is registered and nowhere yet.
LEMMA PushOK ==
    ASSUME ContainerTypes, NEW fs \in Seq(Frame), NEW rs \in Seq(Tokens), NEW ins, NEW t \in Tokens,
           StackOK(fs, rs, ins), providers[t] # Missing,
           t \notin ToSet(ins), t \notin ToSet(rs),
           fs # << >> => Waits(Last(fs), t),
           NEW f, f = [token |-> t, next |-> 1]
    PROVE  /\ f \in Frame /\ StackOK(Append(fs, f), Append(rs, t), ins)
           /\ Append(fs, f)[1].token = IF fs = << >> THEN t ELSE fs[1].token
<1>1. PICK n, gs, qs : n = Len(fs) /\ gs = Append(fs, f) /\ qs = Append(rs, t)
  OBVIOUS
<1>2. f \in Frame /\ f.token = t /\ f.next = 1
  BY DEF Frame
<1>3. /\ n \in Nat /\ Len(rs) = n /\ \A i \in 1..n : fs[i] \in Frame
      /\ gs \in Seq(Frame) /\ Len(gs) = n + 1 /\ gs[n + 1] = f /\ \A i \in 1..n : gs[i] = fs[i]
      /\ qs \in Seq(Tokens) /\ Len(qs) = n + 1 /\ qs[n + 1] = t /\ \A i \in 1..n : qs[i] = rs[i]
  BY <1>1, <1>2, FrameSeqs, TokenSeqs DEF StackOK
<1>4. IsInjective(qs)
  BY <1>1, AppendSet DEF StackOK
<1>5. FrameOK(f, ins)
  <2>1. Len(providers[t].deps) \in Nat
    BY ProviderFacts
  <2> QED BY <1>2, <2>1 DEF FrameOK
<1>6. \A i \in 1..n + 1 : i \in 1..n \/ i = n + 1
  BY <1>3
<1>7. \A i \in 1..n + 1 : qs[i] = gs[i].token /\ FrameOK(gs[i], ins)
  BY <1>1, <1>2, <1>3, <1>5, <1>6 DEF StackOK
<1>8. \A i \in 1..n : Waits(gs[i], gs[i + 1].token)
  <2>1. ASSUME NEW i \in 1..n - 1 PROVE Waits(gs[i], gs[i + 1].token)
    <3>1. i \in 1..n /\ i + 1 \in 1..n
      BY <1>3
    <3> QED BY <1>1, <1>3, <3>1 DEF StackOK
  <2>2. ASSUME n > 0 PROVE Waits(gs[n], gs[n + 1].token)
    <3>1. fs # << >> /\ n \in 1..n
      BY <1>1, <1>3, <2>2, FrameSeqs
    <3> QED BY <1>1, <1>2, <1>3, <3>1 DEF Last
  <2>3. \A i \in 1..n : n > 0 /\ (i \in 1..n - 1 \/ i = n)
    BY <1>3
  <2> QED BY <2>1, <2>2, <2>3
<1>9. ASSUME NEW i \in 1..n + 1, NEW j \in i..n + 1
      PROVE  gs[j].token \in Needs(gs[i].token)
  <2>1. CASE i = n + 1
    <3>1. j = n + 1
      BY <1>3, <2>1
    <3> QED BY <1>2, <1>3, <2>1, <3>1, NeedsFacts
  <2>2. CASE i \in 1..n /\ j \in i..n
    <3>1. j \in 1..n
      BY <1>3, <2>2
    <3> QED BY <1>1, <1>3, <2>2, <3>1 DEF StackOK
  <2>3. CASE i \in 1..n /\ j = n + 1
    <3>1. fs # << >> /\ n \in 1..n /\ n \in i..n
      BY <1>1, <1>3, <2>3, FrameSeqs
    <3>2. fs[n].token \in Needs(fs[i].token) /\ fs[i].token \in Tokens /\ fs[n] \in Frame
      BY <1>1, <1>3, <2>3, <3>1 DEF StackOK, Frame
    <3>3. t \in Dependencies(fs[n].token)
      <4>1. /\ Waits(fs[n], t) /\ fs[n].token \in Tokens /\ fs[n].next \in Nat \ {0}
            /\ Len(providers[fs[n].token].deps) \in Nat
        BY <1>1, <3>1, <3>2, ProviderFacts DEF Last, Frame
      <4>2. fs[n].next \in 1..Len(providers[fs[n].token].deps)
        BY <4>1 DEF Waits
      <4> QED BY <4>1, <4>2, ProviderFacts DEF Waits
    <3> QED BY <1>2, <1>3, <2>3, <3>2, <3>3, NeedsFacts
  <2> QED BY <1>3, <2>1, <2>2, <2>3
<1>10. StackOK(gs, qs, ins)
  BY <1>3, <1>4, <1>7, <1>8, <1>9 DEF StackOK
<1>11. gs[1].token = IF fs = << >> THEN t ELSE fs[1].token
  <2>1. CASE fs = << >>
    BY <1>1, <1>2, <1>3, <2>1
  <2>2. CASE fs # << >>
    <3>1. 1 \in 1..n
      BY <1>1, <1>3, <2>2, FrameSeqs
    <3> QED BY <1>3, <2>2, <3>1
  <2> QED BY <2>1, <2>2
<1> QED BY <1>1, <1>2, <1>10, <1>11

-----------------------------------------------------------------------------
(* Each action. *)

\* What the calls in progress, and the caller, resolve next.
LEMMA CallsFacts ==
    ASSUME ContainerIInv, NEW t \in Tokens, Calls(t)
    PROVE  /\ todo # << >> /\ outcome = "none" /\ Head(todo) \in Tokens
           /\ frames = << >> => t = Head(todo)
           /\ frames # << >> => Waits(Last(frames), t) /\ frames[1].token = Head(todo)
           /\ t \in Needs(Head(todo))
           /\ \A i \in 1..Len(frames) :
                 /\ frames[i].token \in Needs(Head(todo)) /\ frames[i].token \in Tokens
                 /\ t \in Needs(frames[i].token)
                 /\ i < Len(frames) => t \in Needs(frames[i + 1].token)
                                       /\ frames[i + 1].token \in Dependencies(frames[i].token)
                 /\ i = Len(frames) => t \in Dependencies(frames[i].token)
<1>1. ContainerTypes /\ StackOK(frames, resolving, instances) /\ frames \in Seq(Frame)
  BY DEF ContainerIInv, ContainerTypes, StackInv
<1>2. /\ todo # << >> /\ outcome = "none" /\ Head(todo) \in Tokens
      /\ frames = << >> => t = Head(todo)
      /\ frames # << >> => Waits(Last(frames), t) /\ frames[1].token = Head(todo)
  BY <1>1, TokenSeqs DEF ContainerIInv, Calls, Waits, StackInv, PhaseInv, ContainerTypes
<1>3. PICK n : n = Len(frames)
  OBVIOUS
<1>4. n \in Nat /\ \A i \in 1..n : frames[i] \in Frame /\ frames[i].token \in Tokens
  BY <1>1, <1>3, FrameSeqs DEF Frame
<1>5. ASSUME NEW i \in 1..n, NEW u \in Tokens, Waits(frames[i], u)
      PROVE  u \in Dependencies(frames[i].token)
  <2>1. /\ frames[i].token \in Tokens /\ frames[i].next \in Nat \ {0}
        /\ Len(providers[frames[i].token].deps) \in Nat
    BY <1>1, <1>4, ProviderFacts DEF Frame
  <2>2. frames[i].next \in 1..Len(providers[frames[i].token].deps)
    BY <1>5, <2>1 DEF Waits
  <2> QED BY <1>1, <1>5, <2>1, <2>2, ProviderFacts DEF Waits
<1>6. ASSUME NEW i \in 1..n PROVE t \in Needs(frames[i].token)
  <2>1. n \in 1..n /\ n \in i..n /\ frames # << >>
    BY <1>1, <1>3, <1>4, FrameSeqs
  <2>2. frames[n].token \in Needs(frames[i].token)
    BY <1>1, <1>3, <2>1 DEF StackOK
  <2>3. t \in Dependencies(frames[n].token)
    BY <1>2, <1>3, <1>5, <2>1 DEF Last
  <2> QED BY <1>1, <1>4, <2>1, <2>2, <2>3, NeedsFacts
<1>7. ASSUME NEW i \in 1..n PROVE frames[i].token \in Needs(Head(todo))
  <2>1. 1 \in 1..n /\ i \in 1..n /\ frames # << >>
    BY <1>1, <1>3, <1>4, FrameSeqs
  <2>2. i \in 1..n => i \in 1..Len(frames) /\ i >= 1
    BY <1>3, <1>4
  <2>3. frames[i].token \in Needs(frames[1].token)
    BY <1>1, <1>3, <2>1 DEF StackOK
  <2> QED BY <1>2, <2>1, <2>3
<1>8. t \in Needs(Head(todo))
  <2>1. CASE frames = << >>
    BY <1>1, <1>2, <2>1, NeedsFacts
  <2>2. CASE frames # << >>
    <3>1. 1 \in 1..n
      BY <1>1, <1>3, <1>4, <2>2, FrameSeqs
    <3> QED BY <1>2, <1>6, <2>2, <3>1
  <2> QED BY <2>1, <2>2
<1>9. ASSUME NEW i \in 1..n, i < n
      PROVE  /\ t \in Needs(frames[i + 1].token)
             /\ frames[i + 1].token \in Dependencies(frames[i].token)
  <2>1. i \in 1..n - 1 /\ i + 1 \in 1..n
    BY <1>4, <1>9
  <2>2. Waits(frames[i], frames[i + 1].token)
    BY <1>1, <1>3, <2>1 DEF StackOK
  <2> QED BY <1>4, <1>5, <1>6, <2>1, <2>2
<1>10. ASSUME NEW i \in 1..n, i = n PROVE t \in Dependencies(frames[i].token)
  <2>1. frames # << >>
    BY <1>1, <1>3, <1>4, FrameSeqs
  <2> QED BY <1>2, <1>3, <1>5, <1>10, <2>1 DEF Last
<1> QED BY <1>2, <1>3, <1>4, <1>6, <1>7, <1>8, <1>9, <1>10

\* Nothing has been resolved, and what is registered changes.
LEMMA RegisteredKeeps ==
    ASSUME ContainerIInv, outcome = "none", todo = << >>,
           providers' \in [Tokens -> Provider \cup {Missing}], order' \in Seq(Tokens), OrderInv',
           UNCHANGED <<instances, frames, resolving, todo, outcome, asked, built>>
    PROVE  ContainerIInv'
<1>1. ContainerTypes /\ frames = << >> /\ instances = << >>
  BY DEF ContainerIInv, PhaseInv
<1>2. ContainerTypes'
  BY <1>1 DEF ContainerTypes
<1>3. StackInv'
  BY <1>1 DEF ContainerIInv, StackInv, StackOK
<1>4. InstanceInv'
  BY <1>1 DEF ContainerIInv, InstanceInv, Ordered, Has
<1>5. PhaseInv' /\ OutcomeIsReal'
  BY DEF ContainerIInv, PhaseInv, OutcomeIsReal
<1> QED BY <1>2, <1>3, <1>4, <1>5 DEF ContainerIInv

\* register() of one provider.
LEMMA RegisterKeeps ==
    ASSUME ContainerIInv, NEW t \in Tokens, NEW p \in Provider, Register(t, p)
    PROVE  ContainerIInv'
<1>1. /\ outcome = "none" /\ todo = << >>
      /\ providers' = [providers EXCEPT ![t] = p]
      /\ order' = IF providers[t] = Missing THEN Append(order, t) ELSE order
      /\ UNCHANGED <<instances, frames, resolving, todo, outcome, asked, built>>
  BY DEF Register
<1>2. p # Missing
  BY DEF Provider, Missing
<1>3. order \in Seq(Tokens) /\ order' \in Seq(Tokens)
  BY <1>1, TokenSeqs DEF ContainerIInv, ContainerTypes
<1>4. /\ providers' \in [Tokens -> Provider \cup {Missing}]
      /\ \A u \in Tokens : providers'[u] = IF u = t THEN p ELSE providers[u]
  BY <1>1 DEF ContainerIInv, ContainerTypes
<1>5. OrderInv'
  <2>1. CASE providers[t] = Missing
    <3>1. order' = Append(order, t) /\ t \notin ToSet(order)
      BY <1>1, <2>1 DEF ContainerIInv, OrderInv
    <3> QED BY <1>2, <1>3, <1>4, <3>1, AppendSet DEF ContainerIInv, OrderInv
  <2>2. CASE providers[t] # Missing
    BY <1>1, <1>2, <1>4, <2>2 DEF ContainerIInv, OrderInv
  <2> QED BY <2>1, <2>2
<1> QED BY <1>1, <1>3, <1>4, <1>5, RegisteredKeeps

\* The caller asks for one token, or for all.
LEMMA AskKeeps ==
    ASSUME ContainerIInv, NEW tokens \in Seq(Tokens), tokens # << >>, Ask(tokens)
    PROVE  ContainerIInv'
<1>1. /\ todo = << >> /\ todo' = tokens /\ outcome' = "none"
      /\ UNCHANGED <<providers, order, instances, frames, resolving, asked, built>>
  BY DEF Ask
<1>2. ContainerTypes /\ frames = << >>
  BY <1>1 DEF ContainerIInv, PhaseInv
<1>3. ContainerTypes'
  BY <1>1, <1>2 DEF ContainerTypes
<1>4. OrderInv' /\ InstanceInv'
  BY <1>1 DEF ContainerIInv, OrderInv, InstanceInv, Ordered, Has, Dependencies
<1>5. StackInv'
  BY <1>1, <1>2 DEF ContainerIInv, StackInv, StackOK
<1>6. PhaseInv' /\ OutcomeIsReal'
  BY <1>1 DEF PhaseInv, OutcomeIsReal
<1> QED BY <1>3, <1>4, <1>5, <1>6 DEF ContainerIInv

Errors == {"not registered", "circular", "thrown"}

\* What must be so for the error to be reported of the token a.
Reason(error, a) ==
    /\ error = "circular" => \E u \in Needs(a) : OnCycle(u)
    /\ error = "not registered" => \E u \in Needs(a) : providers[u] = Missing

\* resolve() throws, with a reason: nothing is left on either stack.
LEMMA ThrowsKeeps ==
    ASSUME ContainerIInv, todo # << >>, NEW error, error \in Errors,
           Throws(error), Reason(error, Head(todo))
    PROVE  ContainerIInv'
<1>1. /\ frames' = << >> /\ resolving' = Unwound /\ todo' = << >>
      /\ outcome' = error /\ asked' = Head(todo)
      /\ UNCHANGED <<providers, order, instances, built>>
  BY DEF Throws
<1>2. ContainerTypes /\ resolving \in Seq(Tokens) /\ Len(resolving) = Len(frames) /\ Head(todo) \in Tokens
  BY TokenSeqs DEF ContainerIInv, StackInv, StackOK, ContainerTypes
<1>3. resolving' = << >>
  <2>1. Len(resolving) - Len(frames) = 0
    BY <1>2, TokenSeqs
  <2>2. SubSeq(resolving, 1, 0) = << >>
    BY <1>2
  <2> QED BY <1>1, <2>1, <2>2 DEF Unwound
<1>4. << >> \in Seq(Tokens) /\ << >> \in Seq(Frame) /\ Len(<< >>) = 0
  <2>1. << >> \in Seq(Tokens)
    OBVIOUS
  <2>2. << >> \in Seq(Frame)
    OBVIOUS
  <2> QED BY <2>1, <2>2
<1>5. ContainerTypes'
  BY <1>1, <1>2, <1>3, <1>4 DEF ContainerTypes, Errors
<1>6. OrderInv' /\ InstanceInv'
  <2>1. UNCHANGED <<providers, order, instances, built>> /\ OrderInv /\ InstanceInv
    BY <1>1 DEF ContainerIInv
  <2>2. OrderInv'
    BY ONLY <2>1 DEF OrderInv
  <2>3. InstanceInv'
    BY ONLY <2>1 DEF InstanceInv, Ordered, Has, Dependencies
  <2> QED BY <2>2, <2>3
<1>7. StackInv'
  <2>1. IsInjective(<< >>)
    BY DEF IsInjective
  <2> QED BY ONLY <1>1, <1>3, <2>1 DEF StackInv, StackOK
<1>8. PhaseInv'
  BY <1>1 DEF PhaseInv, Errors
<1>9. \A u \in Tokens : /\ Needs(u)' = Needs(u) /\ OnCycle(u)' = OnCycle(u)
  BY <1>1 DEF Needs, OnCycle, Closed, Dependencies
<1>10. OutcomeIsReal'
  <2>1. Needs(Head(todo)) \subseteq Tokens
    BY <1>2, NeedsFacts
  <2>2. PICK a : a = Head(todo)
    OBVIOUS
  <2>3. asked' = a /\ a \in Tokens /\ Needs(a)' = Needs(a) /\ Needs(a) \subseteq Tokens
    BY <1>1, <1>2, <1>9, <2>1, <2>2
  <2>4. Reason(error, a)
    BY <2>2
  <2>5. outcome' = "circular" => \E u \in Needs(a)' : OnCycle(u)'
    BY <1>1, <1>9, <2>3, <2>4 DEF Reason
  <2>6. outcome' = "not registered" => \E u \in Needs(a)' : providers'[u] = Missing
    BY <1>1, <2>3, <2>4 DEF Reason
  <2>7. outcome' # "ok"
    BY <1>1 DEF Errors
  <2> QED BY <2>3, <2>5, <2>6, <2>7 DEF OutcomeIsReal
<1> QED BY <1>5, <1>6, <1>7, <1>8, <1>10 DEF ContainerIInv

\* A call of resolve() returns a token that has an instance, to the calls in
\* stack or to the caller.
LEMMA ReturnKeeps ==
    ASSUME ContainerIInv, todo # << >>, NEW stack \in Seq(Frame), NEW t \in Tokens,
           Returns(stack), UNCHANGED <<providers, order>>,
           instances' \in Seq(Tokens), resolving' \in Seq(Tokens), built' \in [Tokens -> Nat],
           InstanceInv', StackOK(stack, resolving', instances'), t \in ToSet(instances'),
           stack = << >> => t = Head(todo),
           stack # << >> => Waits(Last(stack), t) /\ stack[1].token = Head(todo)
    PROVE  ContainerIInv'
<1>1. /\ ContainerTypes /\ OrderInv /\ Head(todo) \in Tokens /\ Tail(todo) \in Seq(Tokens)
      /\ Tail(todo) = << >> <=> Len(todo) = 1
  BY TokenSeqs DEF ContainerIInv, ContainerTypes
<1>2. OrderInv'
  BY <1>1 DEF OrderInv
<1>3. \A fs, rs, ins : StackOK(fs, rs, ins)' <=> StackOK(fs, rs, ins)
  BY DEF StackOK, FrameOK, Waits, Needs, Closed, Dependencies
<1>4. \A u \in Tokens : Needs(u)' = Needs(u) /\ OnCycle(u)' = OnCycle(u)
  BY DEF Needs, OnCycle, Closed, Dependencies
<1>5. CASE stack # << >>
  <2>1. /\ frames' = [stack EXCEPT ![Len(stack)].next = @ + 1]
        /\ UNCHANGED <<todo, outcome, asked>>
    BY <1>5 DEF Returns
  <2>2. /\ frames' \in Seq(Frame) /\ StackOK(frames', resolving', instances')
        /\ frames' # << >> /\ frames'[1].token = stack[1].token
    BY <1>1, <1>5, <2>1, AdvanceOK
  <2>3. ContainerTypes'
    BY <1>1, <2>1, <2>2 DEF ContainerTypes
  <2>4. StackInv'
    BY <1>3, <1>5, <2>1, <2>2 DEF StackInv
  <2>5. PhaseInv' /\ outcome' = "none"
    BY <2>1 DEF ContainerIInv, PhaseInv
  <2>6. OutcomeIsReal'
    BY <2>5 DEF OutcomeIsReal
  <2> QED BY <1>2, <2>3, <2>4, <2>5, <2>6 DEF ContainerIInv
<1>6. CASE stack = << >>
  <2>1. /\ frames' = << >> /\ todo' = Tail(todo) /\ asked' = Head(todo)
        /\ outcome' = IF Len(todo) = 1 THEN "ok" ELSE "none"
    BY <1>6 DEF Returns
  <2>2. frames' \in Seq(Frame) /\ frames' = stack
    BY <1>6, <2>1
  <2>3. ContainerTypes'
    BY <1>1, <2>1, <2>2 DEF ContainerTypes
  <2>4. StackInv'
    BY <1>3, <2>1, <2>2 DEF StackInv
  <2>5. PhaseInv'
    BY <1>1, <2>1 DEF PhaseInv
  <2>6. ASSUME outcome' = "ok" PROVE \A u \in Needs(t) : u \in ToSet(instances') /\ ~OnCycle(u)
    <3>1. Ordered(instances')
      BY DEF InstanceInv, Ordered, Dependencies
    <3> QED BY <1>1, <3>1, OrderedFacts
  <2>7. OutcomeIsReal'
    <3>1. asked' = t /\ Needs(t)' = Needs(t) /\ Needs(t) \subseteq Tokens
      BY <1>1, <1>4, <1>6, <2>1, NeedsFacts
    <3>2. outcome' # "circular" /\ outcome' # "not registered"
      BY <2>1
    <3>3. outcome' = "ok" => \A u \in Needs(t)' : Has(u)' /\ ~OnCycle(u)'
      BY <1>4, <2>6, <3>1 DEF Has
    <3> QED BY <3>1, <3>2, <3>3 DEF OutcomeIsReal
  <2> QED BY <1>2, <2>3, <2>4, <2>5, <2>7 DEF ContainerIInv
<1> QED BY <1>5, <1>6

\* A token that has an instance.
LEMMA ReturnCachedKeeps ==
    ASSUME ContainerIInv, NEW t \in Tokens, ReturnCached(t)
    PROVE  ContainerIInv'
<1>1. /\ Calls(t) /\ Has(t) /\ Returns(frames)
      /\ UNCHANGED <<providers, order, instances, resolving, built>>
  BY DEF ReturnCached, Cached
<1>2. /\ frames \in Seq(Frame) /\ instances' \in Seq(Tokens) /\ resolving' \in Seq(Tokens)
      /\ built' \in [Tokens -> Nat] /\ t \in ToSet(instances')
      /\ StackOK(frames, resolving', instances')
  BY <1>1 DEF ContainerIInv, ContainerTypes, StackInv, Has
<1>3. InstanceInv'
  BY <1>1 DEF ContainerIInv, InstanceInv, Ordered, Has, Dependencies
<1>4. /\ todo # << >>
      /\ frames = << >> => t = Head(todo)
      /\ frames # << >> => Waits(Last(frames), t) /\ frames[1].token = Head(todo)
  BY <1>1, CallsFacts
<1> QED BY <1>1, <1>2, <1>3, <1>4, ReturnKeeps

\* A token that nobody provides.
LEMMA NotRegisteredKeeps ==
    ASSUME ContainerIInv, NEW t \in Tokens, NotRegistered(t)
    PROVE  ContainerIInv'
<1>1. Calls(t) /\ providers[t] = Missing /\ Throws("not registered")
  BY DEF NotRegistered
<1>2. todo # << >> /\ t \in Needs(Head(todo))
  BY <1>1, CallsFacts
<1>3. Reason("not registered", Head(todo))
  BY <1>1, <1>2 DEF Reason
<1>4. "not registered" \in Errors
  BY DEF Errors
<1> QED BY <1>1, <1>2, <1>3, <1>4, ThrowsKeeps

\* A token that is met again on the stack: all calls from its own on need it.
LEMMA CircularKeeps ==
    ASSUME ContainerIInv, NEW t \in Tokens, Circular(t)
    PROVE  ContainerIInv'
<1>1. Calls(t) /\ t \in ToSet(resolving) /\ Throws("circular")
  BY DEF Circular, IsResolving
<1>2. PICK n : n = Len(frames)
  OBVIOUS
<1>3. /\ n \in Nat /\ DOMAIN resolving = 1..n
      /\ \A i \in 1..n : resolving[i] = frames[i].token
  BY <1>2, TokenSeqs DEF ContainerIInv, ContainerTypes, StackInv, StackOK
<1>4. PICK k \in 1..n : frames[k].token = t
  BY <1>1, <1>3 DEF ToSet
<1>5. todo # << >> /\ t \in Needs(Head(todo))
  BY <1>1, CallsFacts
<1>6. OnCycle(t)
  <2>1. CASE k = n
    <3>1. t \in Dependencies(t) /\ t \in Needs(t)
      BY <1>1, <1>2, <1>4, <2>1, CallsFacts
    <3> QED BY <3>1 DEF OnCycle
  <2>2. CASE k < n
    <3>1. frames[k + 1].token \in Dependencies(t) /\ t \in Needs(frames[k + 1].token)
      BY <1>1, <1>2, <1>4, <2>2, CallsFacts
    <3> QED BY <3>1 DEF OnCycle
  <2> QED BY <1>3, <2>1, <2>2
<1>7. Reason("circular", Head(todo))
  BY <1>5, <1>6 DEF Reason
<1>8. "circular" \in Errors
  BY DEF Errors
<1> QED BY <1>1, <1>5, <1>7, <1>8, ThrowsKeeps

\* A token without an instance: its provider's dependencies come first.
LEMMA EnterKeeps ==
    ASSUME ContainerIInv, NEW t \in Tokens, Enter(t)
    PROVE  ContainerIInv'
<1>1. PICK f : f = [token |-> t, next |-> 1]
  OBVIOUS
<1>2. /\ Calls(t) /\ ~Has(t) /\ providers[t] # Missing /\ t \notin ToSet(resolving)
      /\ resolving' = Append(resolving, t) /\ frames' = Append(frames, f)
      /\ UNCHANGED <<instances, providers, order, todo, outcome, asked, built>>
  BY <1>1 DEF Enter, Cached, IsResolving, EnteredOnly
<1>3. /\ ContainerTypes /\ frames \in Seq(Frame) /\ resolving \in Seq(Tokens)
      /\ StackOK(frames, resolving, instances)
  BY DEF ContainerIInv, ContainerTypes, StackInv
<1>4. /\ todo # << >>
      /\ frames = << >> => t = Head(todo)
      /\ frames # << >> => Waits(Last(frames), t) /\ frames[1].token = Head(todo)
      /\ outcome = "none"
  BY <1>2, CallsFacts
<1>5. /\ f \in Frame /\ StackOK(frames', resolving', instances)
      /\ frames'[1].token = IF frames = << >> THEN t ELSE frames[1].token
  BY <1>1, <1>2, <1>3, <1>4, PushOK DEF Has
<1>6. frames' \in Seq(Frame) /\ resolving' \in Seq(Tokens)
  BY <1>2, <1>3, <1>5, FrameSeqs, TokenSeqs
<1>7. ContainerTypes'
  BY <1>2, <1>3, <1>6 DEF ContainerTypes
<1>8. OrderInv' /\ InstanceInv'
  <2>1. OrderInv'
    BY <1>2 DEF ContainerIInv, OrderInv
  <2>2. InstanceInv'
    BY <1>2 DEF ContainerIInv, InstanceInv, Ordered, Has, Dependencies
  <2> QED BY <2>1, <2>2
<1>9. StackInv'
  <2>1. \A fs, rs, ins : StackOK(fs, rs, ins)' <=> StackOK(fs, rs, ins)
    BY <1>2 DEF StackOK, FrameOK, Waits, Needs, Closed, Dependencies
  <2>2. frames'[1].token = Head(todo)
    BY <1>4, <1>5
  <2> QED BY <1>2, <1>4, <1>5, <2>1, <2>2 DEF StackInv
<1>10. PhaseInv' /\ OutcomeIsReal'
  BY <1>2, <1>4 DEF PhaseInv, OutcomeIsReal
<1> QED BY <1>7, <1>8, <1>9, <1>10 DEF ContainerIInv

\* The constructor or factory is called when all that it needs exists.
LEMMA ConstructKeeps ==
    ASSUME ContainerIInv, Construct
    PROVE  ContainerIInv'
<1>1. PICK f, t, n : f = Last(frames) /\ t = f.token /\ n = Len(instances)
  OBVIOUS
<1>2. /\ frames # << >> /\ f.next > Len(providers[t].deps)
      /\ instances' = Append(instances, t) /\ built' = [built EXCEPT ![t] = @ + 1]
      /\ resolving' = Front(resolving) /\ Returns(Front(frames))
      /\ UNCHANGED <<providers, order>>
  BY <1>1 DEF Construct, Complete
<1>3. /\ ContainerTypes /\ frames \in Seq(Frame) /\ resolving \in Seq(Tokens) /\ instances \in Seq(Tokens)
      /\ StackOK(frames, resolving, instances) /\ todo # << >> /\ frames[1].token = Head(todo)
      /\ built \in [Tokens -> Nat]
  BY <1>2 DEF ContainerIInv, ContainerTypes, StackInv
<1>4. f \in Frame /\ t \in Tokens /\ FrameOK(f, instances) /\ f.next \in Nat \ {0}
  <2>1. Len(frames) \in 1..Len(frames)
    BY <1>2, <1>3, FrameSeqs
  <2>2. f \in Frame /\ FrameOK(f, instances)
    BY <1>1, <1>3, <2>1, FrameSeqs DEF StackOK, Last
  <2> QED BY <1>1, <2>2 DEF Frame
<1>5. /\ n \in Nat /\ DOMAIN instances = 1..n /\ DOMAIN instances' = 1..n + 1
      /\ instances' \in Seq(Tokens) /\ Len(instances') = n + 1 /\ instances'[n + 1] = t
      /\ \A i \in 1..n : instances'[i] = instances[i]
  BY <1>1, <1>2, <1>3, <1>4, TokenSeqs
<1>6. /\ t \notin ToSet(instances) /\ ToSet(instances') = ToSet(instances) \cup {t}
      /\ IsInjective(instances) => IsInjective(instances')
  BY <1>1, <1>2, <1>3, <1>4, AppendSet DEF FrameOK
<1>7. Dependencies(t) \subseteq ToSet(instances)
  <2>1. providers[t].deps \in Seq(Tokens) /\ Len(providers[t].deps) \in Nat
    BY <1>3, <1>4, ProviderFacts
  <2>2. \A k \in 1..Len(providers[t].deps) : k \in 1..f.next - 1
    BY <1>2, <1>4, <2>1
  <2>3. \A k \in 1..Len(providers[t].deps) : providers[t].deps[k] \in ToSet(instances)
    BY <1>1, <1>4, <2>2 DEF FrameOK
  <2> QED BY <2>1, <2>3 DEF Dependencies, ToSet
<1>8. Ordered(instances')
  <2>1. IsInjective(instances')
    BY <1>6 DEF ContainerIInv, InstanceInv, Ordered
  <2>2. ASSUME NEW i \in 1..n, NEW d \in Dependencies(instances'[i])
        PROVE  \E j \in 1..(i - 1) : instances'[j] = d
    <3>1. PICK j \in 1..(i - 1) : instances[j] = d
      BY <1>1, <1>5, <2>2 DEF ContainerIInv, InstanceInv, Ordered
    <3>2. j \in 1..n
      BY <1>5, <3>1
    <3> QED BY <1>5, <3>1, <3>2
  <2>3. ASSUME NEW d \in Dependencies(t) PROVE \E j \in 1..n : instances'[j] = d
    BY <1>5, <1>7, <2>3 DEF ToSet
  <2>4. \A i \in 1..n + 1 : i \in 1..n \/ (i = n + 1 /\ i - 1 = n)
    BY <1>5
  <2> QED BY <1>5, <2>1, <2>2, <2>3, <2>4 DEF Ordered
<1>9. InstanceInv'
  <2>1. Ordered(instances)'
    BY <1>2, <1>8 DEF Ordered, Dependencies
  <2>2. \A u \in Tokens : built'[u] = IF Has(u)' THEN 1 ELSE 0
    BY <1>2, <1>3, <1>4, <1>6 DEF ContainerIInv, InstanceInv, Has
  <2> QED BY <2>1, <2>2 DEF InstanceInv
<1>10. built' \in [Tokens -> Nat]
  BY <1>2, <1>3, <1>4
<1>11. PICK stack : stack = Front(frames)
  OBVIOUS
<1>12. stack \in Seq(Frame) /\ resolving' \in Seq(Tokens) /\ Len(stack) = Len(frames) - 1
  <2>1. resolving # << >>
    BY <1>2, <1>3, FrameSeqs, TokenSeqs DEF StackOK
  <2> QED BY <1>2, <1>3, <1>11, <2>1, FrameSeqs, TokenSeqs
<1>13. /\ StackOK(stack, resolving', instances)
       /\ \A i \in 1..Len(stack) : stack[i].token # t
       /\ stack # << >> => Waits(Last(stack), t) /\ stack[1].token = Head(todo)
  BY <1>1, <1>2, <1>3, <1>11, PopOK
<1>14. StackOK(stack, resolving', instances')
  BY <1>2, <1>3, <1>4, <1>12, <1>13, GrownOK
<1>15. stack = << >> => t = Head(todo)
  <2>1. stack = << >> => Len(frames) = 1
    BY <1>3, <1>12, FrameSeqs
  <2> QED BY <1>1, <1>3, <2>1 DEF Last
<1>16. t \in ToSet(instances')
  BY <1>6
<1> QED
  BY <1>2, <1>3, <1>4, <1>5, <1>9, <1>10, <1>11, <1>12, <1>13, <1>14, <1>15, <1>16, ReturnKeeps

\* The constructor or factory throws.
LEMMA ConstructFailsKeeps ==
    ASSUME ContainerIInv, ConstructFails
    PROVE  ContainerIInv'
<1>1. frames # << >> /\ Throws("thrown")
  BY DEF ConstructFails, Complete
<1>2. todo # << >>
  BY <1>1 DEF ContainerIInv, StackInv
<1>3. Reason("thrown", Head(todo)) /\ "thrown" \in Errors
  BY DEF Reason, Errors
<1> QED BY <1>1, <1>2, <1>3, ThrowsKeeps

-----------------------------------------------------------------------------
(* The theorems. *)

\* An empty container.
LEMMA InitContainerIInv == ContainerInit => ContainerIInv
<1> SUFFICES ASSUME ContainerInit PROVE ContainerIInv
  OBVIOUS
<1>1. << >> \in Seq(Tokens) /\ << >> \in Seq(Frame) /\ Len(<< >>) = 0
  <2>1. << >> \in Seq(Tokens)
    OBVIOUS
  <2>2. << >> \in Seq(Frame)
    OBVIOUS
  <2> QED BY <2>1, <2>2
<1>2. IsInjective(<< >>) /\ ToSet(<< >>) = {}
  BY DEF IsInjective, ToSet
<1>3. ContainerTypes
  BY <1>1 DEF ContainerInit, ContainerTypes
<1>4. OrderInv
  BY <1>2 DEF ContainerInit, OrderInv
<1>5. StackInv
  BY <1>1, <1>2 DEF ContainerInit, StackInv, StackOK
<1>6. InstanceInv
  BY <1>1, <1>2 DEF ContainerInit, InstanceInv, Ordered, Has
<1>7. PhaseInv /\ OutcomeIsReal
  BY DEF ContainerInit, PhaseInv, OutcomeIsReal
<1> QED BY <1>3, <1>4, <1>5, <1>6, <1>7 DEF ContainerIInv

\* Whatever happens outside the container leaves it as it is.
LEMMA IdleKeeps ==
    ASSUME ContainerIInv, UNCHANGED kvars
    PROVE  ContainerIInv'
<1>1. UNCHANGED <<providers, order, instances, frames, resolving, todo, outcome, asked, built>>
  BY DEF kvars
<1>2. ContainerTypes' /\ OrderInv' /\ InstanceInv' /\ PhaseInv'
  <2>1. ContainerTypes'
    BY <1>1 DEF ContainerIInv, ContainerTypes
  <2>2. OrderInv' /\ PhaseInv'
    BY <1>1 DEF ContainerIInv, OrderInv, PhaseInv
  <2>3. InstanceInv'
    BY <1>1 DEF ContainerIInv, InstanceInv, Ordered, Has, Dependencies
  <2> QED BY <2>1, <2>2, <2>3
<1>3. StackInv'
  BY <1>1 DEF ContainerIInv, StackInv, StackOK, FrameOK, Waits, Needs, Closed, Dependencies
<1>4. OutcomeIsReal'
  BY <1>1 DEF ContainerIInv, OutcomeIsReal, OnCycle, Has, Needs, Closed, Dependencies
<1> QED BY <1>2, <1>3, <1>4 DEF ContainerIInv

\* Every action keeps the two stacks in step with the providers.
LEMMA NextContainerIInv == ContainerIInv /\ [ContainerNext]_kvars => ContainerIInv'
<1> SUFFICES ASSUME ContainerIInv, [ContainerNext]_kvars PROVE ContainerIInv'
  OBVIOUS
<1>1. ASSUME NEW t \in Tokens, NEW p \in Provider, Register(t, p) PROVE ContainerIInv'
  BY <1>1, RegisterKeeps
<1>2. ASSUME NEW t \in Tokens, Resolve(t) PROVE ContainerIInv'
  <2>1. <<t>> \in Seq(Tokens) /\ <<t>> # << >>
    OBVIOUS
  <2> QED BY <1>2, <2>1, AskKeeps DEF Resolve
<1>3. ASSUME NEW t \in Tokens, ReturnCached(t) PROVE ContainerIInv'
  BY <1>3, ReturnCachedKeeps
<1>4. ASSUME NEW t \in Tokens, NotRegistered(t) PROVE ContainerIInv'
  BY <1>4, NotRegisteredKeeps
<1>5. ASSUME NEW t \in Tokens, Circular(t) PROVE ContainerIInv'
  BY <1>5, CircularKeeps
<1>6. ASSUME NEW t \in Tokens, Enter(t) PROVE ContainerIInv'
  BY <1>6, EnterKeeps
<1>7. CASE InstantiateAll
  BY <1>7, AskKeeps DEF InstantiateAll, ContainerIInv, ContainerTypes
<1>8. CASE Construct
  BY <1>8, ConstructKeeps
<1>9. CASE ConstructFails
  BY <1>9, ConstructFailsKeeps
<1>10. CASE UNCHANGED kvars
  BY <1>10, IdleKeeps
<1> QED
  BY <1>1, <1>2, <1>3, <1>4, <1>5, <1>6, <1>7, <1>8, <1>9, <1>10 DEF ContainerNext

\* In every reachable state the stack reads as the graph of providers says.
THEOREM ContainerAlwaysIInv == ContainerSpec => []ContainerIInv
<1>1. ContainerInit => ContainerIInv
  BY InitContainerIInv
<1>2. ContainerIInv /\ [ContainerNext]_kvars => ContainerIInv'
  BY NextContainerIInv
<1> QED BY <1>1, <1>2, PTL DEF ContainerSpec

\* The invariant of the container implies its types.
LEMMA ContainerTyped == ContainerIInv => ContainerTypeOK
<1> SUFFICES ASSUME ContainerIInv PROVE ContainerTypeOK
  OBVIOUS
<1>1. ContainerTypes /\ OrderInv /\ StackOK(frames, resolving, instances)
  BY DEF ContainerIInv, StackInv
<1>2. DOMAIN providers = Tokens
  BY <1>1 DEF ContainerTypes
<1>3. \A t \in Tokens :
        /\ providers[t].kind \in {"missing", "value", "class"}
        /\ Dependencies(t) \subseteq Tokens /\ Len(providers[t].deps) <= MaxDeps
        /\ providers[t].kind # "class" => providers[t].deps = << >>
  BY <1>1, ProviderFacts
<1>4. /\ ToSet(instances) \subseteq Tokens /\ ToSet(resolving) \subseteq Tokens
      /\ ToSet(todo) \subseteq Tokens /\ ToSet(order) \subseteq Tokens
  <2>1. \A s \in Seq(Tokens) : ToSet(s) \subseteq Tokens
    BY TokenSeqs DEF ToSet
  <2> QED BY <1>1, <2>1 DEF ContainerTypes
<1>5. ASSUME NEW i \in DOMAIN frames
      PROVE  frames[i].token \in Tokens /\ frames[i].next \in 1..(MaxDeps + 1)
  <2>1. i \in 1..Len(frames) /\ frames[i] \in Frame
    BY <1>1, FrameSeqs DEF ContainerTypes
  <2>2. /\ frames[i].token \in Tokens /\ frames[i].next \in Nat \ {0}
        /\ frames[i].next <= Len(providers[frames[i].token].deps) + 1
    BY <1>1, <2>1 DEF StackOK, FrameOK, Frame
  <2>3. /\ Len(providers[frames[i].token].deps) \in Nat
        /\ Len(providers[frames[i].token].deps) <= MaxDeps
    BY <1>1, <2>2, ProviderFacts
  <2> QED BY <2>2, <2>3
<1>6. IsInjective(order) /\ ToSet(order) = { t \in Tokens : providers[t] # Missing }
  BY <1>1, <1>4 DEF OrderInv
<1> QED BY <1>1, <1>2, <1>3, <1>4, <1>5, <1>6 DEF ContainerTypeOK, ContainerTypes, StackOK

\* ContainerTypeOK of Container: the keys of the Map are the registered tokens, each
\* once, and the array of tokens being resolved never holds one twice.
THEOREM ContainerTypeCorrect == ContainerSpec => []ContainerTypeOK
  BY ContainerTyped, ContainerAlwaysIInv, PTL

\* OutcomeIsReal of Container: a resolution ends as the graph of providers
\* says, whatever was resolved, or thrown, before.
THEOREM OutcomesAreReal == ContainerSpec => []OutcomeIsReal
<1>1. ContainerIInv => OutcomeIsReal
  BY DEF ContainerIInv
<1> QED BY <1>1, ContainerAlwaysIInv, PTL

\* DependenciesFirst of Container: each provider is constructed once at most,
\* after all it depends on.
THEOREM BuiltInOrder == ContainerSpec => []DependenciesFirst
<1>1. ContainerIInv => DependenciesFirst
  <2> SUFFICES ASSUME ContainerIInv PROVE DependenciesFirst
    OBVIOUS
  <2>1. \A t \in Tokens : built[t] <= 1
    BY DEF ContainerIInv, InstanceInv
  <2>2. DOMAIN instances = 1..Len(instances)
    BY TokenSeqs DEF ContainerIInv, ContainerTypes
  <2> QED BY <2>1, <2>2 DEF ContainerIInv, InstanceInv, Ordered, DependenciesFirst
<1> QED BY <1>1, ContainerAlwaysIInv, PTL

------------------------------------------------------------------------------
(***************************************************************************)
(* Numbers, loops and the keys of a Map.                                   *)
(*                                                                         *)
(* A recursive function stands for a loop over a sequence.  A lemma shows  *)
(* that some function has the values that the rounds give; facts about     *)
(* them follow round by round.                                             *)
(***************************************************************************)

\* A set of numbers that is not empty has a smallest one.
LEMMA SmallestElement ==
    ASSUME NEW S \in SUBSET Nat, S # {}
    PROVE  \E m \in S : \A n \in S : m <= n
<1>1. IsWellFoundedOn(OpToRel(<, Nat), Nat)
  BY NatLessThanWellFounded
<1>2. PICK m \in S : \A n \in S : <<n, m>> \notin OpToRel(<, Nat)
  <2> HIDE DEF OpToRel
  <2> QED BY <1>1, WFMin
<1>3. ASSUME NEW n \in S PROVE m <= n
  <2>1. ~(n < m)
    BY <1>2 DEF OpToRel
  <2> QED BY <2>1
<1> QED BY <1>3

\* What holds of 0, and of every number up to K if it holds of the one before, holds
\* of all of them.
LEMMA UpTo ==
    ASSUME NEW K \in Nat, NEW P, 0 \in P, \A n \in 1..K : n - 1 \in P => n \in P
    PROVE  \A n \in 0..K : n \in P
<1> DEFINE N == { n \in 0..K : n \notin P }
<1> SUFFICES ASSUME N # {} PROVE FALSE
  OBVIOUS
<1>1. PICK m \in N : \A n \in N : m <= n
  <2>1. N \in SUBSET Nat
    OBVIOUS
  <2> HIDE DEF N
  <2> QED BY <2>1, SmallestElement
<1>2. m \in 1..K /\ m - 1 \in 0..K /\ m - 1 < m
  BY <1>1
<1>3. m - 1 \notin N
  BY <1>1, <1>2
<1> QED BY <1>1, <1>2, <1>3

\* step[i] maps the value after i - 1 rounds to the one after i.
AreSteps(step, K, S) == step \in [1..K -> [S -> S]]
\* g runs through the first K rounds from base.
Iterates(g, K, S, base, step) ==
    /\ g \in [0..K -> S] /\ g[0] = base
    /\ \A n \in 1..K : g[n] = step[n][g[n - 1]]

\* The rounds of a loop have results: of the functions CHOOSEn for a recursive
\* definition, such as KeysAfter or BuildRoutes, one exists.
LEMMA IterationExists ==
    ASSUME NEW S, NEW K \in Nat, NEW base \in S, NEW step, AreSteps(step, K, S)
    PROVE  \E g : Iterates(g, K, S, base, step)
<1> USE DEF AreSteps
<1> DEFINE Is(k, g) == /\ g \in [0..k -> S] /\ g[0] = base
                       /\ \A n \in 1..k : g[n] = step[n][g[n - 1]]
           P == { k \in 0..K : \E g : Is(k, g) }
<1>1. 0 \in P
  <2>1. Is(0, [n \in 0..0 |-> base])
    OBVIOUS
  <2>2. \E g : Is(0, g)
    BY <2>1
  <2> QED BY <2>2
<1>2. ASSUME NEW k \in 1..K, k - 1 \in P PROVE k \in P
  <2>1. PICK g : Is(k - 1, g)
    BY <1>2
  <2> DEFINE h == [n \in 0..k |-> IF n = k THEN step[k][g[k - 1]] ELSE g[n]]
  <2>2. k - 1 \in 0..k - 1 /\ g[k - 1] \in S /\ step[k][g[k - 1]] \in S
    BY <2>1
  <2>3. h \in [0..k -> S]
    BY <2>1, <2>2
  <2>4. h[0] = base
    BY <2>1
  <2>5. ASSUME NEW n \in 1..k PROVE h[n] = step[n][h[n - 1]]
    <3>1. n - 1 \in 0..k /\ n - 1 # k /\ h[n - 1] = g[n - 1]
      OBVIOUS
    <3>2. CASE n = k
      BY <3>1, <3>2
    <3>3. CASE n # k
      <4>1. n \in 1..k - 1 /\ h[n] = g[n]
        BY <3>3
      <4> QED BY <2>1, <3>1, <4>1
    <3> QED BY <3>2, <3>3
  <2>6. Is(k, h)
    BY <2>3, <2>4, <2>5
  <2>7. \E f : Is(k, f)
    BY <2>6
  <2> QED BY <2>7
<1>3. K \in P
  <2>1. \A k \in 0..K : k \in P
    <3> HIDE DEF P
    <3> QED BY <1>1, <1>2, UpTo
  <2> QED BY <2>1
<1>4. PICK g : Is(K, g)
  BY <1>3
<1> QED BY <1>4 DEF Iterates

\* Min is the smallest number of a set.
LEMMA MinFacts ==
    ASSUME NEW S \in SUBSET Nat, S # {}
    PROVE  Min(S) \in S /\ \A n \in S : Min(S) <= n
<1>1. \E m \in S : \A n \in S : m <= n
  BY SmallestElement
<1> QED BY <1>1 DEF Min

\* Max is the largest number of a bounded set.
LEMMA MaxFacts ==
    ASSUME NEW K \in Nat, NEW S \in SUBSET (0..K), S # {}
    PROVE  Max(S) \in S /\ \A n \in S : n <= Max(S)
<1> DEFINE N == { K - n : n \in S }
<1>1. PICK m \in N : \A n \in N : m <= n
  <2>1. \A n \in S : K - n \in Nat
    OBVIOUS
  <2>2. N \in SUBSET Nat /\ N # {}
    BY <2>1
  <2> HIDE DEF N
  <2> QED BY <2>2, SmallestElement
<1>2. PICK x \in S : m = K - x
  BY <1>1
<1>3. ASSUME NEW y \in S PROVE x >= y /\ y <= x
  <2>1. K - y \in N
    OBVIOUS
  <2>2. m <= K - y
    BY <1>1, <2>1
  <2> QED BY <1>2, <2>2
<1>4. \E z \in S : \A y \in S : z >= y
  BY <1>3
<1>5. Max(S) \in S /\ \A y \in S : Max(S) >= y
  BY <1>4 DEF Max
<1>6. ASSUME NEW y \in S PROVE y <= Max(S)
  <2>1. PICK x1 : x1 = Max(S)
    OBVIOUS
  <2>2. x1 \in S /\ x1 >= y
    BY <1>5, <2>1
  <2>3. x1 \in 0..K /\ y \in 0..K
    BY <2>2
  <2>4. y <= x1
    BY <2>2, <2>3
  <2> QED BY <2>1, <2>4
<1> QED BY <1>5, <1>6

\* g holds the keys of the Map after each of the registrations in list.
AreKeys(g, list) ==
    g = [n \in 0..Len(list) |->
            IF n = 0 THEN order
            ELSE LET keys == g[n - 1]
                     token == list[n].token
                 IN  IF Contains(keys, token) THEN keys ELSE Append(keys, token)]

\* The keys of the Map after the registrations in list: those it had, and the tokens
\* in list, each once.
LEMMA KeysAfterFacts ==
    ASSUME order \in Seq(Tokens), IsInjective(order), NEW list, Len(list) \in Nat,
           \A i \in 1..Len(list) : list[i].token \in Tokens
    PROVE  /\ KeysAfter(list) \in Seq(Tokens) /\ IsInjective(KeysAfter(list))
           /\ ToSet(KeysAfter(list)) = ToSet(order) \cup { list[i].token : i \in 1..Len(list) }
<1>0. PICK K, T : K = Len(list) /\ T = Seq(Tokens)
  OBVIOUS
<1> DEFINE After(n, keys) == IF Contains(keys, list[n].token) THEN keys
                             ELSE Append(keys, list[n].token)
           step == [n \in 1..K |-> [keys \in T |-> After(n, keys)]]
<1>1. \E g : AreKeys(g, list)
  <2>1. \A n \in 1..K : \A keys \in T : After(n, keys) \in T
    BY <1>0
  <2> HIDE DEF After
  <2>2. step \in [1..K -> [T -> T]]
    BY <2>1
  <2>3. \A n \in 1..K : \A keys \in T : step[n][keys] = After(n, keys)
    OBVIOUS
  <2> HIDE DEF step
  <2>4. PICK g \in [0..K -> T] : g[0] = order /\ \A n \in 1..K : g[n] = step[n][g[n - 1]]
    <3>1. K \in Nat /\ order \in T /\ AreSteps(step, K, T)
      BY <1>0, <2>2 DEF AreSteps
    <3>2. \E g : Iterates(g, K, T, order, step)
      BY <3>1, IterationExists
    <3> QED BY <3>2 DEF Iterates
  <2>5. \A n \in 1..K : n - 1 \in 0..K
    BY <1>0
  <2>6. \A n \in 1..K : g[n] = After(n, g[n - 1])
    BY <2>3, <2>4, <2>5
  <2>7. \A n \in 0..K : n = 0 \/ n \in 1..K
    BY <1>0
  <2>8. g = [n \in 0..K |-> IF n = 0 THEN order ELSE After(n, g[n - 1])]
    BY <2>4, <2>6, <2>7
  <2> QED BY <1>0, <2>8 DEF AreKeys, After
<1>2. PICK g : AreKeys(g, list) /\ KeysAfter(list) = g[Len(list)]
  BY <1>1 DEF KeysAfter, AreKeys
<1>3. g[0] = order /\ \A n \in 1..K : g[n] = After(n, g[n - 1])
  <2>1. \A n \in 1..K : n \in 0..K /\ n # 0
    BY <1>0
  <2>2. 0 \in 0..K
    BY <1>0
  <2> QED BY <1>0, <1>2, <2>1, <2>2 DEF AreKeys
<1> DEFINE OK(n) == /\ g[n] \in T /\ IsInjective(g[n])
                    /\ ToSet(g[n]) = ToSet(order) \cup { list[i].token : i \in 1..n }
           P == { n \in 0..K : OK(n) }
<1>4. 0 \in P
  BY <1>0, <1>3
<1>5. ASSUME NEW n \in 1..K, n - 1 \in P PROVE n \in P
  <2>1. PICK h, t : h = g[n - 1] /\ t = list[n].token
    OBVIOUS
  <2>2. /\ OK(n - 1) /\ h \in T /\ t \in Tokens
        /\ { list[i].token : i \in 1..n } = { list[i].token : i \in 1..n - 1 } \cup {t}
    <3>1. \A i \in 1..n : i \in 1..n - 1 \/ i = n
      BY <1>0
    <3>2. n \in 1..n /\ \A i \in 1..n - 1 : i \in 1..n
      BY <1>0
    <3> QED BY <1>0, <1>5, <2>1, <3>1, <3>2
  <2>3. Contains(h, t) <=> t \in ToSet(h)
    <3>1. DOMAIN h = 1..Len(h)
      BY <2>2, TokenSeqs
    <3> QED BY <3>1 DEF Contains, ToSet
  <2>4. g[n] = IF t \in ToSet(h) THEN h ELSE Append(h, t)
    BY <1>3, <2>1, <2>3 DEF After
  <2>5. OK(n)
    <3>1. CASE t \in ToSet(h)
      <4>1. ToSet(h) = ToSet(h) \cup {t}
        BY <3>1
      <4> QED BY <2>1, <2>2, <2>4, <3>1, <4>1
    <3>2. CASE t \notin ToSet(h)
      <4>1. g[n] = Append(h, t) /\ h \in Seq(Tokens)
        BY <1>0, <2>2, <2>4, <3>2
      <4>2. /\ Append(h, t) \in T /\ IsInjective(Append(h, t))
            /\ ToSet(Append(h, t)) = ToSet(h) \cup {t}
        <5>1. Append(h, t) \in Seq(Tokens)
          BY <2>2, <4>1, TokenSeqs
        <5>2. IsInjective(h)
          BY <2>1, <2>2
        <5> QED BY <1>0, <2>2, <3>2, <4>1, <5>1, <5>2, AppendSet
      <4> QED BY <2>1, <2>2, <4>1, <4>2
    <3> QED BY <3>1, <3>2
  <2> QED BY <2>5
<1>6. OK(K)
  <2>1. \A n \in 0..K : n \in P
    <3> HIDE DEF P
    <3>1. K \in Nat
      BY <1>0
    <3> QED BY ONLY <3>1, <1>4, <1>5, UpTo
  <2>2. K \in 0..K
    BY <1>0
  <2>3. K \in P
    BY <2>1, <2>2
  <2> QED BY <2>3
<1> QED BY <1>0, <1>2, <1>6

------------------------------------------------------------------------------
(***************************************************************************)
(* compileModules(), for any modules, metadata and entries.                *)
(*                                                                         *)
(* The inductive invariant reads the stack of the visits in progress: each *)
(* was imported by the one below it, and holds of its merged metadata what *)
(* it has not imported yet.  A visit that is over left each of its imports *)
(* visited, or in progress; then that one may import it in turn            *)
(* (MayReach).  When the root's visit is over, the stack is empty, so      *)
(* every module that the root reaches is visited; and the root registered  *)
(* last.                                                                   *)
(***************************************************************************)

\* A call of visit() with the metadata merged.
Visit == [module : ModuleClasses, imports : Seq(Entries),
          providers : Seq(Registration), controllers : Seq(Controllers)]

\* The types of the compiler's state.
ModulesTypes ==
    /\ visits \in Seq(Visit) /\ modules \in Seq(ModuleClasses)
    /\ controllers \in Seq(Controllers)
    /\ from \in [Tokens -> ModuleClasses \cup {Nobody}]
    /\ root \in Roots

\* The visit of m is in progress, or it is over.
Visiting(vs, m) == \E i \in 1..Len(vs) : vs[i].module = m
Visited(m) == m \in ToSet(modules) /\ ~Visiting(visits, m)

\* What the visit v registers, and that it has all that its module declares.
Registers(v) == TokensOf(v.providers) \cup ToSet(v.controllers)
Covers(v, ms) ==
    /\ v.module \in ToSet(ms)
    /\ ProvidedBy(v.module) \subseteq Registers(v)
    /\ ToSet(MetadataOf(v.module).controllers) \subseteq ToSet(v.controllers)
    /\ ModulesOf(v.imports) \subseteq MayImport[v.module]
    /\ Imports[v.module] \subseteq ModulesOf(v.imports) \cup ToSet(ms)

\* The visits in progress are of different modules, each one reached from those
\* before it, and the first one is of the root, with all that it brings.
VisitsOK(vs, ms) ==
    /\ \A i \in 1..Len(vs) : Covers(vs[i], ms)
    /\ \A i, j \in 1..Len(vs) :
          i < j => /\ vs[i].module # vs[j].module
                   /\ vs[j].module \in MayReach[vs[i].module]
    /\ vs # << >> =>
          /\ vs[1].module = root.module
          /\ vs[1].providers = Merged(root, "providers")
          /\ vs[1].controllers = Merged(root, "controllers")
    /\ ms # << >> => root.module \in ToSet(ms)

\* The modules that m imports, directly or, if it is on no cycle, indirectly.
Below(m) == IF m \in MayReach[m] THEN Imports[m] ELSE Reach(Imports, m)

\* When the visit of a module is over, so are those of its imports, but for
\* those that import it in turn, and all it declares is registered.
VisitedOK(m) ==
    /\ Imports[m] \subseteq ToSet(modules)
    /\ \A k \in Below(m) : Visited(k) \/ m \in MayReach[k]
    /\ \A t \in ProvidedBy(m) : providers[t] # Missing
    /\ \A t \in ProvidedBy(m) : from[t] \in Below(m) \ {m} => m \in MayReach[from[t]]
    /\ ToSet(MetadataOf(m).controllers) \subseteq ToSet(controllers)

\* The root's providers come last, and its controllers after them.
RootWins ==
    \A t \in TokensOf(root.meta.providers) \ ToSet(Merged(root, "controllers")) :
        LET is == { i \in DOMAIN root.meta.providers :
                        root.meta.providers[i].token = t }
        IN  providers[t] = root.meta.providers[Max(is)].provider

\* The inductive invariant of compileModules(): the types, the stack of visits, what the
\* visits that are over have left, and the root that comes last.
ModulesIInv ==
    /\ ModulesTypes /\ IsInjective(modules) /\ VisitsOK(visits, modules)
    /\ \A t \in Tokens : from[t] = Nobody <=> providers[t] = Missing
    /\ \A m \in ModuleClasses : Visited(m) => VisitedOK(m)
    /\ Compiled => RootWins

\* The elements of two sequences one after the other.
LEMMA ConcatFacts ==
    ASSUME NEW S, NEW a \in Seq(S), NEW b \in Seq(S)
    PROVE  /\ a \o b \in Seq(S) /\ Len(a \o b) = Len(a) + Len(b)
           /\ Len(a) \in Nat /\ Len(b) \in Nat
           /\ \A i \in 1..Len(a) : (a \o b)[i] = a[i] /\ i \in 1..Len(a \o b)
           /\ \A i \in 1..Len(b) : (a \o b)[Len(a) + i] = b[i] /\ Len(a) + i \in 1..Len(a \o b)
           /\ \A i \in 1..Len(a \o b) : i \in 1..Len(a) \/ \E j \in 1..Len(b) : i = Len(a) + j
           /\ DOMAIN (a \o b) = 1..Len(a \o b) /\ DOMAIN a = 1..Len(a) /\ DOMAIN b = 1..Len(b)
           /\ ToSet(a \o b) = ToSet(a) \cup ToSet(b)
<1>1. PICK c, m, n : c = a \o b /\ m = Len(a) /\ n = Len(b)
  OBVIOUS
<1>2. /\ c \in Seq(S) /\ m \in Nat /\ n \in Nat /\ Len(c) = m + n
      /\ DOMAIN c = 1..m + n /\ DOMAIN a = 1..m /\ DOMAIN b = 1..n
      /\ \A i \in 1..m + n : c[i] = IF i <= m THEN a[i] ELSE b[i - m]
  BY <1>1
<1>3. \A i \in 1..m : i \in 1..m + n /\ c[i] = a[i]
  BY <1>2
<1>4. \A i \in 1..n : m + i \in 1..m + n /\ c[m + i] = b[i]
  <2> SUFFICES ASSUME NEW i \in 1..n PROVE m + i \in 1..m + n /\ c[m + i] = b[i]
    OBVIOUS
  <2>1. m + i \in 1..m + n /\ ~(m + i <= m) /\ (m + i) - m = i
    BY <1>2
  <2> QED BY <1>2, <2>1
<1>5. ASSUME NEW i \in 1..m + n PROVE i \in 1..m \/ \E j \in 1..n : i = m + j
  <2>1. CASE i <= m
    BY <1>2, <2>1
  <2>2. CASE ~(i <= m)
    <3>1. i - m \in 1..n /\ i = m + (i - m)
      BY <1>2, <2>2
    <3> QED BY <3>1
  <2> QED BY <2>1, <2>2
<1>6. ToSet(c) = ToSet(a) \cup ToSet(b)
  <2>1. ASSUME NEW x \in ToSet(c) PROVE x \in ToSet(a) \cup ToSet(b)
    <3>1. PICK i \in 1..m + n : x = c[i]
      BY <1>2, <2>1 DEF ToSet
    <3>2. CASE i \in 1..m
      <4>1. x = a[i]
        BY <1>3, <3>1, <3>2
      <4> QED BY <1>2, <3>2, <4>1 DEF ToSet
    <3>3. ASSUME NEW j \in 1..n, i = m + j PROVE x \in ToSet(b)
      <4>1. x = b[j]
        BY <1>4, <3>1, <3>3
      <4> QED BY <1>2, <4>1 DEF ToSet
    <3> QED BY <1>5, <3>2, <3>3
  <2>2. ASSUME NEW x \in ToSet(a) PROVE x \in ToSet(c)
    <3>1. PICK i \in 1..m : x = a[i]
      BY <1>2, <2>2 DEF ToSet
    <3>2. i \in 1..m + n /\ x = c[i]
      BY <1>3, <3>1
    <3> QED BY <1>2, <3>2 DEF ToSet
  <2>3. ASSUME NEW x \in ToSet(b) PROVE x \in ToSet(c)
    <3>1. PICK i \in 1..n : x = b[i]
      BY <1>2, <2>3 DEF ToSet
    <3>2. m + i \in 1..m + n /\ x = c[m + i]
      BY <1>4, <3>1
    <3> QED BY <1>2, <3>2 DEF ToSet
  <2> QED BY <2>1, <2>2, <2>3
<1> QED BY <1>1, <1>2, <1>3, <1>4, <1>5, <1>6

\* The tokens and the modules of a list, as the images of its elements.
LEMMA ProjectedSets ==
    ASSUME NEW list
    PROVE  /\ TokensOf(list) = { x.token : x \in ToSet(list) }
           /\ ModulesOf(list) = { x.module : x \in ToSet(list) }
BY DEF TokensOf, ModulesOf, ToSet

\* A registration has a token and a provider.
LEMMA RegistrationFacts ==
    ASSUME NEW r \in Registration
    PROVE  r.token \in Tokens /\ r.provider \in Provider
<1>1. \A t \in Tokens : DepsOf[t] \in SeqOf(Tokens, MaxDeps)
  BY ModulesAssumption
<1>2. PICK t \in Tokens : r = Class(t) \/ r = Value(t)
  BY DEF Registration
<1> QED BY <1>1, <1>2 DEF Class, Value, Provider

\* What modules and entries declare is metadata.
LEMMA MetadataFacts ==
    /\ \A m \in ModuleClasses : IsMetadata(MetadataOf(m))
    /\ \A e \in Entries : e.module \in ModuleClasses /\ IsMetadata(e.meta)
<1>1. IsMetadata(NoMetadata)
  <2>1. /\ << >> \in Seq(Entries) /\ << >> \in Seq(Registration)
        /\ << >> \in Seq(Controllers)
    OBVIOUS
  <2> QED BY <2>1 DEF IsMetadata, NoMetadata
<1> QED BY <1>1, ModulesAssumption DEF MetadataOf

\* The modules, tokens and controllers of a list are those of the program.
LEMMA ListFacts ==
    /\ \A list \in Seq(Entries) : ModulesOf(list) \subseteq ModuleClasses
    /\ \A list \in Seq(Registration) : TokensOf(list) \subseteq Tokens
    /\ \A list \in Seq(Controllers) : ToSet(list) \subseteq Controllers
<1>1. ASSUME NEW list \in Seq(Entries) PROVE ModulesOf(list) \subseteq ModuleClasses
  <2>1. \A i \in DOMAIN list : list[i] \in Entries
    OBVIOUS
  <2> QED BY <2>1, MetadataFacts DEF ModulesOf
<1>2. ASSUME NEW list \in Seq(Registration) PROVE TokensOf(list) \subseteq Tokens
  <2>1. \A i \in DOMAIN list : list[i] \in Registration
    OBVIOUS
  <2> QED BY <2>1, RegistrationFacts DEF TokensOf
<1>3. ASSUME NEW list \in Seq(Controllers) PROVE ToSet(list) \subseteq Controllers
  BY DEF ToSet
<1> QED BY <1>1, <1>2, <1>3

\* The merged metadata of an entry: what its module declares and what it adds.
LEMMA MergedFacts ==
    ASSUME NEW e \in Entries
    PROVE  /\ Merged(e, "imports") \in Seq(Entries)
           /\ Merged(e, "providers") \in Seq(Registration)
           /\ Merged(e, "controllers") \in Seq(Controllers)
           /\ ModulesOf(Merged(e, "imports"))
                 = ModulesOf(MetadataOf(e.module).imports) \cup ModulesOf(e.meta.imports)
           /\ TokensOf(Merged(e, "providers"))
                 = TokensOf(MetadataOf(e.module).providers) \cup TokensOf(e.meta.providers)
           /\ ToSet(Merged(e, "controllers"))
                 = ToSet(MetadataOf(e.module).controllers) \cup ToSet(e.meta.controllers)
<1>1. IsMetadata(MetadataOf(e.module)) /\ IsMetadata(e.meta)
  BY MetadataFacts
<1>2. PICK p, q : p = MetadataOf(e.module) /\ q = e.meta
  OBVIOUS
<1>3. /\ p.imports \in Seq(Entries) /\ q.imports \in Seq(Entries)
      /\ p.providers \in Seq(Registration) /\ q.providers \in Seq(Registration)
      /\ p.controllers \in Seq(Controllers) /\ q.controllers \in Seq(Controllers)
  BY <1>1, <1>2 DEF IsMetadata
<1>4. /\ Merged(e, "imports") = p.imports \o q.imports
      /\ Merged(e, "providers") = p.providers \o q.providers
      /\ Merged(e, "controllers") = p.controllers \o q.controllers
  BY <1>2 DEF Merged
<1>5. /\ p.imports \o q.imports \in Seq(Entries)
      /\ ToSet(p.imports \o q.imports) = ToSet(p.imports) \cup ToSet(q.imports)
  BY <1>3, ConcatFacts
<1>6. /\ p.providers \o q.providers \in Seq(Registration)
      /\ ToSet(p.providers \o q.providers) = ToSet(p.providers) \cup ToSet(q.providers)
  BY <1>3, ConcatFacts
<1>7. /\ p.controllers \o q.controllers \in Seq(Controllers)
      /\ ToSet(p.controllers \o q.controllers) = ToSet(p.controllers) \cup ToSet(q.controllers)
  BY <1>3, ConcatFacts
<1>8. ModulesOf(p.imports \o q.imports) = ModulesOf(p.imports) \cup ModulesOf(q.imports)
  BY <1>5, ProjectedSets
<1>9. TokensOf(p.providers \o q.providers) = TokensOf(p.providers) \cup TokensOf(q.providers)
  BY <1>6, ProjectedSets
<1> QED BY <1>2, <1>4, <1>5, <1>6, <1>7, <1>8, <1>9

\* Reach(R, m) is the least set with R[m] that is closed under R.
LEMMA ReachFacts ==
    ASSUME NEW R \in [ModuleClasses -> SUBSET ModuleClasses], NEW m \in ModuleClasses
    PROVE  /\ Reach(R, m) \subseteq ModuleClasses /\ R[m] \subseteq Reach(R, m)
           /\ \A k \in Reach(R, m) : R[k] \subseteq Reach(R, m)
           /\ \A S \in SUBSET ModuleClasses :
                 R[m] \subseteq S /\ (\A i \in S : R[i] \subseteq S) => Reach(R, m) \subseteq S
           /\ \A k \in Reach(R, m) : Reach(R, k) \subseteq Reach(R, m)
<1>1. Reach(R, m) \subseteq ModuleClasses
  BY DEF Reach
<1>2. R[m] \subseteq Reach(R, m)
  BY DEF Reach
<1>3. ASSUME NEW k \in Reach(R, m) PROVE R[k] \subseteq Reach(R, m)
  <2>1. ASSUME NEW x \in R[k] PROVE x \in Reach(R, m)
    <3>1. k \in ModuleClasses /\ x \in ModuleClasses
      BY <1>1, <2>1
    <3>2. ASSUME NEW S \in SUBSET ModuleClasses, R[m] \subseteq S,
                 \A i \in S : R[i] \subseteq S
          PROVE  x \in S
      BY <1>3, <2>1, <3>2 DEF Reach
    <3> QED BY <3>1, <3>2 DEF Reach
  <2> QED BY <2>1
<1>4. ASSUME NEW S \in SUBSET ModuleClasses, R[m] \subseteq S, \A i \in S : R[i] \subseteq S
      PROVE  Reach(R, m) \subseteq S
  BY <1>4 DEF Reach
<1>5. ASSUME NEW k \in Reach(R, m) PROVE Reach(R, k) \subseteq Reach(R, m)
  <2>1. k \in ModuleClasses
    BY <1>1
  <2>2. R[k] \subseteq Reach(R, m) /\ \A i \in Reach(R, m) : R[i] \subseteq Reach(R, m)
    BY <1>3
  <2> QED BY <1>1, <2>1, <2>2 DEF Reach
<1> QED BY <1>1, <1>2, <1>3, <1>4, <1>5

\* A module imports what it may import.
LEMMA ImportsFacts ==
    ASSUME ModulesTypes
    PROVE  /\ Imports \in [ModuleClasses -> SUBSET ModuleClasses]
           /\ MayImport \in [ModuleClasses -> SUBSET ModuleClasses]
           /\ \A m \in ModuleClasses : Imports[m] \subseteq MayImport[m]
<1>1. root \in Entries /\ root.module \in ModuleClasses
  BY ModulesAssumption DEF ModulesTypes
<1>2. ASSUME NEW m \in ModuleClasses
      PROVE  ModulesOf(MetadataOf(m).imports) \subseteq ModuleClasses
  BY MetadataFacts, ListFacts DEF IsMetadata
<1>3. ASSUME NEW e \in Entries PROVE ModulesOf(e.meta.imports) \subseteq ModuleClasses
  BY MetadataFacts, ListFacts DEF IsMetadata
<1>4. Imports \in [ModuleClasses -> SUBSET ModuleClasses]
  <2>1. \A m \in ModuleClasses :
           ModulesOf(MetadataOf(m).imports)
             \cup (IF m = root.module THEN ModulesOf(root.meta.imports) ELSE {})
                \subseteq ModuleClasses
    BY <1>1, <1>2, <1>3
  <2> QED BY <2>1 DEF Imports
<1>5. MayImport \in [ModuleClasses -> SUBSET ModuleClasses]
  <2>1. ASSUME NEW m \in ModuleClasses
        PROVE  ModulesOf(MetadataOf(m).imports)
                 \cup UNION { ModulesOf(e.meta.imports) : e \in { f \in Entries : f.module = m } }
               \in SUBSET ModuleClasses
    BY <1>2, <1>3
  <2> QED BY <2>1 DEF MayImport
<1>6. ASSUME NEW m \in ModuleClasses PROVE Imports[m] \subseteq MayImport[m]
  BY <1>1 DEF Imports, MayImport
<1> QED BY <1>4, <1>5, <1>6

\* What m may reach is closed under imports.
LEMMA MayReachFacts ==
    ASSUME ModulesTypes, NEW m \in ModuleClasses
    PROVE  /\ MayReach[m] \subseteq ModuleClasses
           /\ MayImport[m] \subseteq MayReach[m] /\ Imports[m] \subseteq MayReach[m]
           /\ \A k \in MayReach[m] : /\ MayReach[k] \subseteq MayReach[m]
                                     /\ Imports[k] \subseteq MayReach[m]
                                     /\ MayImport[k] \subseteq MayReach[m]
<1>1. \A k \in ModuleClasses : MayReach[k] = Reach(MayImport, k)
  BY DEF MayReach
<1> QED BY <1>1, ImportsFacts, ReachFacts

\* Facts about stacks of visits.
LEMMA VisitSeqs ==
    ASSUME NEW s \in Seq(Visit)
    PROVE  /\ Len(s) \in Nat /\ DOMAIN s = 1..Len(s) /\ \A i \in 1..Len(s) : s[i] \in Visit
           /\ s = << >> <=> Len(s) = 0
           /\ \A v \in Visit : /\ Append(s, v) \in Seq(Visit) /\ Len(Append(s, v)) = Len(s) + 1
                               /\ Append(s, v)[Len(s) + 1] = v
                               /\ \A i \in 1..Len(s) : Append(s, v)[i] = s[i]
           /\ s # << >> => /\ Front(s) \in Seq(Visit) /\ Len(Front(s)) = Len(s) - 1
                           /\ \A i \in 1..Len(s) - 1 : Front(s)[i] = s[i]
                           /\ Len(s) \in 1..Len(s) /\ Last(s) = s[Len(s)]
<1>1. /\ Len(s) \in Nat /\ DOMAIN s = 1..Len(s) /\ \A i \in 1..Len(s) : s[i] \in Visit
      /\ s = << >> <=> Len(s) = 0
  OBVIOUS
<1>2. ASSUME NEW x \in Visit
      PROVE  /\ Append(s, x) \in Seq(Visit) /\ Len(Append(s, x)) = Len(s) + 1
             /\ Append(s, x)[Len(s) + 1] = x
             /\ \A i \in 1..Len(s) : Append(s, x)[i] = s[i]
  OBVIOUS
<1>3. ASSUME s # << >>
      PROVE  /\ Front(s) \in Seq(Visit) /\ Len(Front(s)) = Len(s) - 1
             /\ \A i \in 1..Len(s) - 1 : Front(s)[i] = s[i]
             /\ Len(s) \in 1..Len(s) /\ Last(s) = s[Len(s)]
  <2>1. Len(s) - 1 \in 0..Len(s) /\ Len(s) \in 1..Len(s)
    BY <1>1, <1>3
  <2> QED BY <1>1, <2>1 DEF Front, Last
<1> QED BY <1>1, <1>2, <1>3

\* The parts of a visit.
LEMMA VisitFacts ==
    ASSUME NEW v \in Visit
    PROVE  /\ v.module \in ModuleClasses /\ v.imports \in Seq(Entries)
           /\ v.providers \in Seq(Registration) /\ v.controllers \in Seq(Controllers)
           /\ Registers(v) \subseteq Tokens
<1>1. /\ v.module \in ModuleClasses /\ v.imports \in Seq(Entries)
      /\ v.providers \in Seq(Registration) /\ v.controllers \in Seq(Controllers)
  BY DEF Visit
<1> QED BY <1>1, ListFacts, ModulesAssumption DEF Registers

\* The visit of the entry e, as it starts.
Started(e) == [ module      |-> e.module,
                imports     |-> Merged(e, "imports"),
                providers   |-> Merged(e, "providers"),
                controllers |-> Merged(e, "controllers") ]

\* A visit that starts has all that its module declares before it.
LEMMA StartedFacts ==
    ASSUME ModulesTypes, NEW e \in Entries, e = root \/ e.module # root.module,
           NEW ms, e.module \in ToSet(ms)
    PROVE  Started(e) \in Visit /\ Covers(Started(e), ms)
<1>1. PICK v, m : v = Started(e) /\ m = e.module
  OBVIOUS
<1>2. /\ v.module = m /\ v.imports = Merged(e, "imports")
      /\ v.providers = Merged(e, "providers") /\ v.controllers = Merged(e, "controllers")
  BY <1>1 DEF Started
<1>3. m \in ModuleClasses
  BY <1>1, MetadataFacts
<1>4. v \in Visit
  BY <1>1, <1>3, MergedFacts DEF Started, Visit
<1>5. ProvidedBy(m) \subseteq Registers(v)
  <2>1. ProvidedBy(m) = TokensOf(MetadataOf(m).providers) \cup ToSet(MetadataOf(m).controllers)
            \cup (IF m = root.module
                  THEN TokensOf(root.meta.providers) \cup ToSet(root.meta.controllers) ELSE {})
    BY DEF ProvidedBy
  <2>2. Registers(v) = TokensOf(MetadataOf(m).providers) \cup TokensOf(e.meta.providers)
            \cup ToSet(MetadataOf(m).controllers) \cup ToSet(e.meta.controllers)
    BY <1>1, <1>2, MergedFacts DEF Registers
  <2> QED BY <1>1, <2>1, <2>2
<1>6. ToSet(MetadataOf(m).controllers) \subseteq ToSet(v.controllers)
  BY <1>1, <1>2, MergedFacts
<1>7. ModulesOf(v.imports) = ModulesOf(MetadataOf(m).imports) \cup ModulesOf(e.meta.imports)
  BY <1>1, <1>2, MergedFacts
<1>8. ModulesOf(v.imports) \subseteq MayImport[m]
  BY <1>1, <1>3, <1>7 DEF MayImport
<1>9. Imports[m] \subseteq ModulesOf(v.imports)
  BY <1>1, <1>3, <1>7 DEF Imports
<1> QED BY <1>1, <1>2, <1>4, <1>5, <1>6, <1>8, <1>9 DEF Covers

\* A visit that starts is on top of the one that imports it.
LEMMA PushVisit ==
    ASSUME ModulesTypes, NEW vs \in Seq(Visit), NEW ms, VisitsOK(vs, ms),
           NEW e \in Entries, e.module \in ToSet(ms),
           \/ vs = << >> /\ e = root
           \/ vs # << >> /\ e.module # root.module /\ e.module \in MayImport[Last(vs).module],
           \A i \in 1..Len(vs) : vs[i].module # e.module
    PROVE  /\ Append(vs, Started(e)) \in Seq(Visit)
           /\ VisitsOK(Append(vs, Started(e)), ms)
<1>1. PICK n, v, ws : n = Len(vs) /\ v = Started(e) /\ ws = Append(vs, v)
  OBVIOUS
<1>2. v \in Visit /\ Covers(v, ms) /\ v.module = e.module
  BY <1>1, StartedFacts DEF Started
<1>3. /\ n \in Nat /\ ws \in Seq(Visit) /\ Len(ws) = n + 1 /\ ws[n + 1] = v
      /\ \A i \in 1..n : ws[i] = vs[i] /\ vs[i] \in Visit
      /\ vs = << >> <=> n = 0
  BY <1>1, <1>2, VisitSeqs
<1>4. \A i \in 1..n + 1 : i \in 1..n \/ i = n + 1
  BY <1>3
<1>5. \A i \in 1..n + 1 : Covers(ws[i], ms)
  BY <1>1, <1>2, <1>3, <1>4 DEF VisitsOK
<1>6. ASSUME NEW i \in 1..n + 1, NEW j \in 1..n + 1, i < j
      PROVE  ws[i].module # ws[j].module /\ ws[j].module \in MayReach[ws[i].module]
  <2>1. CASE j \in 1..n
    <3>1. i \in 1..n
      BY <1>3, <1>6, <2>1
    <3> QED BY <1>1, <1>3, <1>6, <2>1, <3>1 DEF VisitsOK
  <2>2. CASE j = n + 1
    <3>1. i \in 1..n /\ n \in 1..n /\ n # 0
      BY <1>3, <1>6, <2>2
    <3>2. ws[i].module # ws[j].module
      BY <1>1, <1>2, <1>3, <2>2, <3>1
    <3>3. e.module \in MayImport[vs[n].module]
      BY <1>1, <1>3, <3>1 DEF Last
    <3>4. vs[i].module \in ModuleClasses /\ vs[n].module \in ModuleClasses
      BY <1>3, <3>1, VisitFacts
    <3>5. i = n \/ vs[n].module \in MayReach[vs[i].module]
      BY <1>1, <1>3, <3>1 DEF VisitsOK
    <3>6. e.module \in MayReach[vs[i].module]
      BY <3>3, <3>4, <3>5, MayReachFacts
    <3> QED BY <1>2, <1>3, <2>2, <3>1, <3>2, <3>6
  <2> QED BY <1>4, <2>1, <2>2
<1>7. /\ ws[1].module = root.module
      /\ ws[1].providers = Merged(root, "providers")
      /\ ws[1].controllers = Merged(root, "controllers")
  <2>1. CASE vs = << >>
    <3>1. ws[1] = Started(root)
      BY <1>1, <1>3, <2>1
    <3> QED BY <3>1 DEF Started
  <2>2. CASE vs # << >>
    <3>1. ws[1] = vs[1]
      BY <1>3, <2>2
    <3> QED BY <2>2, <3>1 DEF VisitsOK
  <2> QED BY <2>1, <2>2
<1>8. ms # << >> => root.module \in ToSet(ms)
  BY DEF VisitsOK
<1> QED BY <1>1, <1>3, <1>5, <1>6, <1>7, <1>8 DEF VisitsOK

\* The top visit goes on with its next import, whose module is among ms.
LEMMA DropImport ==
    ASSUME ModulesTypes, VisitsOK(visits, modules), Importing,
           NEW ms, ToSet(modules) \subseteq ToSet(ms), NextImport.module \in ToSet(ms),
           root.module \in ToSet(ms)
    PROVE  /\ NextImport \in Entries /\ WithoutImport \in Seq(Visit)
           /\ VisitsOK(WithoutImport, ms)
           /\ WithoutImport # << >> /\ Len(WithoutImport) = Len(visits)
           /\ \A i \in 1..Len(visits) : WithoutImport[i].module = visits[i].module
           /\ NextImport.module \in MayImport[Last(WithoutImport).module]
<1>1. PICK n, v, ws : n = Len(visits) /\ v = visits[n] /\ ws = WithoutImport
  OBVIOUS
<1>2. /\ visits \in Seq(Visit) /\ visits # << >> /\ n \in 1..n /\ n \in Nat
      /\ \A i \in 1..n : visits[i] \in Visit
  BY <1>1, VisitSeqs DEF ModulesTypes, Importing
<1>3. v \in Visit /\ v.imports \in Seq(Entries) /\ v.imports # << >> /\ Last(visits) = v
  BY <1>1, <1>2, VisitFacts DEF Importing, Last
<1>4. PICK w : w = [v EXCEPT !.imports = Tail(@)]
  OBVIOUS
<1>5. /\ Tail(v.imports) \in Seq(Entries) /\ NextImport = v.imports[1]
      /\ 1 \in DOMAIN v.imports /\ NextImport \in Entries
  BY <1>3 DEF NextImport
<1>6. /\ w \in Visit /\ w.module = v.module /\ w.imports = Tail(v.imports)
      /\ w.providers = v.providers /\ w.controllers = v.controllers
  BY <1>3, <1>4, <1>5 DEF Visit
<1>7. ws = [visits EXCEPT ![n] = w]
  BY <1>1, <1>2, <1>4 DEF WithoutImport
<1>8. /\ ws \in Seq(Visit) /\ Len(ws) = n /\ ws[n] = w
      /\ \A i \in 1..n : i # n => ws[i] = visits[i]
  BY <1>1, <1>2, <1>6, <1>7
<1>9. /\ ModulesOf(w.imports) \subseteq ModulesOf(v.imports)
      /\ ModulesOf(v.imports) \subseteq ModulesOf(w.imports) \cup {NextImport.module}
      /\ NextImport.module \in ModulesOf(v.imports)
  <2>1. PICK a, b : a = v.imports /\ b = Tail(v.imports)
    OBVIOUS
  <2>2. /\ a \in Seq(Entries) /\ a # << >> /\ b \in Seq(Entries) /\ Len(b) = Len(a) - 1
        /\ Len(a) \in Nat /\ Len(a) > 0 /\ DOMAIN a = 1..Len(a) /\ DOMAIN b = 1..Len(a) - 1
        /\ \A i \in 1..Len(a) - 1 : b[i] = a[i + 1]
    BY <1>3, <2>1
  <2>3. ASSUME NEW i \in 1..Len(a) - 1 PROVE b[i].module \in ModulesOf(a)
    <3>1. i + 1 \in 1..Len(a)
      BY <2>2
    <3> QED BY <2>2, <3>1 DEF ModulesOf
  <2>4. ASSUME NEW i \in 1..Len(a) PROVE i = 1 \/ a[i].module \in ModulesOf(b)
    <3>1. i = 1 \/ (i - 1 \in 1..Len(a) - 1 /\ (i - 1) + 1 = i)
      BY <2>2
    <3> QED BY <2>2, <3>1 DEF ModulesOf
  <2>5. ModulesOf(b) \subseteq ModulesOf(a)
    BY <2>2, <2>3 DEF ModulesOf
  <2>6. ModulesOf(a) \subseteq ModulesOf(b) \cup {a[1].module}
    <3>1. ModulesOf(a) = { a[i].module : i \in 1..Len(a) }
      BY <2>2 DEF ModulesOf
    <3> QED BY <2>4, <3>1
  <2>7. a[1].module \in ModulesOf(a)
    <3>1. 1 \in DOMAIN a
      BY <2>2
    <3> QED BY <3>1 DEF ModulesOf
  <2> QED BY <1>5, <1>6, <2>1, <2>5, <2>6, <2>7
<1>10. Covers(w, ms)
  <2>1. Covers(v, modules)
    BY <1>1, <1>2 DEF VisitsOK
  <2> QED BY <1>6, <1>9, <2>1 DEF Covers, Registers
<1>11. \A i \in 1..n : Covers(ws[i], ms)
  <2>1. \A i \in 1..n : Covers(visits[i], ms)
    BY <1>1 DEF VisitsOK, Covers
  <2> QED BY <1>8, <1>10, <2>1
<1>12. /\ \A i \in 1..n : ws[i].module = visits[i].module
       /\ ws[1].providers = visits[1].providers /\ ws[1].controllers = visits[1].controllers
  <2>1. 1 \in 1..n
    BY <1>2
  <2> QED BY <1>1, <1>6, <1>8, <2>1
<1>13. VisitsOK(ws, ms)
  <2>1. 1 \in 1..n
    BY <1>2
  <2>2. \A i, j \in 1..n : i < j => /\ ws[i].module # ws[j].module
                                    /\ ws[j].module \in MayReach[ws[i].module]
    BY <1>1, <1>12 DEF VisitsOK
  <2>3. /\ ws[1].module = root.module
        /\ ws[1].providers = Merged(root, "providers")
        /\ ws[1].controllers = Merged(root, "controllers")
    BY <1>2, <1>12, <2>1 DEF VisitsOK
  <2> QED BY <1>8, <1>11, <2>2, <2>3 DEF VisitsOK
<1>14. ws # << >> /\ Last(ws) = w
  BY <1>2, <1>8 DEF Last
<1>15. NextImport.module \in MayImport[w.module]
  <2>1. Covers(v, modules)
    BY <1>1, <1>2 DEF VisitsOK
  <2> QED BY <1>6, <1>9, <2>1 DEF Covers
<1> QED BY <1>1, <1>5, <1>8, <1>12, <1>13, <1>14, <1>15

\* The top visit is over.
LEMMA PopVisit ==
    ASSUME NEW vs \in Seq(Visit), NEW ms, VisitsOK(vs, ms), vs # << >>
    PROVE  Front(vs) \in Seq(Visit) /\ VisitsOK(Front(vs), ms)
<1>1. PICK n, ws : n = Len(vs) /\ ws = Front(vs)
  OBVIOUS
<1>2. /\ n \in Nat /\ n > 0 /\ ws \in Seq(Visit) /\ Len(ws) = n - 1
      /\ \A i \in 1..n - 1 : ws[i] = vs[i] /\ i \in 1..n
      /\ ws = << >> <=> n - 1 = 0
  BY <1>1, VisitSeqs
<1>3. \A i \in 1..n - 1 : Covers(ws[i], ms)
  BY <1>1, <1>2 DEF VisitsOK
<1>4. \A i, j \in 1..n - 1 : i < j => /\ ws[i].module # ws[j].module
                                      /\ ws[j].module \in MayReach[ws[i].module]
  BY <1>1, <1>2 DEF VisitsOK
<1>5. ws # << >> => 1 \in 1..n - 1
  BY <1>2
<1>6. /\ ws # << >> => /\ ws[1].module = root.module
                       /\ ws[1].providers = Merged(root, "providers")
                       /\ ws[1].controllers = Merged(root, "controllers")
      /\ ms # << >> => root.module \in ToSet(ms)
  BY <1>2, <1>5 DEF VisitsOK
<1> QED BY <1>1, <1>2, <1>3, <1>4, <1>6 DEF VisitsOK

\* An element more at the end of a sequence.
LEMMA AppendFacts ==
    ASSUME NEW S, NEW s \in Seq(S), NEW x \in S
    PROVE  /\ Append(s, x) \in Seq(S) /\ ToSet(Append(s, x)) = ToSet(s) \cup {x}
           /\ IsInjective(s) /\ x \notin ToSet(s) => IsInjective(Append(s, x))
<1>1. PICK n, a : n = Len(s) /\ a = Append(s, x)
  OBVIOUS
<1>2. /\ n \in Nat /\ DOMAIN s = 1..n /\ DOMAIN a = 1..n + 1 /\ a[n + 1] = x
      /\ a \in Seq(S) /\ \A i \in 1..n : a[i] = s[i] /\ s[i] \in S
  BY <1>1
<1>3. ToSet(a) = ToSet(s) \cup {x}
  <2>1. \A i \in 1..n + 1 : i \in 1..n \/ i = n + 1
    BY <1>2
  <2>2. \A i \in 1..n : i \in 1..n + 1
    BY <1>2
  <2>3. n + 1 \in 1..n + 1
    BY <1>2
  <2> QED BY <1>2, <2>1, <2>2, <2>3 DEF ToSet
<1>4. ASSUME IsInjective(s), x \notin ToSet(s) PROVE IsInjective(a)
  <2>1. \A i \in 1..n : s[i] # x
    BY <1>2, <1>4 DEF ToSet
  <2>2. \A i, j \in 1..n : s[i] = s[j] => i = j
    BY <1>2, <1>4 DEF IsInjective
  <2> QED BY <1>2, <2>1, <2>2 DEF IsInjective
<1> QED BY <1>1, <1>2, <1>3, <1>4

\* The stack of visits reads the state only through the root.
LEMMA VisitsPrimed ==
    ASSUME root' = root, VisitsOK(visits', modules')
    PROVE  VisitsOK(visits, modules)'
BY DEF VisitsOK, Covers, Registers, Imports, ProvidedBy, Merged

\* What modules import and provide depends on the root, which never changes.
LEMMA RootFixed ==
    ASSUME root' = root
    PROVE  /\ Imports' = Imports
           /\ \A m : ProvidedBy(m)' = ProvidedBy(m) /\ Below(m)' = Below(m)
<1>1. Imports' = Imports
  BY DEF Imports
<1>2. ASSUME NEW m PROVE ProvidedBy(m)' = ProvidedBy(m)
  BY DEF ProvidedBy
<1>3. ASSUME NEW m PROVE Below(m)' = Below(m)
  BY <1>1 DEF Below, Reach
<1> QED BY <1>1, <1>2, <1>3

\* The modules below m are modules.
LEMMA BelowFacts ==
    ASSUME ModulesTypes, NEW m \in ModuleClasses
    PROVE  Below(m) \subseteq ModuleClasses
BY ImportsFacts, ReachFacts DEF Below

\* Visits start or go on, and nothing is registered.
LEMMA VisitKeeps ==
    ASSUME ModulesIInv, UNCHANGED <<controllers, from, root, providers>>,
           visits' \in Seq(Visit), modules' \in Seq(ModuleClasses), IsInjective(modules'),
           VisitsOK(visits', modules'), visits' # << >>, ToSet(modules) \subseteq ToSet(modules'),
           \A m \in ToSet(modules) : Visiting(visits', m) <=> Visiting(visits, m),
           \A m \in ToSet(modules') \ ToSet(modules) : Visiting(visits', m)
    PROVE  ModulesIInv'
<1>1. ModulesTypes'
  BY DEF ModulesIInv, ModulesTypes
<1>2. VisitsOK(visits, modules)'
  BY VisitsPrimed
<1>3. \A m : Visited(m)' <=> Visited(m)
  BY DEF Visited, Visiting
<1>4. ASSUME NEW m \in ModuleClasses, Visited(m)' PROVE VisitedOK(m)'
  <2>1. VisitedOK(m)
    BY <1>3, <1>4 DEF ModulesIInv
  <2>2. Imports' = Imports /\ ProvidedBy(m)' = ProvidedBy(m) /\ Below(m)' = Below(m)
    BY RootFixed
  <2>3. Imports[m]' \subseteq ToSet(modules')
    BY <2>1, <2>2 DEF VisitedOK
  <2>4. \A k \in Below(m)' : Visited(k)' \/ m \in MayReach[k]
    BY <1>3, <2>1, <2>2 DEF VisitedOK
  <2>5. \A t \in ProvidedBy(m)' : /\ providers'[t] # Missing
                                  /\ from'[t] \in Below(m)' \ {m} => m \in MayReach[from'[t]]
    BY <2>1, <2>2 DEF VisitedOK
  <2> QED BY <2>1, <2>3, <2>4, <2>5 DEF VisitedOK
<1>5. ~Compiled'
  BY DEF Compiled
<1>6. \A t \in Tokens : from'[t] = Nobody <=> providers'[t] = Missing
  BY DEF ModulesIInv
<1> QED BY <1>1, <1>2, <1>4, <1>5, <1>6 DEF ModulesIInv

\* VisitRoot keeps the invariant of the modules.
LEMMA VisitRootKeeps ==
    ASSUME ModulesIInv, VisitRoot
    PROVE  ModulesIInv'
<1>1. PICK m, v : m = root.module /\ v = Started(root)
  OBVIOUS
<1>2. /\ modules = << >> /\ modules' = Append(modules, m) /\ visits' = Append(<< >>, v)
      /\ UNCHANGED <<controllers, from, root, providers>>
  BY <1>1 DEF VisitRoot, Enters, Started, kvars
<1>3. ModulesTypes /\ root \in Entries /\ m \in ModuleClasses /\ VisitsOK(visits, modules)
  BY <1>1, ModulesAssumption DEF ModulesIInv, ModulesTypes
<1>4. /\ modules' \in Seq(ModuleClasses) /\ ToSet(modules') = ToSet(modules) \cup {m}
      /\ IsInjective(modules')
  <2>1. modules \in Seq(ModuleClasses) /\ IsInjective(modules) /\ m \notin ToSet(modules)
    BY <1>2 DEF ModulesIInv, ModulesTypes, ToSet
  <2>2. /\ Append(modules, m) \in Seq(ModuleClasses)
        /\ ToSet(Append(modules, m)) = ToSet(modules) \cup {m}
        /\ IsInjective(Append(modules, m))
    BY <1>3, <2>1, AppendFacts
  <2> QED BY <1>2, <2>2
<1>5. << >> \in Seq(Visit) /\ Len(<< >>) = 0
  OBVIOUS
<1>6. VisitsOK(<< >>, modules')
  BY <1>1, <1>4, <1>5 DEF VisitsOK
<1>7. visits' \in Seq(Visit) /\ VisitsOK(visits', modules')
  <2>1. root.module \in ToSet(modules')
    BY <1>1, <1>4
  <2>2. \A i \in 1..Len(<< >>) : << >>[i].module # root.module
    BY <1>5
  <2> QED BY <1>1, <1>2, <1>3, <1>5, <1>6, <2>1, <2>2, PushVisit
<1>8. /\ Len(visits') = 1 /\ visits'[1] = v /\ visits' # << >> /\ v.module = m
  <2>1. v \in Visit
    BY <1>1, <1>3, <1>4, StartedFacts
  <2> QED BY <1>1, <1>2, <1>5, <2>1 DEF Started
<1>9. ToSet(modules) = {}
  BY <1>2 DEF ToSet
<1>10. Visiting(visits', m)
  BY <1>8 DEF Visiting
<1> QED BY <1>2, <1>4, <1>7, <1>8, <1>9, <1>10, VisitKeeps

\* An import that is skipped or visited keeps the invariant of the modules.
LEMMA ImportKeeps ==
    ASSUME ModulesIInv, SkipImport \/ VisitImport
    PROVE  ModulesIInv'
<1>1. PICK e, ws, n : e = NextImport /\ ws = WithoutImport /\ n = Len(visits)
  OBVIOUS
<1>2. /\ Importing /\ UNCHANGED <<controllers, from, root, providers>>
      /\ ModulesTypes /\ VisitsOK(visits, modules) /\ IsInjective(modules)
      /\ visits \in Seq(Visit) /\ modules \in Seq(ModuleClasses) /\ n \in Nat
  BY <1>1 DEF SkipImport, VisitImport, Enters, kvars, ModulesIInv, ModulesTypes
<1>3. root.module \in ToSet(modules)
  <2>1. visits # << >> /\ 1 \in 1..Len(visits)
    BY <1>2 DEF Importing
  <2>2. Covers(visits[1], modules)
    BY <1>2, <2>1 DEF VisitsOK
  <2>3. modules # << >>
    BY <2>2 DEF Covers, ToSet
  <2> QED BY <1>2, <2>3 DEF VisitsOK
<1>4. CASE SkipImport
  <2>1. visits' = ws /\ modules' = modules /\ e.module \in ToSet(modules)
    BY <1>1, <1>4 DEF SkipImport, Seen
  <2>2. /\ ws \in Seq(Visit) /\ VisitsOK(ws, modules) /\ ws # << >> /\ Len(ws) = n
        /\ \A i \in 1..n : ws[i].module = visits[i].module
    BY <1>1, <1>2, <1>3, <2>1, DropImport
  <2>3. \A m : Visiting(ws, m) <=> Visiting(visits, m)
    BY <1>1, <2>2 DEF Visiting
  <2> QED BY <1>2, <2>1, <2>2, <2>3, VisitKeeps
<1>5. CASE VisitImport
  <2>1. PICK v, ms : v = Started(e) /\ ms = modules'
    OBVIOUS
  <2>2. visits' = Append(ws, v) /\ ms = Append(modules, e.module) /\ e.module \notin ToSet(modules)
    BY <1>1, <1>5, <2>1 DEF VisitImport, Seen, Enters, Started
  <2>3. e \in Entries /\ e.module \in ModuleClasses
    <3>1. e \in Entries
      <4>1. PICK w : w = Last(visits)
        OBVIOUS
      <4>2. w \in Visit /\ w.imports # << >> /\ e = Head(w.imports)
        BY <1>1, <1>2, <4>1, VisitSeqs DEF Importing, NextImport
      <4> QED BY <4>2, VisitFacts
    <3> QED BY <3>1, MetadataFacts
  <2>4. /\ ms \in Seq(ModuleClasses) /\ ToSet(ms) = ToSet(modules) \cup {e.module}
        /\ IsInjective(ms)
    BY <1>2, <2>2, <2>3, AppendFacts
  <2>5. /\ ws \in Seq(Visit) /\ VisitsOK(ws, ms) /\ ws # << >> /\ Len(ws) = n
        /\ \A i \in 1..n : ws[i].module = visits[i].module
        /\ e.module \in MayImport[Last(ws).module]
    BY <1>1, <1>2, <1>3, <2>4, DropImport
  <2>6. \A i \in 1..n : ws[i].module \in ToSet(modules)
    BY <1>1, <1>2, <2>5 DEF VisitsOK, Covers
  <2>7. visits' \in Seq(Visit) /\ VisitsOK(visits', ms)
    <3>1. e.module # root.module /\ e.module \in ToSet(ms)
      BY <1>3, <2>2, <2>4
    <3>2. \A i \in 1..Len(ws) : ws[i].module # e.module
      BY <2>2, <2>5, <2>6
    <3> QED BY <1>2, <2>1, <2>2, <2>3, <2>5, <3>1, <3>2, PushVisit
  <2>8. v \in Visit /\ v.module = e.module
    <3>1. e.module # root.module /\ e.module \in ToSet(ms)
      BY <1>3, <2>2, <2>4
    <3> QED BY <1>2, <2>1, <2>3, <3>1, StartedFacts DEF Started
  <2>9. /\ Len(visits') = n + 1 /\ visits'[n + 1] = v /\ visits' # << >>
        /\ \A i \in 1..n : visits'[i] = ws[i]
    <3>1. Len(visits') = n + 1
      BY <2>2, <2>5, <2>8, VisitSeqs
    <3> QED BY <1>2, <2>2, <2>5, <2>7, <2>8, <3>1, VisitSeqs
  <2>10. \A m : Visiting(visits', m) <=> Visiting(visits, m) \/ m = e.module
    <3>1. \A i \in 1..n + 1 : i \in 1..n \/ i = n + 1
      BY <1>2
    <3>2. n + 1 \in 1..n + 1 /\ \A i \in 1..n : i \in 1..n + 1
      BY <1>2
    <3> QED BY <1>1, <2>5, <2>8, <2>9, <3>1, <3>2 DEF Visiting
  <2> QED BY <1>2, <2>1, <2>2, <2>4, <2>7, <2>9, <2>10, VisitKeeps
<1> QED BY <1>4, <1>5

------------------------------------------------------------------------------
(***************************************************************************)
(* registerModule().                                                       *)
(***************************************************************************)

\* i is the last place of the token t in list.
LastOf(list, t, i) ==
    /\ i \in 1..Len(list) /\ list[i].token = t
    /\ \A j \in 1..Len(list) : list[j].token = t => j <= i

\* Latest picks the last registration of a token.
LEMMA LatestFacts ==
    ASSUME NEW list \in Seq(Registration), NEW t \in TokensOf(list)
    PROVE  /\ \E i : LastOf(list, t, i)
           /\ \A i : LastOf(list, t, i) => Latest(list, t) = list[i].provider
           /\ Latest(list, t) \in Provider
<1> DEFINE S == { i \in DOMAIN list : list[i].token = t }
<1>1. PICK n : n = Len(list)
  OBVIOUS
<1>2. n \in Nat /\ DOMAIN list = 1..n /\ \A i \in 1..n : list[i] \in Registration
  BY <1>1
<1>3. S \in SUBSET (0..n) /\ S # {}
  <2>1. \A i \in 1..n : i \in 0..n
    BY <1>2
  <2> QED BY <1>2, <2>1 DEF TokensOf
<1>4. PICK x : x = Max(S)
  OBVIOUS
<1>5. x \in S /\ \A j \in S : j <= x
  <2> HIDE DEF S
  <2> QED BY <1>2, <1>3, <1>4, MaxFacts
<1>6. LastOf(list, t, x) /\ Latest(list, t) = list[x].provider
  BY <1>1, <1>2, <1>4, <1>5 DEF LastOf, Latest
<1>7. ASSUME NEW i, LastOf(list, t, i) PROVE i = x
  BY <1>1, <1>2, <1>6, <1>7 DEF LastOf
<1>8. list[x].provider \in Provider
  BY <1>1, <1>2, <1>6, RegistrationFacts DEF LastOf
<1> QED BY <1>6, <1>7, <1>8

\* Of two lists one after the other, the second one wins.
LEMMA LatestConcat ==
    ASSUME NEW a \in Seq(Registration), NEW b \in Seq(Registration), NEW t
    PROVE  /\ t \in TokensOf(b) => Latest(a \o b, t) = Latest(b, t)
           /\ t \in TokensOf(a) \ TokensOf(b) => Latest(a \o b, t) = Latest(a, t)
<1>1. PICK c, m, n : c = a \o b /\ m = Len(a) /\ n = Len(b)
  OBVIOUS
<1>2. /\ c \in Seq(Registration) /\ Len(c) = m + n /\ m \in Nat /\ n \in Nat
      /\ \A i \in 1..m : c[i] = a[i] /\ i \in 1..m + n
      /\ \A i \in 1..n : c[m + i] = b[i] /\ m + i \in 1..m + n
      /\ \A i \in 1..m + n : i \in 1..m \/ \E j \in 1..n : i = m + j
      /\ DOMAIN a = 1..m /\ DOMAIN b = 1..n /\ ToSet(c) = ToSet(a) \cup ToSet(b)
  <2>1. PICK k : k = Len(c)
    OBVIOUS
  <2>2. k = m + n
    BY <1>1, <2>1, ConcatFacts
  <2> QED BY <1>1, <2>1, <2>2, ConcatFacts
<1>3. TokensOf(c) = TokensOf(a) \cup TokensOf(b)
  BY <1>2, ProjectedSets
<1>4. ASSUME t \in TokensOf(b) PROVE Latest(c, t) = Latest(b, t)
  <2>1. PICK i : LastOf(b, t, i)
    BY <1>4, LatestFacts
  <2>2. i \in 1..n /\ b[i].token = t
    BY <1>1, <2>1 DEF LastOf
  <2>3. ASSUME NEW k \in 1..m + n, c[k].token = t PROVE k <= m + i
    <3>1. CASE k \in 1..m
      BY <1>2, <2>2, <3>1
    <3>2. ASSUME NEW j \in 1..n, k = m + j PROVE k <= m + i
      <4>1. b[j].token = t
        BY <1>2, <2>3, <3>2
      <4>2. j <= i
        BY <1>1, <2>1, <4>1 DEF LastOf
      <4> QED BY <1>2, <2>2, <3>2, <4>2
    <3> QED BY <1>2, <3>1, <3>2
  <2>4. LastOf(c, t, m + i)
    BY <1>2, <2>2, <2>3 DEF LastOf
  <2>5. Latest(c, t) = c[m + i].provider /\ Latest(b, t) = b[i].provider
    BY <1>2, <1>3, <1>4, <2>1, <2>4, LatestFacts
  <2> QED BY <1>2, <2>2, <2>5
<1>5. ASSUME t \in TokensOf(a) \ TokensOf(b) PROVE Latest(c, t) = Latest(a, t)
  <2>1. PICK i : LastOf(a, t, i)
    BY <1>5, LatestFacts
  <2>2. i \in 1..m /\ a[i].token = t
    BY <1>1, <2>1 DEF LastOf
  <2>3. ASSUME NEW k \in 1..m + n, c[k].token = t PROVE k <= i
    <3>1. CASE k \in 1..m
      BY <1>1, <1>2, <2>1, <2>3, <3>1 DEF LastOf
    <3>2. ASSUME NEW j \in 1..n, k = m + j PROVE FALSE
      <4>1. b[j].token = t
        BY <1>2, <2>3, <3>2
      <4> QED BY <1>2, <1>5, <4>1 DEF TokensOf
    <3> QED BY <1>2, <3>1, <3>2
  <2>4. LastOf(c, t, i)
    BY <1>2, <2>2, <2>3 DEF LastOf
  <2>5. Latest(c, t) = c[i].provider /\ Latest(a, t) = a[i].provider
    BY <1>2, <1>3, <1>5, <2>1, <2>4, LatestFacts
  <2> QED BY <1>2, <2>2, <2>5
<1> QED BY <1>1, <1>4, <1>5

\* What the visit v registers, in its order.
AsClasses(list) == [i \in DOMAIN list |-> Class(list[i])]
AllOf(v) == v.providers \o AsClasses(v.controllers)

\* What a visit registers is registered with its token.
LEMMA AllFacts ==
    ASSUME NEW v \in Visit
    PROVE  /\ AllOf(v) \in Seq(Registration) /\ TokensOf(AllOf(v)) = Registers(v)
           /\ AsClasses(v.controllers) \in Seq(Registration)
           /\ TokensOf(AsClasses(v.controllers)) = ToSet(v.controllers)
<1>1. PICK c, k : c = v.controllers /\ k = AsClasses(c)
  OBVIOUS
<1>2. /\ c \in Seq(Controllers) /\ v.providers \in Seq(Registration)
      /\ Len(c) \in Nat /\ DOMAIN c = 1..Len(c) /\ \A i \in 1..Len(c) : c[i] \in Tokens
  BY <1>1, VisitFacts, ModulesAssumption
<1>3. \A t \in Tokens : Class(t) \in Registration /\ Class(t).token = t
  BY DEF Registration, Class
<1>4. k \in Seq(Registration) /\ DOMAIN k = DOMAIN c /\ \A i \in DOMAIN c : k[i] = Class(c[i])
  BY <1>1, <1>2, <1>3 DEF AsClasses
<1>5. TokensOf(k) = ToSet(c)
  BY <1>2, <1>3, <1>4 DEF TokensOf, ToSet
<1>6. /\ v.providers \o k \in Seq(Registration)
      /\ ToSet(v.providers \o k) = ToSet(v.providers) \cup ToSet(k)
  BY <1>2, <1>4, ConcatFacts
<1>7. TokensOf(v.providers \o k) = TokensOf(v.providers) \cup TokensOf(k)
  BY <1>6, ProjectedSets
<1> QED BY <1>1, <1>4, <1>5, <1>6, <1>7 DEF AllOf, Registers

\* The module at the top of the stack is visited completely.
LEMMA RegisterModuleKeeps ==
    ASSUME ModulesIInv, ContainerTypes, RegisterModule
    PROVE  ModulesIInv'
<1>1. PICK n, v, m, all : n = Len(visits) /\ v = visits[n] /\ m = v.module /\ all = AllOf(v)
  OBVIOUS
<1>2. /\ ModulesTypes /\ VisitsOK(visits, modules) /\ visits \in Seq(Visit)
      /\ modules \in Seq(ModuleClasses) /\ controllers \in Seq(Controllers)
      /\ from \in [Tokens -> ModuleClasses \cup {Nobody}]
      /\ providers \in [Tokens -> Provider \cup {Missing}]
  BY DEF ModulesIInv, ModulesTypes, ContainerTypes
<1>3. /\ n \in Nat /\ n \in 1..n /\ visits # << >> /\ v \in Visit /\ Last(visits) = v
      /\ \A i \in 1..n : visits[i] \in Visit
  <2>1. visits # << >>
    BY DEF RegisterModule
  <2> QED BY <1>1, <1>2, <2>1, VisitSeqs
<1>4. /\ v.imports = << >> /\ visits' = Front(visits)
      /\ controllers' = controllers \o v.controllers
      /\ UNCHANGED <<modules, root>>
  BY <1>3 DEF RegisterModule
<1>5. /\ providers' = [t \in Tokens |-> IF t \in Registers(v) THEN Latest(all, t)
                                        ELSE providers[t]]
      /\ from' = [t \in Tokens |-> IF t \in Registers(v) THEN m ELSE from[t]]
  <2>1. Registers(v) = { all[i].token : i \in DOMAIN all }
    BY <1>1, <1>3, AllFacts DEF TokensOf
  <2>2. all = v.providers \o [i \in DOMAIN v.controllers |-> Class(v.controllers[i])]
    BY <1>1 DEF AllOf, AsClasses
  <2> QED BY <1>1, <1>3, <2>1, <2>2 DEF RegisterModule
<1>6. /\ m \in ModuleClasses /\ Registers(v) \subseteq Tokens /\ m # Nobody
      /\ v.controllers \in Seq(Controllers) /\ v.providers \in Seq(Registration)
      /\ all \in Seq(Registration) /\ TokensOf(all) = Registers(v)
      /\ Covers(v, modules)
  BY <1>1, <1>2, <1>3, VisitFacts, AllFacts, ModulesAssumption DEF VisitsOK
<1>7. /\ visits' \in Seq(Visit) /\ VisitsOK(visits', modules)
      /\ Len(visits') = n - 1 /\ \A i \in 1..n - 1 : visits'[i] = visits[i]
  BY <1>1, <1>2, <1>3, <1>4, PopVisit, VisitSeqs
<1>8. \A t \in Tokens : providers'[t] # Missing <=> t \in Registers(v) \/ providers[t] # Missing
  <2>1. \A p \in Provider : p # Missing
    BY DEF Provider, Missing
  <2>2. \A t \in Registers(v) : Latest(all, t) \in Provider
    BY <1>6, LatestFacts
  <2> QED BY <1>5, <2>1, <2>2
<1>9. \A t \in Tokens : from'[t] = Nobody <=> providers'[t] = Missing
  BY <1>5, <1>6, <1>8 DEF ModulesIInv
<1>10. /\ controllers' \in Seq(Controllers)
       /\ ToSet(controllers') = ToSet(controllers) \cup ToSet(v.controllers)
  BY <1>2, <1>4, <1>6, ConcatFacts
<1>11. ModulesTypes'
  BY <1>2, <1>4, <1>5, <1>6, <1>7, <1>10 DEF ModulesTypes
<1>12. VisitsOK(visits, modules)'
  BY <1>4, <1>7, VisitsPrimed
<1>13. \A k : Visited(k)' <=> Visited(k) \/ k = m
  <2>1. \A k : Visiting(visits', k) <=> Visiting(visits, k) /\ k # m
    <3>1. \A i \in 1..n : i \in 1..n - 1 \/ i = n
      BY <1>3
    <3>2. \A i \in 1..n - 1 : i \in 1..n /\ i < n
      BY <1>3
    <3>3. \A i \in 1..n - 1 : visits[i].module # m
      BY <1>1, <1>2, <1>3, <3>2 DEF VisitsOK
    <3> QED BY <1>1, <1>7, <3>1, <3>2, <3>3 DEF Visiting
  <2>2. m \in ToSet(modules) /\ modules' = modules
    BY <1>1, <1>4, <1>6 DEF Covers
  <2> QED BY <2>1, <2>2 DEF Visited
<1>14. ~Visited(m)
  BY <1>1, <1>3 DEF Visited, Visiting
<1>15. /\ Imports' = Imports
       /\ \A k : ProvidedBy(k)' = ProvidedBy(k) /\ Below(k)' = Below(k)
  BY <1>4, RootFixed
<1>16. ASSUME NEW k \in ToSet(modules) PROVE Visited(k)' \/ m \in MayReach[k]
  <2>1. CASE Visited(k)
    BY <1>13, <2>1
  <2>2. CASE ~Visited(k) /\ k # m
    <3>1. PICK i \in 1..n : visits[i].module = k
      BY <1>1, <1>16, <2>2 DEF Visited, Visiting
    <3>2. i < n
      BY <1>1, <1>3, <2>2, <3>1
    <3> QED BY <1>1, <1>2, <1>3, <3>1, <3>2 DEF VisitsOK
  <2>3. CASE k = m
    BY <1>13, <2>3
  <2> QED BY <2>1, <2>2, <2>3
<1>17. VisitedOK(m)'
  <2>1. Imports[m] \subseteq ToSet(modules)
    <3>1. ModulesOf(<< >>) = {}
      BY DEF ModulesOf
    <3> QED BY <1>1, <1>4, <1>6, <3>1 DEF Covers
  <2>2. ASSUME NEW k \in Below(m) PROVE Visited(k)' \/ m \in MayReach[k]
    <3>1. CASE m \in MayReach[m]
      BY <1>16, <2>1, <2>2, <3>1 DEF Below
    <3>2. CASE m \notin MayReach[m]
      <4> DEFINE S == { i \in ModuleClasses : i \in MayReach[m] /\ i # m /\ Visited(i)' }
      <4>1. ASSUME NEW i \in MayReach[m], i \in ToSet(modules) PROVE i \in S
        <5>1. i \in ModuleClasses /\ MayReach[i] \subseteq MayReach[m]
          BY <1>2, <1>6, MayReachFacts
        <5>2. m \notin MayReach[i] /\ i # m
          BY <3>2, <5>1
        <5> QED BY <1>16, <4>1, <5>1, <5>2
      <4>2. Imports[m] \subseteq S
        BY <1>2, <1>6, <2>1, <4>1, MayReachFacts
      <4>3. ASSUME NEW i \in S PROVE Imports[i] \subseteq S
        <5>1. Visited(i)
          BY <1>13
        <5>2. Imports[i] \subseteq ToSet(modules)
          BY <5>1 DEF ModulesIInv, VisitedOK
        <5>3. Imports[i] \subseteq MayReach[m]
          BY <1>2, <1>6, MayReachFacts
        <5> QED BY <4>1, <5>2, <5>3
      <4>4. S \in SUBSET ModuleClasses
        OBVIOUS
      <4>5. Reach(Imports, m) \subseteq S
        <5> HIDE DEF S
        <5> QED BY <1>2, <1>6, <4>2, <4>3, <4>4, ImportsFacts, ReachFacts
      <4> QED BY <2>2, <3>2, <4>5 DEF Below
    <3> QED BY <3>1, <3>2
  <2>3. ASSUME NEW t \in ProvidedBy(m) PROVE providers'[t] # Missing /\ from'[t] = m
    <3>1. t \in Registers(v) /\ t \in Tokens
      BY <1>1, <1>6, <2>3 DEF Covers
    <3> QED BY <1>5, <1>8, <3>1
  <2>4. ToSet(MetadataOf(m).controllers) \subseteq ToSet(controllers')
    BY <1>1, <1>6, <1>10 DEF Covers
  <2>5. \A k \in Below(m)' : Visited(k)' \/ m \in MayReach[k]
    BY <1>15, <2>2
  <2>6. \A t \in ProvidedBy(m)' : /\ providers'[t] # Missing
                                  /\ from'[t] \in Below(m)' \ {m} => m \in MayReach[from'[t]]
    BY <1>15, <2>3
  <2>7. Imports[m]' \subseteq ToSet(modules')
    BY <1>4, <1>15, <2>1
  <2> QED BY <2>4, <2>5, <2>6, <2>7 DEF VisitedOK
<1>18. ASSUME NEW k \in ModuleClasses, Visited(k) PROVE VisitedOK(k)'
  <2>1. VisitedOK(k)
    BY <1>18 DEF ModulesIInv
  <2>2. Imports[k]' \subseteq ToSet(modules')
    BY <1>4, <1>15, <2>1 DEF VisitedOK
  <2>3. \A j \in Below(k)' : Visited(j)' \/ k \in MayReach[j]
    BY <1>13, <1>15, <2>1 DEF VisitedOK
  <2>4. ASSUME NEW t \in ProvidedBy(k)
        PROVE  /\ providers'[t] # Missing
               /\ from'[t] \in Below(k) \ {k} => k \in MayReach[from'[t]]
    <3>1. /\ providers[t] # Missing
          /\ from[t] \in Below(k) \ {k} => k \in MayReach[from[t]]
      BY <2>1 DEF VisitedOK
    <3>2. m \in Below(k) => k \in MayReach[m]
      BY <1>14, <2>1 DEF VisitedOK
    <3>3. t \in Tokens
      <4>1. IsMetadata(MetadataOf(k)) /\ IsMetadata(root.meta)
        BY <1>2, MetadataFacts, ModulesAssumption DEF ModulesTypes
      <4> QED BY <4>1, ListFacts, ModulesAssumption DEF ProvidedBy, IsMetadata
    <3>4. providers'[t] # Missing
      BY <1>8, <3>1, <3>3
    <3>5. from'[t] = m \/ from'[t] = from[t]
      BY <1>5, <3>3
    <3> QED BY <3>1, <3>2, <3>4, <3>5
  <2>5. ToSet(MetadataOf(k).controllers) \subseteq ToSet(controllers')
    BY <1>10, <2>1 DEF VisitedOK
  <2>6. \A t \in ProvidedBy(k)' : /\ providers'[t] # Missing
                                  /\ from'[t] \in Below(k)' \ {k} => k \in MayReach[from'[t]]
    BY <1>15, <2>4
  <2> QED BY <2>2, <2>3, <2>5, <2>6 DEF VisitedOK
<1>19. ASSUME Compiled' PROVE RootWins'
  <2>1. n = 1
    <3>1. visits' = << >>
      BY <1>19 DEF Compiled
    <3>2. Len(visits') = 0
      BY <3>1
    <3> QED BY <1>3, <1>7, <3>2
  <2>2. /\ v.providers = Merged(root, "providers")
        /\ v.controllers = Merged(root, "controllers")
    BY <1>1, <1>2, <1>3, <2>1 DEF VisitsOK
  <2>3. /\ root.meta.providers \in Seq(Registration)
        /\ MetadataOf(root.module).providers \in Seq(Registration)
    BY <1>2, MetadataFacts, ModulesAssumption DEF ModulesTypes, IsMetadata
  <2>4. ASSUME NEW t \in TokensOf(root.meta.providers) \ ToSet(Merged(root, "controllers"))
        PROVE  providers'[t] = Latest(root.meta.providers, t)
    <3>1. /\ AsClasses(v.controllers) \in Seq(Registration)
          /\ TokensOf(AsClasses(v.controllers)) = ToSet(v.controllers)
      BY <1>3, AllFacts
    <3>2. t \in TokensOf(v.providers)
      <4>1. v.providers = MetadataOf(root.module).providers \o root.meta.providers
        BY <2>2 DEF Merged
      <4>2. ToSet(v.providers) = ToSet(MetadataOf(root.module).providers)
                                    \cup ToSet(root.meta.providers)
        BY <2>3, <4>1, ConcatFacts
      <4> QED BY <2>4, <4>2, ProjectedSets
    <3>3. Latest(all, t) = Latest(v.providers, t)
      BY <1>1, <1>6, <2>2, <2>4, <3>1, <3>2, LatestConcat DEF AllOf
    <3>4. Latest(v.providers, t) = Latest(root.meta.providers, t)
      BY <2>2, <2>3, <2>4, LatestConcat DEF Merged
    <3>5. t \in Registers(v) /\ t \in Tokens
      BY <1>6, <3>2 DEF Registers
    <3> QED BY <1>5, <3>3, <3>4, <3>5
  <2> QED BY <1>4, <2>4 DEF RootWins, Latest, Merged
<1>20. ASSUME NEW k \in ModuleClasses, Visited(k)' PROVE VisitedOK(k)'
  BY <1>13, <1>17, <1>18, <1>20
<1>21. IsInjective(modules')
  BY <1>4 DEF ModulesIInv
<1> QED BY <1>9, <1>11, <1>12, <1>19, <1>20, <1>21 DEF ModulesIInv

\* The container keeps a place for each token that is registered.
LEMMA RegisterModuleKeepsContainer ==
    ASSUME ModulesIInv, ContainerIInv, outcome = "none", todo = << >>, RegisterModule
    PROVE  ContainerIInv'
<1>1. PICK n, v, all : n = Len(visits) /\ v = visits[n] /\ all = AllOf(v)
  OBVIOUS
<1>2. /\ visits # << >> /\ visits \in Seq(Visit) /\ ContainerTypes /\ OrderInv
      /\ providers \in [Tokens -> Provider \cup {Missing}] /\ order \in Seq(Tokens)
  BY DEF RegisterModule, ModulesIInv, ModulesTypes, ContainerIInv, ContainerTypes
<1>3. v \in Visit /\ Last(visits) = v
  BY <1>1, <1>2, VisitSeqs
<1>4. all \in Seq(Registration) /\ TokensOf(all) = Registers(v) /\ Registers(v) \subseteq Tokens
  BY <1>1, <1>3, AllFacts, VisitFacts
<1>5. /\ providers' = [t \in Tokens |-> IF t \in Registers(v) THEN Latest(all, t)
                                        ELSE providers[t]]
      /\ order' = KeysAfter(all)
      /\ UNCHANGED <<instances, frames, resolving, todo, outcome, asked, built>>
  <2>1. Registers(v) = { all[i].token : i \in DOMAIN all }
    BY <1>4 DEF TokensOf
  <2>2. all = v.providers \o [i \in DOMAIN v.controllers |-> Class(v.controllers[i])]
    BY <1>1 DEF AllOf, AsClasses
  <2> QED BY <1>1, <1>3, <2>1, <2>2 DEF RegisterModule
<1>6. \A t \in Registers(v) : Latest(all, t) \in Provider
  BY <1>4, LatestFacts
<1>7. providers' \in [Tokens -> Provider \cup {Missing}]
  BY <1>2, <1>5, <1>6
<1>8. /\ order' \in Seq(Tokens) /\ IsInjective(order')
      /\ ToSet(order') = ToSet(order) \cup Registers(v)
  <2>1. /\ Len(all) \in Nat /\ DOMAIN all = 1..Len(all)
        /\ \A i \in 1..Len(all) : all[i] \in Registration
    BY <1>4
  <2>2. \A i \in 1..Len(all) : all[i].token \in Tokens
    BY <2>1, RegistrationFacts
  <2>3. Registers(v) = { all[i].token : i \in 1..Len(all) }
    BY <1>4, <2>1 DEF TokensOf
  <2>4. order \in Seq(Tokens) /\ IsInjective(order)
    BY <1>2 DEF OrderInv
  <2> QED BY <1>5, <2>1, <2>2, <2>3, <2>4, KeysAfterFacts
<1>9. OrderInv'
  <2>1. \A p \in Provider : p # Missing
    BY DEF Provider, Missing
  <2>2. ASSUME NEW t \in Tokens PROVE t \in ToSet(order') <=> providers'[t] # Missing
    BY <1>2, <1>5, <1>6, <1>8, <2>1 DEF OrderInv
  <2> QED BY <1>8, <2>2 DEF OrderInv
<1> QED BY <1>5, <1>7, <1>8, <1>9, RegisteredKeeps

------------------------------------------------------------------------------
(***************************************************************************)
(* Boot, for any program: the phases of create(), the wiring of the buses  *)
(* and the calls they get.                                                 *)
(*                                                                         *)
(* A call that finds no handler was early or there is none; the events     *)
(* that are being published have each handler behind or before them.  The  *)
(* routes of the server are a function of the controllers that the         *)
(* compiler registered.                                                    *)
(***************************************************************************)

\* The handlers of handlers that the application has.
Real(handlers) == { t \in handlers : providers[t].kind = "class" }

\* Nothing is resolved while modules are compiled; instantiateAll() leaves no
\* token without an instance.
BootPhaseInv ==
    /\ phase \in {"compile", "instantiate", "hooks", "wired", "serving", "rejected"}
    /\ phase = "compile" => todo = << >> /\ outcome = "none"
    /\ \A t \in Tokens : providers[t] # Missing =>
          /\ phase = "instantiate" /\ outcome \in {"none", "ok"} =>
                Has(t) \/ t \in ToSet(todo)
          /\ phase \in {"hooks", "wired", "serving"} => Has(t)
    /\ \A t \in Tokens : Has(t) => providers[t] # Missing
    /\ hooks \in 0..Len(instances)

\* The buses have all the handlers from the wiring on, and none before.
WiredInv ==
    /\ phase \in {"wired", "serving"} /\ providers[Bus] # Missing =>
          /\ wired = Real(EventHandlers)
          /\ IF Real(CommandHandlers) = {} THEN commander = Nobody
             ELSE commander \in Real(CommandHandlers)
    /\ (phase \notin {"wired", "serving"} \/ providers[Bus] = Missing) =>
          wired = {} /\ commander = Nobody

\* The calls of the buses.
CallRecord ==
    [pc : {"idle", "publishing", "done", "no handler"}, early : BOOLEAN,
     todo : SUBSET EventHandlers, ran : SUBSET EventHandlers,
     by : CommandHandlers \cup {Nobody}]

\* A call that was not early has all the handlers before it or behind it.
CallOK(k) ==
    /\ k.by # Nobody => k.by \in Real(CommandHandlers) /\ k.pc = "done"
    /\ k.pc = "no handler" => k.early \/ Real(CommandHandlers) = {}
    /\ k.pc = "done" => k.todo = {}
    /\ k.pc \in {"publishing", "done"} /\ k.by = Nobody /\ ~k.early
          => k.todo \cup k.ran = Real(EventHandlers)

\* All calls are sound, and there are none while the modules are compiled.
CallsInv ==
    /\ call \in [Callers -> CallRecord]
    /\ \A c \in Callers : CallOK(call[c])
    /\ phase = "compile" => \A c \in Callers : call[c].pc = "idle" /\ call[c].by = Nobody

\* The root, the declarations and the options are those of one program.
ProgramInv == \E p \in Programs :
    root = p.root /\ declared = p.declared /\ options = p.options

\* The server has the routes of the registered controllers once it is built.
RoutesInv ==
    routes = IF phase = "serving" THEN RoutesMap(DeclarationsOf(controllers), options)
             ELSE << >>

\* The inductive invariant of Boot.
BootIInv ==
    /\ ContainerIInv /\ ModulesIInv
    /\ BootPhaseInv /\ WiredInv /\ CallsInv /\ ProgramInv /\ RoutesInv

\* A step that leaves the compiler and the providers alone keeps its invariant.
LEMMA ModulesIdle ==
    ASSUME ModulesIInv, UNCHANGED mvars, UNCHANGED providers
    PROVE  ModulesIInv'
<1>1. UNCHANGED <<visits, modules, controllers, from, root, providers>>
  BY DEF mvars
<1>2. ModulesTypes'
  BY <1>1 DEF ModulesIInv, ModulesTypes
<1>3. VisitsOK(visits', modules')
  BY <1>1 DEF ModulesIInv
<1>4. VisitsOK(visits, modules)'
  BY <1>1, <1>3, VisitsPrimed
<1>5. \A m : Visited(m)' <=> Visited(m)
  BY <1>1 DEF Visited, Visiting
<1>6. ASSUME NEW m \in ModuleClasses, Visited(m)' PROVE VisitedOK(m)'
  <2>1. VisitedOK(m)
    BY <1>5, <1>6 DEF ModulesIInv
  <2>2. Imports' = Imports /\ ProvidedBy(m)' = ProvidedBy(m) /\ Below(m)' = Below(m)
    BY <1>1, RootFixed
  <2> QED BY <1>1, <1>5, <2>1, <2>2 DEF VisitedOK
<1>7. Compiled' => RootWins'
  BY <1>1 DEF ModulesIInv, Compiled, RootWins, Merged
<1> QED BY <1>1, <1>2, <1>4, <1>6, <1>7 DEF ModulesIInv

\* Nothing is constructed before the modules are compiled.
LEMMA CompileFacts ==
    ASSUME BootIInv, phase = "compile"
    PROVE  /\ todo = << >> /\ outcome = "none" /\ instances = << >> /\ hooks = 0
           /\ wired = {} /\ commander = Nobody /\ \A t : ~Has(t)
           /\ \A c \in Callers : call[c].pc = "idle" /\ call[c].by = Nobody
<1>1. todo = << >> /\ outcome = "none"
  BY DEF BootIInv, BootPhaseInv
<1>2. instances = << >>
  BY <1>1 DEF BootIInv, ContainerIInv, PhaseInv
<1>3. \A t : ~Has(t)
  BY <1>2 DEF Has, ToSet
<1>4. wired = {} /\ commander = Nobody
  BY DEF BootIInv, WiredInv
<1>5. hooks = 0
  <2>1. Len(instances) = 0 /\ hooks \in 0..Len(instances)
    BY <1>2 DEF BootIInv, BootPhaseInv
  <2> QED BY <2>1
<1>6. \A c \in Callers : call[c].pc = "idle" /\ call[c].by = Nobody
  BY DEF BootIInv, CallsInv
<1> QED BY <1>1, <1>2, <1>3, <1>4, <1>5, <1>6

\* A step of the compiler keeps the invariant.
LEMMA CompileModulesKeeps ==
    ASSUME BootIInv, CompileModules
    PROVE  BootIInv'
<1>1. /\ phase = "compile" /\ Compile
      /\ UNCHANGED <<declared, options, phase, hooks, wired, commander, routes, call>>
  BY DEF CompileModules, cvars, bvars
<1>2. /\ todo = << >> /\ outcome = "none" /\ instances = << >> /\ hooks = 0
      /\ wired = {} /\ commander = Nobody /\ \A t : ~Has(t)
      /\ \A c \in Callers : call[c].pc = "idle" /\ call[c].by = Nobody
  BY <1>1, CompileFacts
<1>3. ModulesIInv /\ ContainerIInv /\ ContainerTypes
  BY DEF BootIInv, ContainerIInv
<1>4. ContainerIInv' /\ ModulesIInv' /\ root' = root /\ UNCHANGED <<todo, outcome, instances>>
  <2>1. CASE VisitRoot
    BY <1>3, <2>1, VisitRootKeeps, IdleKeeps DEF VisitRoot, kvars
  <2>2. CASE SkipImport
    BY <1>3, <2>2, ImportKeeps, IdleKeeps DEF SkipImport, kvars
  <2>3. CASE VisitImport
    BY <1>3, <2>3, ImportKeeps, IdleKeeps DEF VisitImport, kvars
  <2>4. CASE RegisterModule
    <3>1. root' = root /\ UNCHANGED <<todo, outcome, instances>>
      BY <2>4 DEF RegisterModule
    <3> QED BY <1>2, <1>3, <2>4, <3>1, RegisterModuleKeeps, RegisterModuleKeepsContainer
  <2> QED BY <1>1, <2>1, <2>2, <2>3, <2>4 DEF Compile
<1>5. BootPhaseInv'
  <2>1. \A t : ~Has(t)'
    BY <1>2, <1>4 DEF Has
  <2>2. hooks' \in 0..Len(instances')
    BY <1>1, <1>4 DEF BootIInv, BootPhaseInv
  <2>3. phase' = "compile" /\ todo' = << >> /\ outcome' = "none"
    BY <1>1, <1>2, <1>4
  <2> QED BY <2>1, <2>2, <2>3 DEF BootPhaseInv
<1>6. WiredInv'
  BY <1>1, <1>2 DEF WiredInv
<1>7. CallsInv'
  BY <1>1, <1>2 DEF BootIInv, CallsInv, CallOK, CallRecord
<1>8. ProgramInv' /\ RoutesInv'
  BY <1>1, <1>4 DEF BootIInv, ProgramInv, RoutesInv
<1> QED BY <1>4, <1>5, <1>6, <1>7, <1>8 DEF BootIInv

\* What happens after the compilation changes neither the modules nor what
\* they have registered, and the calls made to the buses stay as they are.
LEMMA StaticKeeps ==
    ASSUME BootIInv, UNCHANGED <<mvars, cvars, providers, call>>, phase' # "compile"
    PROVE  ModulesIInv' /\ ProgramInv' /\ CallsInv' /\ \A S : Real(S)' = Real(S)
<1>1. UNCHANGED <<visits, modules, controllers, from, root, declared, options, providers, call>>
  BY DEF mvars, cvars
<1>2. ModulesIInv'
  BY ModulesIdle DEF BootIInv
<1>3. ProgramInv'
  BY <1>1 DEF BootIInv, ProgramInv
<1>4. \A S : Real(S)' = Real(S)
  BY <1>1 DEF Real
<1>5. CallsInv'
  <2>1. \A k : CallOK(k)' <=> CallOK(k)
    <3>1. ASSUME NEW k PROVE CallOK(k)' <=> CallOK(k)
      BY <1>1 DEF CallOK, Real
    <3> QED BY <3>1
  <2>2. \A c \in Callers : CallOK(call[c])'
    BY <1>1, <2>1 DEF BootIInv, CallsInv
  <2> QED BY <1>1, <2>2 DEF BootIInv, CallsInv
<1> QED BY <1>2, <1>3, <1>4, <1>5

\* A boot that is rejected keeps the invariant.
LEMMA RejectsKeeps ==
    ASSUME BootIInv, Rejects, phase \in {"compile", "instantiate", "hooks"},
           UNCHANGED <<kvars, mvars, cvars, call>>
    PROVE  BootIInv'
<1>1. /\ phase' = "rejected" /\ UNCHANGED <<hooks, wired, commander, routes>>
      /\ UNCHANGED <<providers, order, instances, todo, outcome>>
      /\ UNCHANGED <<controllers, options>>
  BY DEF Rejects, kvars, mvars, cvars
<1>2. ContainerIInv'
  BY IdleKeeps DEF BootIInv
<1>3. ModulesIInv' /\ ProgramInv' /\ CallsInv'
  BY <1>1, StaticKeeps
<1>4. BootPhaseInv'
  BY <1>1 DEF BootIInv, BootPhaseInv, Has
<1>5. WiredInv'
  BY <1>1 DEF BootIInv, WiredInv
<1>6. RoutesInv'
  BY <1>1 DEF BootIInv, RoutesInv
<1> QED BY <1>2, <1>3, <1>4, <1>5, <1>6 DEF BootIInv

\* The call of instantiateAll() keeps the invariant: every registered token is to be
\* resolved.
LEMMA InstantiateKeeps ==
    ASSUME BootIInv, Instantiate
    PROVE  BootIInv'
<1>1. /\ phase = "compile" /\ phase' = "instantiate" /\ InstantiateAll
      /\ UNCHANGED <<mvars, cvars, hooks, wired, commander, routes, call>>
  BY DEF Instantiate
<1>2. /\ order # << >> /\ todo' = order /\ Ask(order) /\ outcome' = "none"
      /\ UNCHANGED <<providers, instances>>
  BY <1>1 DEF InstantiateAll, Ask
<1>3. ContainerIInv /\ order \in Seq(Tokens) /\ OrderInv
  BY DEF BootIInv, ContainerIInv, ContainerTypes
<1>4. ContainerIInv'
  BY <1>2, <1>3, AskKeeps
<1>5. ModulesIInv' /\ ProgramInv' /\ CallsInv'
  BY <1>1, <1>2, StaticKeeps
<1>6. BootPhaseInv'
  <2>1. \A t : Has(t)' <=> Has(t)
    BY <1>2 DEF Has
  <2>2. \A t \in Tokens : providers[t] # Missing => t \in ToSet(todo')
    BY <1>2, <1>3 DEF OrderInv
  <2> QED BY <1>1, <1>2, <2>1, <2>2 DEF BootIInv, BootPhaseInv
<1>7. WiredInv' /\ RoutesInv'
  BY <1>1, <1>2 DEF BootIInv, WiredInv, RoutesInv, cvars, mvars
<1> QED BY <1>4, <1>5, <1>6, <1>7 DEF BootIInv

\* Every step of a resolution leaves what is registered to an instance or to
\* the tokens still to come, unless it throws.
LEMMA ResolutionFacts ==
    ASSUME ContainerIInv,
           \/ \E t \in Tokens :
                 ReturnCached(t) \/ NotRegistered(t) \/ Circular(t) \/ Enter(t)
           \/ Construct \/ ConstructFails
    PROVE  /\ ContainerIInv' /\ providers' = providers /\ outcome = "none"
           /\ \A t \in Tokens : Has(t)' => Has(t) \/ providers[t] # Missing
           /\ Len(instances) \in Nat /\ Len(instances') \in Nat /\ Len(instances) <= Len(instances')
           /\ outcome' \in {"none", "ok"} =>
                 \A t \in Tokens : Has(t) \/ t \in ToSet(todo) => Has(t)' \/ t \in ToSet(todo')
<1>1. /\ instances \in Seq(Tokens) /\ todo \in Seq(Tokens) /\ frames \in Seq(Frame)
      /\ Len(instances) \in Nat
  <2>1. instances \in Seq(Tokens) /\ todo \in Seq(Tokens) /\ frames \in Seq(Frame)
    BY DEF ContainerIInv, ContainerTypes
  <2> QED BY <2>1
<1>2. /\ frames # << >> => todo # << >> /\ frames[1].token = Head(todo)
      /\ todo # << >> => outcome = "none"
  BY DEF ContainerIInv, StackInv, PhaseInv
<1>3. ASSUME todo # << >>
      PROVE  \A t \in ToSet(todo) : t = Head(todo) \/ t \in ToSet(Tail(todo))
  <2>1. ASSUME NEW t \in ToSet(todo), t # Head(todo) PROVE t \in ToSet(Tail(todo))
    <3>1. PICK i \in 1..Len(todo) : t = todo[i]
      BY <1>1, <2>1, TokenSeqs DEF ToSet
    <3>2. i # 1
      BY <1>1, <1>3, <2>1, <3>1, TokenSeqs
    <3>3. /\ i - 1 \in 1..Len(Tail(todo)) /\ DOMAIN Tail(todo) = 1..Len(Tail(todo))
          /\ Tail(todo)[i - 1] = todo[i]
      BY <1>1, <1>3, <3>2
    <3> QED BY <3>1, <3>3 DEF ToSet
  <2> QED BY <2>1
<1>4. ASSUME NEW error, error \notin {"none", "ok"}, Throws(error)
      PROVE  /\ providers' = providers /\ instances' = instances
             /\ outcome' \notin {"none", "ok"}
  BY <1>4 DEF Throws
<1>5. ASSUME NEW t \in Tokens, ReturnCached(t)
      PROVE  /\ todo # << >> /\ providers' = providers /\ instances' = instances /\ Has(t)
             /\ todo' = todo \/ (todo' = Tail(todo) /\ t = Head(todo))
  BY <1>5 DEF ReturnCached, Calls, Cached, Returns
<1>6. ASSUME NEW t \in Tokens, Enter(t)
      PROVE  UNCHANGED <<providers, instances, todo>> /\ todo # << >>
  BY <1>6 DEF Enter, EnteredOnly, Calls
<1>7. ASSUME Construct
      PROVE  \E t \in Tokens :
                /\ frames # << >> /\ providers' = providers /\ providers[t] # Missing
                /\ instances' = Append(instances, t)
                /\ todo' = todo \/ (todo' = Tail(todo) /\ t = Head(todo))
  <2>1. PICK n, t : n = Len(frames) /\ t = Last(frames).token
    OBVIOUS
  <2>2. frames # << >>
    BY <1>7 DEF Construct, Complete
  <2>3. n \in 1..n /\ Last(frames) = frames[n] /\ t = frames[n].token /\ t \in Tokens
    <3>1. n \in 1..n /\ frames[n] \in Frame
      BY <1>1, <2>1, <2>2, FrameSeqs
    <3> QED BY <2>1, <3>1 DEF Last, Frame
  <2>4. providers[t] # Missing
    BY <2>1, <2>3 DEF ContainerIInv, StackInv, StackOK, FrameOK
  <2>5. /\ instances' = Append(instances, t) /\ providers' = providers
        /\ Returns(Front(frames))
    BY <1>7, <2>1 DEF Construct
  <2>6. Front(frames) = << >> => n = 1
    <3>1. Len(Front(frames)) = n - 1 /\ n \in Nat
      BY <1>1, <2>1, <2>2, FrameSeqs
    <3> QED BY <3>1
  <2>7. todo' = todo \/ (todo' = Tail(todo) /\ t = Head(todo))
    <3>1. CASE Front(frames) # << >>
      BY <2>5, <3>1 DEF Returns
    <3>2. CASE Front(frames) = << >>
      BY <1>2, <2>2, <2>3, <2>5, <2>6, <3>2 DEF Returns
    <3> QED BY <3>1, <3>2
  <2> QED BY <2>2, <2>3, <2>4, <2>5, <2>7
<1>8. CASE \E t \in Tokens : ReturnCached(t)
  <2>1. PICK t \in Tokens : ReturnCached(t)
    BY <1>8
  <2>2. ContainerIInv'
    BY <2>1, ReturnCachedKeeps
  <2>3. /\ todo # << >> /\ providers' = providers /\ instances' = instances /\ Has(t)
        /\ todo' = todo \/ (todo' = Tail(todo) /\ t = Head(todo))
    BY <1>5, <2>1
  <2>4. Len(instances') \in Nat /\ Len(instances) <= Len(instances')
    BY <1>1, <2>3
  <2>5. \A u : Has(u)' <=> Has(u)
    BY <2>3 DEF Has
  <2>6. \A u \in Tokens : Has(u) \/ u \in ToSet(todo) => Has(u)' \/ u \in ToSet(todo')
    BY <1>3, <2>3, <2>5
  <2> QED BY <1>1, <1>2, <2>2, <2>3, <2>4, <2>5, <2>6
<1>9. CASE \E t \in Tokens : NotRegistered(t) \/ Circular(t)
  <2>1. PICK t \in Tokens : NotRegistered(t) \/ Circular(t)
    BY <1>9
  <2>2. ContainerIInv' /\ todo # << >>
    BY <2>1, NotRegisteredKeeps, CircularKeeps DEF NotRegistered, Circular, Calls
  <2>3. Throws("not registered") \/ Throws("circular")
    BY <2>1 DEF NotRegistered, Circular
  <2>4. providers' = providers /\ instances' = instances /\ outcome' \notin {"none", "ok"}
    BY <1>4, <2>3
  <2>5. Len(instances') \in Nat /\ Len(instances) <= Len(instances')
    BY <1>1, <2>4
  <2>6. \A u : Has(u)' <=> Has(u)
    BY <2>4 DEF Has
  <2> QED BY <1>1, <1>2, <2>2, <2>4, <2>5, <2>6
<1>10. CASE \E t \in Tokens : Enter(t)
  <2>1. PICK t \in Tokens : Enter(t)
    BY <1>10
  <2>2. ContainerIInv'
    BY <2>1, EnterKeeps
  <2>3. UNCHANGED <<providers, instances, todo>> /\ todo # << >>
    BY <1>6, <2>1
  <2>4. Len(instances') \in Nat /\ Len(instances) <= Len(instances')
    BY <1>1, <2>3
  <2>5. \A u : Has(u)' <=> Has(u)
    BY <2>3 DEF Has
  <2> QED BY <1>1, <1>2, <2>2, <2>3, <2>4, <2>5
<1>11. CASE Construct
  <2>1. PICK t \in Tokens :
           /\ frames # << >> /\ providers' = providers /\ providers[t] # Missing
           /\ instances' = Append(instances, t)
           /\ todo' = todo \/ (todo' = Tail(todo) /\ t = Head(todo))
    BY <1>7, <1>11
  <2>2. ContainerIInv'
    BY <1>11, ConstructKeeps
  <2>3. Len(instances') = Len(instances) + 1
    BY <1>1, <2>1
  <2>4. \A u : Has(u)' <=> Has(u) \/ u = t
    <3>1. ToSet(instances') = ToSet(instances) \cup {t}
      BY <1>1, <2>1, AppendFacts
    <3> QED BY <3>1 DEF Has
  <2>5. Len(instances') \in Nat /\ Len(instances) <= Len(instances')
    BY <1>1, <2>3
  <2>6. \A u \in Tokens : Has(u) \/ u \in ToSet(todo) => Has(u)' \/ u \in ToSet(todo')
    BY <1>2, <1>3, <2>1, <2>4
  <2> QED BY <1>1, <1>2, <2>1, <2>2, <2>4, <2>5, <2>6
<1>12. CASE ConstructFails
  <2>1. frames # << >> /\ Throws("thrown")
    BY <1>12 DEF ConstructFails, Complete
  <2>2. providers' = providers /\ instances' = instances /\ outcome' \notin {"none", "ok"}
    BY <1>4, <2>1
  <2>3. Len(instances') \in Nat /\ Len(instances) <= Len(instances')
    BY <1>1, <2>2
  <2>4. \A u : Has(u)' <=> Has(u)
    BY <2>2 DEF Has
  <2> QED BY <1>2, <1>1, <1>12, <2>1, <2>2, <2>3, <2>4, ConstructFailsKeeps
<1> QED BY <1>8, <1>9, <1>10, <1>11, <1>12

\* A step of a resolution keeps the invariant: a token leaves the ones to resolve with
\* its instance.
LEMMA ResolveNextKeeps ==
    ASSUME BootIInv, ResolveNext
    PROVE  BootIInv'
<1>1. /\ phase = "instantiate"
      /\ UNCHANGED <<mvars, cvars, call>>
      /\ UNCHANGED <<phase, hooks, wired, commander, routes>>
  BY DEF ResolveNext, bvars
<1>2. /\ ContainerIInv' /\ providers' = providers /\ outcome = "none"
      /\ \A t \in Tokens : Has(t)' => Has(t) \/ providers[t] # Missing
      /\ Len(instances) \in Nat /\ Len(instances') \in Nat /\ Len(instances) <= Len(instances')
      /\ outcome' \in {"none", "ok"} =>
            \A t \in Tokens : Has(t) \/ t \in ToSet(todo) => Has(t)' \/ t \in ToSet(todo')
  BY ResolutionFacts DEF BootIInv, ResolveNext
<1>3. ModulesIInv' /\ ProgramInv' /\ CallsInv'
  BY <1>1, <1>2, StaticKeeps
<1>4. BootPhaseInv'
  <2>1. /\ BootPhaseInv /\ hooks \in 0..Len(instances)
    BY DEF BootIInv, BootPhaseInv
  <2>2. hooks' \in 0..Len(instances')
    BY <1>1, <1>2, <2>1
  <2>3. \A t \in Tokens : Has(t)' => providers'[t] # Missing
    BY <1>2, <2>1 DEF BootPhaseInv
  <2>4. outcome' \in {"none", "ok"} => \A t \in Tokens : providers'[t] # Missing =>
            Has(t)' \/ t \in ToSet(todo')
    BY <1>1, <1>2, <2>1 DEF BootPhaseInv
  <2> QED BY <1>1, <2>2, <2>3, <2>4 DEF BootPhaseInv
<1>5. WiredInv' /\ RoutesInv'
  BY <1>1, <1>2 DEF BootIInv, WiredInv, RoutesInv
<1> QED BY <1>2, <1>3, <1>4, <1>5 DEF BootIInv

\* The end of instantiateAll() keeps the invariant: no token is left without an
\* instance.
LEMMA InstantiatedKeeps ==
    ASSUME BootIInv, Instantiated
    PROVE  BootIInv'
<1>1. /\ phase = "instantiate" /\ todo = << >>
      /\ UNCHANGED <<kvars, mvars, cvars, call>>
  BY DEF Instantiated
<1>2. CASE outcome = "ok"
  <2>1. /\ phase' = "hooks" /\ UNCHANGED <<hooks, wired, commander, routes>>
        /\ UNCHANGED <<providers, order, instances, todo, outcome>>
    BY <1>1, <1>2 DEF Instantiated, kvars
  <2>2. ContainerIInv'
    BY <1>1, IdleKeeps DEF BootIInv
  <2>3. ModulesIInv' /\ ProgramInv' /\ CallsInv'
    BY <1>1, <2>1, StaticKeeps
  <2>4. BootPhaseInv'
    <3>1. \A t \in Tokens : providers[t] # Missing => Has(t)
      BY <1>1, <1>2 DEF BootIInv, BootPhaseInv, ToSet
    <3> QED BY <2>1, <3>1 DEF BootIInv, BootPhaseInv, Has
  <2>5. WiredInv' /\ RoutesInv'
    BY <1>1, <2>1 DEF BootIInv, WiredInv, RoutesInv
  <2> QED BY <2>2, <2>3, <2>4, <2>5 DEF BootIInv
<1>3. CASE outcome # "ok"
  BY <1>1, <1>3, RejectsKeeps DEF Instantiated
<1> QED BY <1>2, <1>3

\* An init hook keeps the invariant.
LEMMA InitHookKeeps ==
    ASSUME BootIInv, InitHook
    PROVE  BootIInv'
<1>1. /\ phase = "hooks" /\ phase' = "hooks" /\ hooks < Len(instances) /\ hooks' = hooks + 1
      /\ UNCHANGED <<kvars, mvars, cvars, wired, commander, routes, call>>
      /\ UNCHANGED <<providers, instances, todo, outcome>>
  BY DEF InitHook, kvars
<1>2. ContainerIInv'
  BY <1>1, IdleKeeps DEF BootIInv
<1>3. ModulesIInv' /\ ProgramInv' /\ CallsInv'
  BY <1>1, StaticKeeps
<1>4. BootPhaseInv'
  <2>1. Len(instances) \in Nat
    <3>1. instances \in Seq(Tokens)
      BY DEF BootIInv, ContainerIInv, ContainerTypes
    <3> QED BY <3>1
  <2>2. hooks' \in 0..Len(instances')
    BY <1>1, <2>1 DEF BootIInv, BootPhaseInv
  <2> QED BY <1>1, <2>2 DEF BootIInv, BootPhaseInv, Has
<1>5. WiredInv' /\ RoutesInv'
  BY <1>1 DEF BootIInv, WiredInv, RoutesInv
<1> QED BY <1>2, <1>3, <1>4, <1>5 DEF BootIInv

\* wireCqrs() keeps the invariant: the handlers it finds among the instances are the
\* handlers of the application, as all of them have an instance.
LEMMA WireCqrsKeeps ==
    ASSUME BootIInv, WireCqrs
    PROVE  BootIInv'
<1>1. PICK P, n : P = HandlersAmongInstances(CommandHandlers) /\ n = Len(instances)
  OBVIOUS
<1>2. /\ phase = "hooks" /\ phase' = "wired"
      /\ UNCHANGED <<kvars, mvars, cvars, hooks, routes, call>>
      /\ UNCHANGED <<providers, instances, todo, outcome>>
      /\ IF providers[Bus] # Missing
         THEN /\ wired' = { instances[i] : i \in HandlersAmongInstances(EventHandlers) }
              /\ commander' = IF P = {} THEN Nobody ELSE instances[Max(P)]
         ELSE UNCHANGED <<wired, commander>>
  BY <1>1 DEF WireCqrs, kvars
<1>3. ContainerIInv'
  BY <1>2, IdleKeeps DEF BootIInv
<1>4. ModulesIInv' /\ ProgramInv' /\ CallsInv' /\ \A S : Real(S)' = Real(S)
  BY <1>2, StaticKeeps
<1>5. BootPhaseInv'
  BY <1>2 DEF BootIInv, BootPhaseInv, Has
<1>6. WiredInv'
  <2>1. n \in Nat /\ DOMAIN instances = 1..n /\ wired = {} /\ commander = Nobody
    <3>1. instances \in Seq(Tokens) /\ wired = {} /\ commander = Nobody
      BY <1>2 DEF BootIInv, ContainerIInv, ContainerTypes, WiredInv
    <3> QED BY <1>1, <3>1
  <2>2. ASSUME NEW S \in SUBSET Tokens
        PROVE  /\ { instances[i] : i \in HandlersAmongInstances(S) } = Real(S)
               /\ HandlersAmongInstances(S) \subseteq 0..n
    <3>1. HandlersAmongInstances(S) =
             { i \in 1..n : instances[i] \in S /\ providers[instances[i]].kind = "class" }
      BY <2>1 DEF HandlersAmongInstances, IsOfClass
    <3>2. ASSUME NEW t \in Real(S) PROVE \E i \in 1..n : instances[i] = t
      <4>1. t \in Tokens /\ providers[t] # Missing
        BY <3>2 DEF Real, Missing
      <4>2. Has(t)
        BY <1>2, <4>1 DEF BootIInv, BootPhaseInv
      <4> QED BY <2>1, <4>2 DEF Has, ToSet
    <3>3. { instances[i] : i \in HandlersAmongInstances(S) } \subseteq Real(S)
      BY <3>1 DEF Real
    <3>4. Real(S) \subseteq { instances[i] : i \in HandlersAmongInstances(S) }
      <4>1. ASSUME NEW t \in Real(S)
            PROVE  t \in { instances[i] : i \in HandlersAmongInstances(S) }
        <5>1. PICK i \in 1..n : instances[i] = t
          BY <3>2, <4>1
        <5>2. i \in HandlersAmongInstances(S)
          BY <3>1, <4>1, <5>1 DEF Real
        <5> QED BY <5>1, <5>2
      <4> QED BY <4>1
    <3>5. HandlersAmongInstances(S) \subseteq 0..n
      BY <2>1, <3>1
    <3> QED BY <3>3, <3>4, <3>5
  <2>3. /\ { instances[i] : i \in HandlersAmongInstances(EventHandlers) } = Real(EventHandlers)
        /\ { instances[i] : i \in P } = Real(CommandHandlers) /\ P \subseteq 0..n
    BY <1>1, <2>2, BootAssumption
  <2>4. P # {} => Max(P) \in P
    BY <2>1, <2>3, MaxFacts
  <2>5. providers[Bus] # Missing =>
           /\ wired' = Real(EventHandlers)
           /\ IF Real(CommandHandlers) = {} THEN commander' = Nobody
              ELSE commander' \in Real(CommandHandlers)
    BY <1>2, <2>3, <2>4
  <2> QED BY <1>2, <1>4, <2>1, <2>5 DEF WiredInv
<1>7. RoutesInv'
  BY <1>2 DEF BootIInv, RoutesInv
<1> QED BY <1>3, <1>4, <1>5, <1>6, <1>7 DEF BootIInv

\* The server's construction keeps the invariant.
LEMMA MakeServerKeeps ==
    ASSUME BootIInv, MakeServer
    PROVE  BootIInv'
<1>1. /\ phase = "wired" /\ phase' = "serving"
      /\ routes' = RoutesMap(DeclarationsOf(controllers), options)
      /\ UNCHANGED <<kvars, mvars, cvars, hooks, wired, commander, call>>
      /\ UNCHANGED <<providers, instances, todo, outcome, controllers, declared, options>>
  BY DEF MakeServer, kvars, mvars, cvars
<1>2. ContainerIInv'
  BY <1>1, IdleKeeps DEF BootIInv
<1>3. ModulesIInv' /\ ProgramInv' /\ CallsInv' /\ \A S : Real(S)' = Real(S)
  BY <1>1, StaticKeeps
<1>4. BootPhaseInv'
  BY <1>1 DEF BootIInv, BootPhaseInv, Has
<1>5. WiredInv'
  BY <1>1, <1>3 DEF BootIInv, WiredInv
<1>6. RoutesInv'
  BY <1>1 DEF RoutesInv, DeclarationsOf
<1> QED BY <1>2, <1>3, <1>4, <1>5, <1>6 DEF BootIInv

\* A call changes the calls only.
LEMMA CalledKeeps ==
    ASSUME BootIInv, UNCHANGED <<kvars, mvars, cvars, bvars>>, phase # "compile",
           NEW c \in Callers, NEW r \in CallRecord, CallOK(r),
           call' = [call EXCEPT ![c] = r]
    PROVE  BootIInv'
<1>1. UNCHANGED <<phase, hooks, wired, commander, routes, controllers, declared, options,
                  providers, instances, todo, outcome, root>>
  BY DEF kvars, mvars, cvars, bvars
<1>2. ContainerIInv' /\ ModulesIInv'
  BY <1>1, IdleKeeps, ModulesIdle DEF BootIInv
<1>3. BootPhaseInv'
  BY <1>1 DEF BootIInv, BootPhaseInv, Has
<1>4. WiredInv' /\ RoutesInv' /\ ProgramInv'
  <2>1. WiredInv'
    BY <1>1 DEF BootIInv, WiredInv, Real
  <2>2. RoutesInv'
    BY <1>1 DEF BootIInv, RoutesInv, DeclarationsOf
  <2>3. ProgramInv'
    BY <1>1 DEF BootIInv, ProgramInv
  <2> QED BY <2>1, <2>2, <2>3
<1>5. CallsInv'
  <2>1. call' \in [Callers -> CallRecord] /\ \A x \in Callers : CallOK(call'[x])
    BY DEF BootIInv, CallsInv
  <2>2. \A x \in Callers : CallOK(call[x])'
    BY <1>1, <2>1 DEF CallOK, Real
  <2> QED BY <1>1, <2>1, <2>2 DEF CallsInv
<1> QED BY <1>2, <1>3, <1>4, <1>5 DEF BootIInv

\* The buses reach what the application has, unless it is too early.
LEMMA BusFacts ==
    ASSUME BootIInv, BusIsThere
    PROVE  /\ phase # "compile" /\ wired \in SUBSET EventHandlers
           /\ commander \in CommandHandlers \cup {Nobody}
           /\ Early \in BOOLEAN
           /\ commander # Nobody => commander \in Real(CommandHandlers)
           /\ ~Early => /\ wired = Real(EventHandlers)
                        /\ commander = Nobody => Real(CommandHandlers) = {}
<1>1. phase # "compile"
  BY CompileFacts DEF BusIsThere
<1>2. providers[Bus] # Missing /\ WiredInv
  BY BootAssumption DEF BusIsThere, BootIInv, BootPhaseInv
<1>3. \A S : Real(S) \subseteq S
  BY DEF Real
<1>4. Nobody \notin Real(CommandHandlers)
  BY <1>3, BootAssumption
<1> QED BY <1>1, <1>2, <1>3, <1>4 DEF WiredInv, Early

\* A command keeps the invariant.
LEMMA ExecuteKeeps ==
    ASSUME BootIInv, NEW c \in Callers, Execute(c)
    PROVE  BootIInv'
<1>1. PICK r : r = [NoCall EXCEPT !.pc = IF commander = Nobody THEN "no handler" ELSE "done",
                                 !.early = Early, !.by = commander]
  OBVIOUS
<1>2. /\ BusIsThere /\ call' = [call EXCEPT ![c] = r]
      /\ UNCHANGED <<kvars, mvars, cvars, bvars>>
  BY <1>1 DEF Execute, Called
<1>3. /\ r.pc = (IF commander = Nobody THEN "no handler" ELSE "done")
      /\ r.early = Early /\ r.by = commander /\ r.todo = {} /\ r.ran = {}
  BY <1>1 DEF NoCall
<1>4. r \in CallRecord
  BY <1>1, <1>2, BusFacts DEF NoCall, CallRecord
<1>5. CallOK(r)
  BY <1>2, <1>3, BusFacts DEF CallOK
<1> QED BY <1>2, <1>4, <1>5, BusFacts, CalledKeeps

\* An event that is published keeps the invariant.
LEMMA PublishKeeps ==
    ASSUME BootIInv, NEW c \in Callers, Publish(c)
    PROVE  BootIInv'
<1>1. PICK r : r = [NoCall EXCEPT !.pc = IF wired = {} THEN "done" ELSE "publishing",
                                 !.early = Early, !.todo = wired]
  OBVIOUS
<1>2. /\ BusIsThere /\ call' = [call EXCEPT ![c] = r]
      /\ UNCHANGED <<kvars, mvars, cvars, bvars>>
  BY <1>1 DEF Publish, Called
<1>3. /\ r.pc = (IF wired = {} THEN "done" ELSE "publishing")
      /\ r.early = Early /\ r.by = Nobody /\ r.todo = wired /\ r.ran = {}
  BY <1>1 DEF NoCall
<1>4. r \in CallRecord
  BY <1>1, <1>2, BusFacts DEF NoCall, CallRecord
<1>5. CallOK(r)
  BY <1>2, <1>3, BusFacts DEF CallOK
<1> QED BY <1>2, <1>4, <1>5, BusFacts, CalledKeeps

\* A handler that settles keeps the invariant: it goes from the ones behind it to the
\* ones that ran.
LEMMA HandlerSettlesKeeps ==
    ASSUME BootIInv, NEW c \in Callers, NEW h \in EventHandlers, NEW throws \in BOOLEAN,
           HandlerSettles(c, h, throws)
    PROVE  BootIInv'
<1>1. PICK k, left : k = call[c] /\ left = k.todo \ {h}
  OBVIOUS
<1>2. PICK r : r = [k EXCEPT !.todo = left, !.ran = @ \cup {h},
                             !.pc = IF left = {} THEN "done" ELSE "publishing"]
  OBVIOUS
<1>3. /\ k.pc = "publishing" /\ h \in k.todo /\ call \in [Callers -> CallRecord]
      /\ k \in CallRecord /\ CallOK(k)
      /\ UNCHANGED <<kvars, mvars, cvars, bvars>>
  BY <1>1 DEF HandlerSettles, BootIInv, CallsInv
<1>4. call' = [call EXCEPT ![c] = r]
  <2>1. call' = [call EXCEPT ![c].todo = left, ![c].ran = @ \cup {h},
                             ![c].pc = IF left = {} THEN "done" ELSE "publishing"]
    BY <1>1 DEF HandlerSettles, AfterFailure
  <2> QED BY <1>1, <1>2, <1>3, <2>1
<1>5. /\ r.todo = left /\ r.ran = k.ran \cup {h} /\ r.by = k.by /\ r.early = k.early
      /\ r.pc = (IF left = {} THEN "done" ELSE "publishing") /\ r \in CallRecord
  BY <1>1, <1>2, <1>3 DEF CallRecord
<1>6. CallOK(r)
  BY <1>1, <1>3, <1>5 DEF CallOK
<1>7. phase # "compile"
  BY <1>1, <1>3, CompileFacts
<1> QED BY <1>3, <1>4, <1>5, <1>6, <1>7, CalledKeeps

\* The inductive invariant holds at the start.
LEMMA InitBootIInv == Init => BootIInv
<1> SUFFICES ASSUME Init PROVE BootIInv
  OBVIOUS
<1>1. /\ ContainerInit /\ ModulesInit /\ phase = "compile" /\ hooks = 0 /\ wired = {}
      /\ commander = Nobody /\ routes = << >> /\ call = [c \in Callers |-> NoCall]
  BY DEF Init
<1>2. ContainerIInv
  BY <1>1, InitContainerIInv
<1>3. /\ todo = << >> /\ outcome = "none" /\ instances = << >>
      /\ providers = [t \in Tokens |-> Missing]
  BY <1>1 DEF ContainerInit
<1>4. /\ visits = << >> /\ modules = << >> /\ controllers = << >> /\ root \in Roots
      /\ from = [t \in Tokens |-> Nobody]
  BY <1>1 DEF ModulesInit
<1>5. ModulesIInv
  <2>1. << >> \in Seq(Visit) /\ << >> \in Seq(ModuleClasses) /\ << >> \in Seq(Controllers)
    OBVIOUS
  <2>2. ModulesTypes
    BY <1>4, <2>1 DEF ModulesTypes
  <2>3. Len(<< >>) = 0 /\ IsInjective(<< >>) /\ ToSet(<< >>) = {}
    BY DEF IsInjective, ToSet
  <2>4. VisitsOK(visits, modules) /\ \A m : ~Visited(m)
    BY <1>4, <2>3 DEF VisitsOK, Visited
  <2> QED BY <1>3, <1>4, <2>2, <2>3, <2>4 DEF ModulesIInv, Compiled
<1>6. BootPhaseInv
  <2>1. Len(instances) = 0 /\ \A t : ~Has(t)
    BY <1>3 DEF Has, ToSet
  <2> QED BY <1>1, <1>3, <2>1 DEF BootPhaseInv
<1>7. WiredInv /\ RoutesInv /\ ProgramInv
  BY <1>1 DEF WiredInv, RoutesInv, ProgramInv, Init
<1>8. CallsInv
  <2>1. NoCall \in CallRecord /\ CallOK(NoCall) /\ NoCall.pc = "idle" /\ NoCall.by = Nobody
    BY DEF NoCall, CallRecord, CallOK
  <2> QED BY <1>1, <2>1 DEF CallsInv
<1> QED BY <1>2, <1>5, <1>6, <1>7, <1>8 DEF BootIInv

\* A stuttering step keeps the inductive invariant.
LEMMA BootIdle == BootIInv /\ UNCHANGED allvars => BootIInv'
<1> SUFFICES ASSUME BootIInv, UNCHANGED allvars PROVE BootIInv'
  OBVIOUS
<1>1. /\ UNCHANGED <<kvars, mvars, cvars, bvars, call>>
      /\ UNCHANGED <<phase, hooks, wired, commander, routes, controllers, declared, options,
                     providers, instances, todo, outcome, root, call>>
  BY DEF allvars, kvars, mvars, cvars, bvars
<1>2. ContainerIInv' /\ ModulesIInv'
  BY <1>1, IdleKeeps, ModulesIdle DEF BootIInv
<1>3. BootPhaseInv' /\ WiredInv'
  BY <1>1 DEF BootIInv, BootPhaseInv, WiredInv, Has, Real
<1>4. CallsInv' /\ ProgramInv' /\ RoutesInv'
  <2>1. CallsInv'
    <3>1. ASSUME NEW c \in Callers PROVE CallOK(call[c])'
      <4>1. CallOK(call[c])
        BY DEF BootIInv, CallsInv
      <4> QED BY <1>1, <4>1 DEF CallOK, Real
    <3> QED BY <1>1, <3>1 DEF BootIInv, CallsInv
  <2>2. ProgramInv'
    BY <1>1 DEF BootIInv, ProgramInv
  <2>3. RoutesInv'
    BY <1>1 DEF BootIInv, RoutesInv, DeclarationsOf
  <2> QED BY <2>1, <2>2, <2>3
<1> QED BY <1>2, <1>3, <1>4 DEF BootIInv

\* Every step of the boot keeps the inductive invariant.
LEMMA NextBootIInv == BootIInv /\ [Next]_allvars => BootIInv'
<1> SUFFICES ASSUME BootIInv, [Next]_allvars PROVE BootIInv'
  OBVIOUS
<1>1. CASE CompileModules
  BY <1>1, CompileModulesKeeps
<1>2. CASE CompileThrows
  BY <1>2, RejectsKeeps DEF CompileThrows
<1>3. CASE Instantiate
  BY <1>3, InstantiateKeeps
<1>4. CASE ResolveNext
  BY <1>4, ResolveNextKeeps
<1>5. CASE Instantiated
  BY <1>5, InstantiatedKeeps
<1>6. CASE InitHook
  BY <1>6, InitHookKeeps
<1>7. CASE InitHookThrows
  BY <1>7, RejectsKeeps DEF InitHookThrows
<1>8. CASE WireCqrs
  BY <1>8, WireCqrsKeeps
<1>9. CASE MakeServer
  BY <1>9, MakeServerKeeps
<1>10. ASSUME NEW c \in Callers, Execute(c) \/ Publish(c) PROVE BootIInv'
  BY <1>10, ExecuteKeeps, PublishKeeps
<1>11. ASSUME NEW c \in Callers, NEW h \in EventHandlers, NEW throws \in BOOLEAN,
              HandlerSettles(c, h, throws)
       PROVE  BootIInv'
  BY <1>11, HandlerSettlesKeeps
<1>12. CASE UNCHANGED allvars
  BY <1>12, BootIdle
<1> QED
  BY <1>1, <1>2, <1>3, <1>4, <1>5, <1>6, <1>7, <1>8, <1>9, <1>10, <1>11, <1>12 DEF Next

\* The inductive invariant of Boot always holds.
THEOREM BootAlwaysIInv == Spec => []BootIInv
<1>1. Init => BootIInv
  BY InitBootIInv
<1>2. BootIInv /\ [Next]_allvars => BootIInv'
  BY NextBootIInv
<1> QED BY <1>1, <1>2, PTL DEF Spec

\* What is compiled is all that the root reaches, complete.
LEMMA CompiledModules ==
    ASSUME ModulesIInv
    PROVE  ModulesCompose
<1>1. IsInjective(modules) /\ ModulesTypes /\ modules \in Seq(ModuleClasses)
  BY DEF ModulesIInv, ModulesTypes
<1>2. SUFFICES ASSUME JustCompiled
               PROVE  ModulesCompose
  BY <1>1 DEF ModulesCompose, ModulesCompiledOnce, ImporterWins
<1>3. modules # << >> /\ visits = << >> /\ root.module \in ToSet(modules) /\ RootWins
  BY <1>2 DEF JustCompiled, Compiled, ModulesIInv, VisitsOK
<1>4. ASSUME NEW m \in ToSet(modules) PROVE m \in ModuleClasses /\ VisitedOK(m)
  <2>1. m \in ModuleClasses
    BY <1>1, <1>4 DEF ToSet
  <2>2. Visited(m)
    BY <1>3, <1>4 DEF Visited, Visiting
  <2> QED BY <2>1, <2>2 DEF ModulesIInv
<1>5. Reach(Imports, root.module) \subseteq ToSet(modules)
  <2>1. /\ \A m \in ToSet(modules) : Imports[m] \subseteq ToSet(modules)
        /\ ToSet(modules) \in SUBSET ModuleClasses /\ root.module \in ModuleClasses
    BY <1>3, <1>4 DEF VisitedOK
  <2> QED BY <1>1, <1>3, <2>1, ImportsFacts, ReachFacts
<1>6. ModulesCompiledOnce
  BY <1>1, <1>3, <1>4, <1>5 DEF ModulesCompiledOnce, VisitedOK
<1>7. ImporterWins
  BY <1>3, <1>4 DEF ImporterWins, RootWins, VisitedOK, Below
<1> QED BY <1>6, <1>7 DEF ModulesCompose

\* ModulesCompose of Modules: a module is never compiled twice, and when the modules are
\* compiled, every module that the root reaches is among them, with all that it declares
\* in the container; a module's provider is not overruled by one of a module it imports
\* unless they may import each other, and of the root's own providers the last one wins.
THEOREM ModulesAreComposed == Spec => []ModulesCompose
<1>1. BootIInv => ModulesCompose
  BY CompiledModules DEF BootIInv
<1> QED BY <1>1, BootAlwaysIInv, PTL

\* BusesReachHandlers of Boot: a call made after the wiring finds every handler that the
\* application provides: a command is executed unless there is no handler for it, and an
\* event that is published reaches all of its handlers.
THEOREM BusesReach == Spec => []BusesReachHandlers
<1>1. BootIInv => BusesReachHandlers
  BY DEF BootIInv, CallsInv, CallOK, Real, BusesReachHandlers
<1> QED BY <1>1, BootAlwaysIInv, PTL

------------------------------------------------------------------------------
(***************************************************************************)
(* The routes, for any declarations, paths and methods.                    *)
(*                                                                         *)
(* The map after n declarations has every path once, in the order of its   *)
(* first declaration, with the last handler of each method; endpoints of   *)
(* the server replace an entry or add one, and leave the order of the      *)
(* others.                                                                 *)
(***************************************************************************)

\* The maps of routes with the paths P, the methods T and the answers H.
MethodsOf(T, H) == UNION { [M -> H] : M \in SUBSET T }
RouteMaps(P, T, H) == Seq([path : P, methods : MethodsOf(T, H)])

\* No path has two entries.
PathsOnce(map) == \A i, j \in 1..Len(map) : map[i].path = map[j].path => i = j

\* The entries of a map of routes.
LEMMA RouteMapFacts ==
    ASSUME NEW P, NEW T, NEW H, NEW map \in RouteMaps(P, T, H)
    PROVE  /\ Len(map) \in Nat /\ DOMAIN map = 1..Len(map)
           /\ \A i \in 1..Len(map) : map[i].path \in P /\ map[i].methods \in MethodsOf(T, H)
<1> DEFINE E == [path : P, methods : MethodsOf(T, H)]
<1>1. map \in Seq(E)
  BY DEF RouteMaps
<1>2. \A e \in E : e.path \in P /\ e.methods \in MethodsOf(T, H)
  OBVIOUS
<1> HIDE DEF E
<1>3. Len(map) \in Nat /\ DOMAIN map = 1..Len(map) /\ \A i \in 1..Len(map) : map[i] \in E
  BY <1>1
<1> QED BY <1>2, <1>3

\* Position is the place of a path, or zero when the map lacks it.
LEMMA PositionFacts ==
    ASSUME NEW map, NEW path, Len(map) \in Nat
    PROVE  /\ Position(map, path) \in 0..Len(map)
           /\ Position(map, path) # 0 => map[Position(map, path)].path = path
           /\ Position(map, path) = 0 => \A i \in 1..Len(map) : map[i].path # path
<1> DEFINE I == { i \in 1..Len(map) : map[i].path = path }
<1>1. Position(map, path) = IF I # {} THEN Min(I) ELSE 0
  BY DEF Position, SelectInSeq
<1>2. I # {} => Min(I) \in I
  <2>1. I \in SUBSET Nat
    OBVIOUS
  <2> HIDE DEF I
  <2> QED BY <2>1, MinFacts
<1> QED BY <1>1, <1>2

\* One entry is set or added, and the others stay.
SetAt(map, new, path, methods, k) ==
    /\ k \in 1..Len(new) /\ new[k].path = path /\ new[k].methods = methods
    /\ \A j \in 1..Len(map) : /\ j \in 1..Len(new) /\ new[j].path = map[j].path
                              /\ j # k => new[j].methods = map[j].methods
    /\ \/ Len(new) = Len(map) /\ map[k].path = path
       \/ /\ Len(new) = Len(map) + 1 /\ k = Len(map) + 1
          /\ \A j \in 1..Len(map) : map[j].path # path

\* SetPath sets one entry: the one of the path, or a new last one.
LEMMA SetPathFacts ==
    ASSUME NEW P, NEW T, NEW H, NEW map \in RouteMaps(P, T, H),
           NEW path \in P, NEW methods \in MethodsOf(T, H)
    PROVE  /\ SetPath(map, path, methods) \in RouteMaps(P, T, H)
           /\ \E k : /\ SetAt(map, SetPath(map, path, methods), path, methods, k)
                     /\ k = IF Position(map, path) = 0 THEN Len(map) + 1 ELSE Position(map, path)
<1> DEFINE E == [path : P, methods : MethodsOf(T, H)]
<1>1. PICK n, p, new : n = Len(map) /\ p = Position(map, path) /\ new = SetPath(map, path, methods)
  OBVIOUS
<1>2. /\ n \in Nat /\ DOMAIN map = 1..n /\ p \in 0..n
      /\ p # 0 => map[p].path = path
      /\ p = 0 => \A i \in 1..n : map[i].path # path
  BY <1>1, RouteMapFacts, PositionFacts
<1>3. map \in Seq(E) /\ \A i \in 1..n : map[i] \in E
  <2>1. map \in Seq(E)
    BY DEF RouteMaps
  <2> HIDE DEF E
  <2> QED BY <1>1, <2>1
<1>4. CASE p = 0
  <2>1. PICK e : e = [path |-> path, methods |-> methods]
    OBVIOUS
  <2>2. e \in E /\ e.path = path /\ e.methods = methods
    BY <2>1
  <2>3. new = Append(map, e)
    BY <1>1, <1>4, <2>1 DEF SetPath
  <2>4. /\ new \in Seq(E) /\ Len(new) = n + 1 /\ new[n + 1] = e
        /\ \A j \in 1..n : new[j] = map[j]
    <3> HIDE DEF E
    <3> QED BY <1>1, <1>2, <1>3, <2>2, <2>3
  <2>5. n + 1 \in 1..n + 1 /\ \A j \in 1..n : j \in 1..n + 1 /\ j # n + 1
    BY <1>2
  <2>6. SetAt(map, new, path, methods, n + 1)
    BY <1>1, <1>2, <1>4, <2>2, <2>4, <2>5 DEF SetAt
  <2> QED BY <1>1, <1>4, <2>4, <2>6 DEF RouteMaps
<1>5. CASE p # 0
  <2>1. PICK e : e = [map[p] EXCEPT !.methods = methods]
    OBVIOUS
  <2>2. p \in 1..n /\ map[p] \in E
    BY <1>2, <1>3, <1>5
  <2>3. e \in E /\ e.path = path /\ e.methods = methods
    BY <1>2, <1>5, <2>1, <2>2
  <2>4. new = [map EXCEPT ![p] = e]
    BY <1>1, <1>5, <2>1 DEF SetPath
  <2>5. /\ new \in Seq(E) /\ Len(new) = n /\ new[p] = e
        /\ \A j \in 1..n : j # p => new[j] = map[j]
    <3> HIDE DEF E
    <3> QED BY <1>1, <1>2, <1>3, <2>2, <2>3, <2>4
  <2>6. SetAt(map, new, path, methods, p)
    <3>1. \A j \in 1..n : new[j].path = map[j].path
      BY <1>2, <1>5, <2>3, <2>5
    <3>2. \A j \in 1..n : j # p => new[j].methods = map[j].methods
      BY <2>5
    <3> QED BY <1>1, <1>2, <1>5, <2>2, <2>3, <2>5, <3>1, <3>2 DEF SetAt
  <2> QED BY <1>1, <1>5, <2>5, <2>6 DEF RouteMaps
<1> QED BY <1>4, <1>5

\* An entry that is set or added leaves every path once.
LEMMA SetAtOnce ==
    ASSUME NEW map, NEW new, NEW path, NEW methods, NEW k, Len(map) \in Nat,
           SetAt(map, new, path, methods, k), PathsOnce(map)
    PROVE  PathsOnce(new)
<1>1. CASE Len(new) = Len(map)
  BY <1>1 DEF SetAt, PathsOnce
<1>2. CASE Len(new) = Len(map) + 1
  <2>1. k = Len(map) + 1 /\ new[k].path = path /\ \A j \in 1..Len(map) : map[j].path # path
    BY <1>2 DEF SetAt
  <2>2. \A i \in 1..Len(new) : i \in 1..Len(map) \/ i = k
    BY <1>2, <2>1
  <2>3. \A i \in 1..Len(map) : new[i].path = map[i].path
    BY DEF SetAt
  <2> QED BY <2>1, <2>2, <2>3 DEF PathsOnce
<1> QED BY <1>1, <1>2 DEF SetAt

\* The declaration d is added at k, whose methods are then methods.
AddedAt(map, d, k, methods) ==
    /\ SetAt(map, Added(map, d), d.path, methods, k)
    /\ methods[d.method] = d.handler
    /\ k \in 1..Len(map) =>
          /\ DOMAIN methods = DOMAIN map[k].methods \cup {d.method}
          /\ \A x \in DOMAIN map[k].methods : x # d.method => methods[x] = map[k].methods[x]
    /\ k \notin 1..Len(map) => DOMAIN methods = {d.method}

\* methods[route.method] = handler.
LEMMA AddedFacts ==
    ASSUME NEW P, NEW T, NEW H, NEW map \in RouteMaps(P, T, H), NEW d,
           d.path \in P, d.method \in T, d.handler \in H
    PROVE  /\ Added(map, d) \in RouteMaps(P, T, H)
           /\ \E k, methods : AddedAt(map, d, k, methods)
<1>1. PICK p, old, methods : /\ p = Position(map, d.path)
                              /\ old = (IF p = 0 THEN << >> ELSE map[p].methods)
                              /\ methods = WithMethod(old, d)
  OBVIOUS
<1>2. p \in 0..Len(map) /\ Len(map) \in Nat
  BY <1>1, RouteMapFacts, PositionFacts
<1>3. Added(map, d) = SetPath(map, d.path, methods)
  BY <1>1 DEF Added
<1>4. old \in MethodsOf(T, H)
  <2>1. CASE p = 0
    <3>1. << >> \in [{} -> H]
      OBVIOUS
    <3> QED BY <1>1, <2>1, <3>1 DEF MethodsOf
  <2>2. CASE p # 0
    <3>1. p \in 1..Len(map)
      BY <1>2, <2>2
    <3> QED BY <1>1, <2>2, <3>1, RouteMapFacts
  <2> QED BY <2>1, <2>2
<1>5. PICK M \in SUBSET T : old \in [M -> H]
  BY <1>4 DEF MethodsOf
<1>6. methods = [x \in M \cup {d.method} |-> IF x = d.method THEN d.handler ELSE old[x]]
  BY <1>1, <1>5 DEF WithMethod
<1>7. methods \in MethodsOf(T, H)
  <2>1. methods \in [M \cup {d.method} -> H]
    BY <1>5, <1>6
  <2> QED BY <1>5, <2>1 DEF MethodsOf
<1>8. PICK k : /\ SetAt(map, Added(map, d), d.path, methods, k)
               /\ k = IF p = 0 THEN Len(map) + 1 ELSE p
  BY <1>1, <1>3, <1>7, SetPathFacts
<1>9. Added(map, d) \in RouteMaps(P, T, H)
  BY <1>3, <1>7, SetPathFacts
<1>10. /\ DOMAIN methods = DOMAIN old \cup {d.method} /\ methods[d.method] = d.handler
       /\ \A x \in DOMAIN old : x # d.method => methods[x] = old[x]
  BY <1>5, <1>6
<1>11. CASE p = 0
  <2>1. k \notin 1..Len(map) /\ DOMAIN old = {}
    BY <1>1, <1>2, <1>8, <1>11
  <2> QED BY <1>8, <1>9, <1>10, <2>1 DEF AddedAt
<1>12. CASE p # 0
  <2>1. k \in 1..Len(map) /\ old = map[k].methods
    BY <1>1, <1>2, <1>8, <1>12
  <2> QED BY <1>8, <1>9, <1>10, <2>1 DEF AddedAt
<1> QED BY <1>11, <1>12

\* What the first n declarations of list make of the methods of path: of each
\* one the last handler.
MethodsAre(methods, path, list, n) ==
    /\ \A x : x \in DOMAIN methods
                <=> \E k \in 1..n : list[k].path = path /\ list[k].method = x
    /\ \A k \in 1..n :
          /\ list[k].path = path
          /\ \A l \in k + 1..n : list[l].path = path => list[l].method # list[k].method
          => methods[list[k].method] = list[k].handler

\* The map of the first n declarations of list: every path once, in the order
\* of its first declaration.
RoutesUpTo(map, list, n) ==
    /\ PathsOnce(map)
    /\ \A k \in 1..n : \E i \in 1..Len(map) : map[i].path = list[k].path
    /\ \A i \in 1..Len(map) : \E k \in 1..n : list[k].path = map[i].path
    /\ \A i, j \in 1..Len(map), k \in 1..n :
          i < j /\ list[k].path = map[j].path => \E l \in 1..k - 1 : list[l].path = map[i].path
    /\ \A i \in 1..Len(map) : MethodsAre(map[i].methods, map[i].path, list, n)

\* A declaration more: addRoute() keeps the map that of the declarations so far.
LEMMA AddedKeepsRoutes ==
    ASSUME NEW P, NEW T, NEW H, NEW map \in RouteMaps(P, T, H), NEW list, NEW n \in Nat, n # 0,
           list[n].path \in P, list[n].method \in T, list[n].handler \in H,
           RoutesUpTo(map, list, n - 1)
    PROVE  RoutesUpTo(Added(map, list[n]), list, n)
<1>1. PICK d, new : d = list[n] /\ new = Added(map, d)
  OBVIOUS
<1>2. PICK k0, methods : AddedAt(map, d, k0, methods)
  BY <1>1, AddedFacts
<1>3. PICK L, N : L = Len(map) /\ N = Len(new)
  OBVIOUS
<1>4. /\ L \in Nat /\ k0 \in 1..N /\ new[k0].path = d.path /\ new[k0].methods = methods
      /\ \A j \in 1..L : /\ j \in 1..N /\ new[j].path = map[j].path
                         /\ j # k0 => new[j].methods = map[j].methods
      /\ \/ N = L /\ map[k0].path = d.path
         \/ N = L + 1 /\ k0 = L + 1 /\ \A j \in 1..L : map[j].path # d.path
  <2>1. SetAt(map, new, d.path, methods, k0)
    BY <1>1, <1>2 DEF AddedAt
  <2> QED BY <1>3, <2>1, RouteMapFacts DEF SetAt
<1>5. \A i \in 1..N : i \in 1..L \/ (i = k0 /\ k0 \notin 1..L)
  BY <1>4
<1>6. \A k \in 1..n : k \in 1..n - 1 \/ k = n
  OBVIOUS
<1>7. n \in 1..n /\ \A k \in 1..n - 1 : k \in 1..n
  OBVIOUS
<1>8. PathsOnce(new)
  <2>1. SetAt(map, new, d.path, methods, k0)
    BY <1>1, <1>2 DEF AddedAt
  <2>2. PathsOnce(map) /\ Len(map) \in Nat
    BY <1>3, <1>4 DEF RoutesUpTo
  <2> QED BY <2>1, <2>2, SetAtOnce
<1>9. \A i \in 1..N : i # k0 => i \in 1..L /\ new[i].path # d.path
  BY <1>3, <1>4, <1>5, <1>8 DEF PathsOnce
<1>10. ASSUME NEW k \in 1..n PROVE \E i \in 1..N : new[i].path = list[k].path
  <2>1. CASE k \in 1..n - 1
    BY <1>3, <1>4, <2>1 DEF RoutesUpTo
  <2>2. CASE k = n
    BY <1>1, <1>4, <2>2
  <2> QED BY <1>6, <2>1, <2>2
<1>11. ASSUME NEW i \in 1..N PROVE \E k \in 1..n : list[k].path = new[i].path
  <2>1. CASE i \in 1..L
    <3>1. PICK k \in 1..n - 1 : list[k].path = map[i].path
      BY <1>3, <2>1 DEF RoutesUpTo
    <3> QED BY <1>4, <1>7, <2>1, <3>1
  <2>2. CASE i = k0
    BY <1>1, <1>4, <1>7, <2>2
  <2> QED BY <1>5, <2>1, <2>2
<1>12. ASSUME NEW k \in 1..n - 1, NEW i \in 1..N, list[k].path = new[i].path PROVE i \in 1..L
  <2>1. CASE i = k0 /\ k0 \notin 1..L
    <3>1. PICK j \in 1..L : map[j].path = list[k].path
      BY <1>3 DEF RoutesUpTo
    <3> QED BY <1>4, <1>12, <2>1, <3>1
  <2> QED BY <1>5, <2>1
<1>13. ASSUME NEW i \in 1..N, NEW j \in 1..N, NEW k \in 1..n, i < j, list[k].path = new[j].path
       PROVE  \E l \in 1..k - 1 : list[l].path = new[i].path
  <2>1. i \in 1..L
    BY <1>4, <1>13
  <2>2. CASE k \in 1..n - 1
    <3>1. j \in 1..L
      BY <1>12, <1>13, <2>2
    <3>2. new[i].path = map[i].path /\ new[j].path = map[j].path
      BY <1>4, <2>1, <3>1
    <3>3. \A a, b \in 1..Len(map), c \in 1..n - 1 :
             a < b /\ list[c].path = map[b].path => \E l \in 1..c - 1 : list[l].path = map[a].path
      BY DEF RoutesUpTo
    <3>4. i \in 1..Len(map) /\ j \in 1..Len(map) /\ list[k].path = map[j].path
      BY <1>3, <1>13, <2>1, <3>1, <3>2
    <3>5. \E l \in 1..k - 1 : list[l].path = map[i].path
      BY <1>13, <2>2, <3>3, <3>4
    <3> QED BY <3>2, <3>5
  <2>3. CASE k = n
    <3>1. new[i].path = map[i].path
      BY <1>4, <2>1
    <3>2. PICK l \in 1..n - 1 : list[l].path = map[i].path
      BY <1>3, <2>1 DEF RoutesUpTo
    <3>3. l \in 1..k - 1
      BY <2>3, <3>2
    <3> QED BY <3>1, <3>2, <3>3
  <2> QED BY <1>6, <2>2, <2>3
<1>14. ASSUME NEW i \in 1..N PROVE MethodsAre(new[i].methods, new[i].path, list, n)
  <2>1. PICK path, ms : path = new[i].path /\ ms = new[i].methods
    OBVIOUS
  <2>2. CASE i # k0
    <3>1. i \in 1..L /\ path # d.path /\ path = map[i].path /\ ms = map[i].methods
      BY <1>4, <1>9, <2>1, <2>2
    <3>2. MethodsAre(ms, path, list, n - 1)
      BY <1>3, <3>1 DEF RoutesUpTo
    <3>3. list[n].path # path
      BY <1>1, <3>1
    <3>4. \A x : x \in DOMAIN ms
                   <=> \E k \in 1..n : list[k].path = path /\ list[k].method = x
      BY <1>6, <1>7, <3>2, <3>3 DEF MethodsAre
    <3>5. ASSUME NEW k \in 1..n, list[k].path = path,
                 \A l \in k + 1..n : list[l].path = path => list[l].method # list[k].method
          PROVE  ms[list[k].method] = list[k].handler
      <4>1. k \in 1..n - 1 /\ \A l \in k + 1..n - 1 : l \in k + 1..n
        BY <1>6, <3>3, <3>5
      <4> QED BY <3>2, <3>5, <4>1 DEF MethodsAre
    <3> QED BY <2>1, <3>4, <3>5 DEF MethodsAre
  <2>3. CASE i = k0 /\ k0 \in 1..L
    <3>1. /\ path = d.path /\ path = map[i].path
          /\ DOMAIN ms = DOMAIN map[i].methods \cup {d.method} /\ ms[d.method] = d.handler
          /\ \A x \in DOMAIN map[i].methods : x # d.method => ms[x] = map[i].methods[x]
      BY <1>2, <1>3, <1>4, <2>1, <2>3 DEF AddedAt
    <3>2. MethodsAre(map[i].methods, path, list, n - 1)
      BY <1>3, <2>3, <3>1 DEF RoutesUpTo
    <3>3. \A x : x \in DOMAIN ms
                   <=> \E k \in 1..n : list[k].path = path /\ list[k].method = x
      BY <1>1, <1>6, <1>7, <3>1, <3>2 DEF MethodsAre
    <3>4. ASSUME NEW k \in 1..n, list[k].path = path,
                 \A l \in k + 1..n : list[l].path = path => list[l].method # list[k].method
          PROVE  ms[list[k].method] = list[k].handler
      <4>1. CASE k = n
        BY <1>1, <3>1, <4>1
      <4>2. CASE k \in 1..n - 1
        <5>1. n \in k + 1..n /\ \A l \in k + 1..n - 1 : l \in k + 1..n
          BY <4>2
        <5>2. d.method # list[k].method
          BY <1>1, <3>1, <3>4, <5>1
        <5>3. list[k].method \in DOMAIN map[i].methods
          BY <3>2, <3>4, <4>2 DEF MethodsAre
        <5>4. map[i].methods[list[k].method] = list[k].handler
          BY <3>2, <3>4, <4>2, <5>1 DEF MethodsAre
        <5> QED BY <3>1, <5>2, <5>3, <5>4
      <4> QED BY <1>6, <4>1, <4>2
    <3> QED BY <2>1, <3>3, <3>4 DEF MethodsAre
  <2>4. CASE i = k0 /\ k0 \notin 1..L
    <3>1. \A k \in 1..n - 1 : list[k].path # path
      BY <1>12, <2>1, <2>4
    <3>2. path = d.path /\ DOMAIN ms = {d.method} /\ ms[d.method] = d.handler
      BY <1>2, <1>3, <1>4, <2>1, <2>4 DEF AddedAt
    <3> QED BY <1>1, <1>6, <1>7, <2>1, <3>1, <3>2 DEF MethodsAre
  <2> QED BY <2>2, <2>3, <2>4
<1> QED BY <1>1, <1>3, <1>8, <1>10, <1>11, <1>13, <1>14 DEF RoutesUpTo

\* g holds the maps after each of the declarations in list.
AreRoutes(g, list) ==
    g = [n \in 0..Len(list) |-> IF n = 0 THEN << >> ELSE Added(g[n - 1], list[n])]

\* buildRoutes() makes the map of all declarations.
LEMMA BuildRoutesFacts ==
    ASSUME NEW P, NEW T, NEW H, NEW list, Len(list) \in Nat,
           \A k \in 1..Len(list) : /\ list[k].path \in P /\ list[k].method \in T
                                   /\ list[k].handler \in H
    PROVE  /\ BuildRoutes(list) \in RouteMaps(P, T, H)
           /\ RoutesUpTo(BuildRoutes(list), list, Len(list))
<1>1. PICK K, S : K = Len(list) /\ S = RouteMaps(P, T, H)
  OBVIOUS
<1>2. K \in Nat /\ << >> \in S
  BY <1>1 DEF RouteMaps
<1>3. \A n \in 1..K : \A map \in S : Added(map, list[n]) \in S
  BY <1>1, AddedFacts
<1>4. \E g : AreRoutes(g, list)
  <2> DEFINE step == [n \in 1..K |-> [map \in S |-> Added(map, list[n])]]
  <2>1. AreSteps(step, K, S)
    BY <1>3 DEF AreSteps
  <2>2. \A n \in 1..K : \A map \in S : step[n][map] = Added(map, list[n])
    OBVIOUS
  <2> HIDE DEF step
  <2>3. PICK g : Iterates(g, K, S, << >>, step)
    BY <1>2, <2>1, IterationExists
  <2>4. g \in [0..K -> S] /\ g[0] = << >> /\ \A n \in 1..K : g[n] = step[n][g[n - 1]]
    BY <2>3 DEF Iterates
  <2>5. \A n \in 1..K : n - 1 \in 0..K
    BY <1>2
  <2>6. \A n \in 1..K : g[n] = Added(g[n - 1], list[n])
    BY <2>2, <2>4, <2>5
  <2>7. \A n \in 0..K : n = 0 \/ n \in 1..K
    BY <1>2
  <2>8. g = [n \in 0..K |-> IF n = 0 THEN << >> ELSE Added(g[n - 1], list[n])]
    BY <2>4, <2>6, <2>7
  <2> QED BY <1>1, <2>8 DEF AreRoutes
<1>5. PICK g : AreRoutes(g, list) /\ BuildRoutes(list) = g[Len(list)]
  BY <1>4 DEF BuildRoutes, AreRoutes
<1>6. g[0] = << >> /\ \A n \in 1..K : g[n] = Added(g[n - 1], list[n])
  <2>1. \A n \in 1..K : n \in 0..K /\ n # 0
    BY <1>2
  <2>2. 0 \in 0..K
    BY <1>2
  <2> QED BY <1>1, <1>5, <2>1, <2>2 DEF AreRoutes
<1> DEFINE Q == { n \in 0..K : g[n] \in S /\ RoutesUpTo(g[n], list, n) }
<1>7. 0 \in Q
  <2>1. Len(<< >>) = 0
    OBVIOUS
  <2>2. RoutesUpTo(<< >>, list, 0)
    BY <2>1 DEF RoutesUpTo, PathsOnce
  <2>3. 0 \in 0..K
    BY <1>2
  <2> QED BY <1>2, <1>6, <2>2, <2>3
<1>8. ASSUME NEW n \in 1..K, n - 1 \in Q PROVE n \in Q
  <2>1. n \in Nat /\ n # 0 /\ n \in 0..K
    BY <1>2
  <2>2. /\ g[n - 1] \in S /\ RoutesUpTo(g[n - 1], list, n - 1)
        /\ g[n] = Added(g[n - 1], list[n]) /\ g[n] \in S
    BY <1>3, <1>6, <1>8
  <2>3. RoutesUpTo(g[n], list, n)
    BY <1>1, <2>1, <2>2, AddedKeepsRoutes
  <2> QED BY <2>1, <2>2, <2>3
<1>9. \A n \in 0..K : n \in Q
  <2> HIDE DEF Q
  <2> QED BY ONLY <1>2, <1>7, <1>8, UpTo
<1>10. K \in Q
  BY <1>2, <1>9
<1> QED BY <1>1, <1>5, <1>10

\* The methods of an endpoint that the server adds.
IsOwn(methods) == methods \in { GetOnly(x) : x \in {"spec", "ui", "alive", "ready"} }

\* new has the paths of map, in their order, and endpoints of the server.
Enlarges(new, map) ==
    /\ Len(map) \in Nat /\ Len(new) \in Nat /\ Len(map) <= Len(new)
    /\ \A i \in 1..Len(map) : /\ new[i].path = map[i].path
                              /\ new[i].methods = map[i].methods \/ IsOwn(new[i].methods)
    /\ \A i \in 1..Len(new) : i \in 1..Len(map) \/ IsOwn(new[i].methods)

\* Enlarging twice is enlarging.
LEMMA EnlargesTwice ==
    ASSUME NEW a, NEW b, NEW c, Enlarges(b, a), Enlarges(c, b)
    PROVE  Enlarges(c, a)
<1>1. Len(a) \in Nat /\ Len(b) \in Nat /\ Len(c) \in Nat /\ Len(a) <= Len(b) /\ Len(b) <= Len(c)
  BY DEF Enlarges
<1>2. Len(a) <= Len(c) /\ \A i \in 1..Len(a) : i \in 1..Len(b)
  BY <1>1
<1>3. \A i \in 1..Len(a) : /\ c[i].path = a[i].path
                           /\ c[i].methods = a[i].methods \/ IsOwn(c[i].methods)
  BY <1>2 DEF Enlarges
<1>4. \A i \in 1..Len(c) : i \in 1..Len(a) \/ IsOwn(c[i].methods)
  <2>1. ASSUME NEW i \in 1..Len(c) PROVE i \in 1..Len(a) \/ IsOwn(c[i].methods)
    <3>1. CASE i \in 1..Len(b) /\ c[i].methods = b[i].methods
      BY <3>1 DEF Enlarges
    <3> QED BY <3>1 DEF Enlarges
  <2> QED BY <2>1
<1> QED BY <1>1, <1>2, <1>3, <1>4 DEF Enlarges

\* An endpoint of the server enlarges the map.
LEMMA OwnFacts ==
    ASSUME NEW P, NEW T, NEW H, "GET" \in T, NEW map \in RouteMaps(P, T, H), NEW path \in P,
           NEW x \in {"spec", "ui", "alive", "ready"} \cap H
    PROVE  /\ SetPath(map, path, GetOnly(x)) \in RouteMaps(P, T, H)
           /\ Enlarges(SetPath(map, path, GetOnly(x)), map)
           /\ PathsOnce(map) => PathsOnce(SetPath(map, path, GetOnly(x)))
<1>1. PICK ms, new : ms = GetOnly(x) /\ new = SetPath(map, path, ms)
  OBVIOUS
<1>2. ms \in MethodsOf(T, H)
  <2>1. ms \in [{"GET"} -> H]
    BY <1>1 DEF GetOnly
  <2> QED BY <2>1 DEF MethodsOf
<1>3. PICK k : SetAt(map, new, path, ms, k) /\ new \in RouteMaps(P, T, H)
  BY <1>1, <1>2, SetPathFacts
<1>4. IsOwn(ms)
  BY <1>1 DEF IsOwn
<1>5. Len(map) \in Nat /\ Len(new) \in Nat
  BY <1>3, RouteMapFacts
<1>6. Enlarges(new, map)
  <2>1. Len(map) <= Len(new)
    BY <1>3, <1>5 DEF SetAt
  <2>2. \A i \in 1..Len(map) : /\ new[i].path = map[i].path
                               /\ new[i].methods = map[i].methods \/ IsOwn(new[i].methods)
    BY <1>3, <1>4 DEF SetAt
  <2>3. \A i \in 1..Len(new) : i \in 1..Len(map) \/ i = k
    BY <1>3, <1>5 DEF SetAt
  <2>4. IsOwn(new[k].methods)
    BY <1>3, <1>4 DEF SetAt
  <2> QED BY <1>5, <2>1, <2>2, <2>3, <2>4 DEF Enlarges
<1> QED BY <1>1, <1>3, <1>5, <1>6, SetAtOnce

\* The constructor of HttpServer: the declared routes and then its endpoints.
LEMMA RoutesMapFacts ==
    ASSUME NEW list, Len(list) \in Nat, NEW opts
    PROVE  /\ PathsOnce(RoutesMap(list, opts)) /\ Len(RoutesMap(list, opts)) \in Nat
           /\ DOMAIN RoutesMap(list, opts) = 1..Len(RoutesMap(list, opts))
           /\ RoutesUpTo(BuildRoutes(list), list, Len(list))
           /\ Enlarges(RoutesMap(list, opts), BuildRoutes(list))
<1>1. PICK P : P = { list[k].path : k \in 1..Len(list) }
                      \cup {<<"openapi.json">>, <<"docs">>, <<"health">>, <<"ready">>}
  OBVIOUS
<1>2. PICK T : T = { list[k].method : k \in 1..Len(list) } \cup {"GET"}
  OBVIOUS
<1>3. PICK H : H = { list[k].handler : k \in 1..Len(list) } \cup {"spec", "ui", "alive", "ready"}
  OBVIOUS
<1>4. PICK S : S = RouteMaps(P, T, H)
  OBVIOUS
<1>5. PICK a : a = BuildRoutes(list)
  OBVIOUS
<1>6. a \in S /\ RoutesUpTo(a, list, Len(list))
  <2>1. \A k \in 1..Len(list) : list[k].path \in P /\ list[k].method \in T /\ list[k].handler \in H
    BY <1>1, <1>2, <1>3
  <2> QED BY <1>4, <1>5, <2>1, BuildRoutesFacts
<1>7. PathsOnce(a) /\ Enlarges(a, a)
  <2>1. Len(a) \in Nat
    BY <1>4, <1>6, RouteMapFacts
  <2> QED BY <1>6, <2>1 DEF RoutesUpTo, Enlarges
<1> DEFINE OK(map) == map \in S /\ PathsOnce(map) /\ Enlarges(map, a)
<1>8. ASSUME NEW map, OK(map), NEW path \in {<<"openapi.json">>, <<"docs">>, <<"health">>, <<"ready">>},
             NEW x \in {"spec", "ui", "alive", "ready"}
      PROVE  OK(SetPath(map, path, GetOnly(x)))
  <2>1. path \in P /\ x \in {"spec", "ui", "alive", "ready"} \cap H /\ "GET" \in T
    BY <1>1, <1>2, <1>3
  <2> QED BY <1>4, <1>8, <2>1, OwnFacts, EnlargesTwice
<1>9. PICK b : b = WithOpenApi(a, opts.openapi, opts.ui)
  OBVIOUS
<1>10. OK(b)
  <2>1. OK(SetPath(a, <<"openapi.json">>, GetOnly("spec")))
    BY <1>6, <1>7, <1>8
  <2> HIDE DEF OK
  <2>2. OK(SetPath(SetPath(a, <<"openapi.json">>, GetOnly("spec")), <<"docs">>, GetOnly("ui")))
    BY <1>8, <2>1
  <2>3. OK(a)
    BY <1>6, <1>7 DEF OK
  <2> QED BY <1>9, <2>1, <2>2, <2>3 DEF WithOpenApi
<1>11. PICK c : c = WithHealth(b, opts.health)
  OBVIOUS
<1>12. OK(c)
  <2> HIDE DEF OK
  <2>1. OK(SetPath(b, <<"health">>, GetOnly("alive")))
    BY <1>8, <1>10
  <2>2. OK(SetPath(SetPath(b, <<"health">>, GetOnly("alive")), <<"ready">>, GetOnly("ready")))
    BY <1>8, <2>1
  <2> QED BY <1>10, <1>11, <2>2 DEF WithHealth
<1>13. c = RoutesMap(list, opts)
  BY <1>5, <1>9, <1>11 DEF RoutesMap
<1>14. Len(c) \in Nat /\ DOMAIN c = 1..Len(c)
  BY <1>4, <1>12, RouteMapFacts
<1> QED BY <1>5, <1>6, <1>12, <1>13, <1>14

-----------------------------------------------------------------------------

\* The first entry of map that matches url, or 0.
FirstMatch(map, url) == SelectInSeq(map, LAMBDA e : Matches(e.path, url))

\* The first entry that matches a URL, or zero when there is none.
LEMMA FirstMatchFacts ==
    ASSUME NEW map, NEW url, Len(map) \in Nat
    PROVE  \/ /\ FirstMatch(map, url) = 0
              /\ \A i \in 1..Len(map) : ~Matches(map[i].path, url)
           \/ /\ FirstMatch(map, url) \in 1..Len(map)
              /\ Matches(map[FirstMatch(map, url)].path, url)
              /\ \A i \in 1..Len(map) :
                    Matches(map[i].path, url) => FirstMatch(map, url) <= i
<1> DEFINE I == { i \in 1..Len(map) : Matches(map[i].path, url) }
<1>1. FirstMatch(map, url) = IF I # {} THEN Min(I) ELSE 0
  BY DEF FirstMatch, SelectInSeq
<1>2. I # {} => Min(I) \in I /\ \A i \in I : Min(I) <= i
  <2>1. I \in SUBSET Nat
    OBVIOUS
  <2> HIDE DEF I
  <2> QED BY <2>1, MinFacts
<1> QED BY <1>1, <1>2

\* The reference for a list of declarations.
Expected(list, url, method) ==
    LET same == { i \in DOMAIN list : /\ list[i].path = list[FirstMatch(list, url)].path
                                      /\ list[i].method = method }
    IN  IF FirstMatch(list, url) = 0 THEN "404"
        ELSE IF same = {} THEN "405" ELSE list[Max(same)].handler

\* The first entry that matches is that of the first declaration that does.
LEMMA DispatchAsDeclared ==
    ASSUME NEW list, Len(list) \in Nat, DOMAIN list = 1..Len(list),
           NEW map, NEW base, RoutesUpTo(base, list, Len(list)), Enlarges(map, base),
           NEW url, NEW method,
           \A i \in 1..Len(map) : Matches(map[i].path, url) => ~IsOwn(map[i].methods)
    PROVE  Dispatch(map, url, method) = Expected(list, url, method)
<1>1. PICK N, L, i, k : /\ N = Len(list) /\ L = Len(base)
                        /\ i = FirstMatch(map, url) /\ k = FirstMatch(list, url)
  OBVIOUS
<1>2. /\ N \in Nat /\ L \in Nat /\ Len(map) \in Nat /\ L <= Len(map)
      /\ \A j \in 1..L : j \in 1..Len(map) /\ map[j].path = base[j].path
      /\ \A j \in 1..Len(map) : Matches(map[j].path, url) =>
             j \in 1..L /\ map[j].methods = base[j].methods
  BY <1>1 DEF Enlarges
<1>3. Dispatch(map, url, method) =
         IF i = 0 THEN "404"
         ELSE IF method \in DOMAIN map[i].methods THEN map[i].methods[method] ELSE "405"
  BY <1>1 DEF Dispatch, FirstMatch
<1>4. CASE i = 0
  <2>1. \A j \in 1..Len(map) : ~Matches(map[j].path, url)
    <3>1. FirstMatch(map, url) \notin 1..Len(map)
      BY <1>1, <1>2, <1>4
    <3> QED BY <1>2, <3>1, FirstMatchFacts
  <2>2. \A l \in 1..N : \E j \in 1..L : base[j].path = list[l].path
    BY <1>1 DEF RoutesUpTo
  <2>3. \A l \in 1..N : ~Matches(list[l].path, url)
    BY <1>2, <2>1, <2>2
  <2>4. k = 0
    BY <1>1, <1>2, <2>3, FirstMatchFacts
  <2> QED BY <1>1, <1>3, <1>4, <2>4 DEF Expected
<1>5. CASE i # 0
  <2>1. /\ i \in 1..Len(map) /\ Matches(map[i].path, url)
        /\ \A j \in 1..Len(map) : Matches(map[j].path, url) => i <= j
    BY <1>1, <1>2, <1>5, FirstMatchFacts
  <2>2. i \in 1..L /\ map[i].methods = base[i].methods /\ map[i].path = base[i].path
    BY <1>2, <2>1
  <2>3. PICK l0 \in 1..N : list[l0].path = base[i].path
    BY <1>1, <2>2 DEF RoutesUpTo
  <2>4. Matches(list[l0].path, url)
    BY <2>1, <2>2, <2>3
  <2>5. /\ k \in 1..N /\ Matches(list[k].path, url)
        /\ \A l \in 1..N : Matches(list[l].path, url) => k <= l
    BY <1>1, <1>2, <2>3, <2>4, FirstMatchFacts
  <2>6. PICK j \in 1..L : base[j].path = list[k].path
    BY <1>1, <2>5 DEF RoutesUpTo
  <2>7. i <= j
    BY <1>2, <2>1, <2>5, <2>6
  <2>8. i = j
    <3>1. ASSUME i < j PROVE FALSE
      <4>1. PICK l \in 1..k - 1 : list[l].path = base[i].path
        BY <1>1, <2>2, <2>5, <2>6, <3>1 DEF RoutesUpTo
      <4>2. l \in 1..N /\ ~(k <= l) /\ Matches(list[l].path, url)
        BY <1>2, <2>1, <2>2, <2>5, <4>1
      <4> QED BY <2>5, <4>2
    <3> QED BY <1>2, <2>2, <2>7, <3>1
  <2>9. PICK path, ms : path = list[k].path /\ ms = map[i].methods
    OBVIOUS
  <2>10. MethodsAre(ms, path, list, N)
    BY <1>1, <2>2, <2>6, <2>8, <2>9 DEF RoutesUpTo
  <2>11. PICK same : same = { l \in 1..N : list[l].path = path /\ list[l].method = method }
    OBVIOUS
  <2>12. method \in DOMAIN ms <=> same # {}
    BY <2>10, <2>11 DEF MethodsAre
  <2>13. ASSUME same # {} PROVE ms[method] = list[Max(same)].handler
    <3>1. PICK x : x = Max(same)
      OBVIOUS
    <3>2. same \in SUBSET (0..N)
      BY <1>2, <2>11
    <3>3. x \in same /\ \A l \in same : l <= x
      BY <1>2, <2>13, <3>1, <3>2, MaxFacts
    <3>4. x \in 1..N /\ list[x].path = path /\ list[x].method = method
      BY <2>11, <3>3
    <3>5. \A l \in x + 1..N : list[l].path = path => list[l].method # list[x].method
      <4>1. ASSUME NEW l \in x + 1..N, list[l].path = path, list[l].method = method PROVE FALSE
        <5>1. l \in 1..N /\ ~(l <= x)
          BY <1>2, <3>4
        <5> QED BY <2>11, <3>3, <4>1, <5>1
      <4> QED BY <3>4, <4>1
    <3> QED BY <2>10, <3>1, <3>4, <3>5 DEF MethodsAre
  <2>14. k # 0
    BY <2>5
  <2>15. Expected(list, url, method) = IF same = {} THEN "405" ELSE list[Max(same)].handler
    BY <1>1, <2>9, <2>11, <2>14 DEF Expected
  <2> QED BY <1>3, <1>5, <2>9, <2>12, <2>13, <2>15
<1> QED BY <1>4, <1>5

\* The server lets declarations that fit answer, if there are any.
LEMMA ServedAsDeclared ==
    ASSUME NEW list, Len(list) \in Nat, DOMAIN list = 1..Len(list),
           NEW map, DOMAIN map = 1..Len(map),
           NEW base, RoutesUpTo(base, list, Len(list)), Enlarges(map, base),
           NEW url, NEW method, NEW opts, NEW gateways,
           \A i \in 1..Len(map) : Matches(map[i].path, url) => ~IsOwn(map[i].methods),
           NEW fitting, fitting = { d \in ToSet(list) : Matches(d.path, url)
                                                          /\ d.method = method },
           fitting # {}
    PROVE  ServedBy(map, opts, gateways, url, method) \subseteq { d.handler : d \in fitting }
<1>1. PICK N, L : N = Len(list) /\ L = Len(base)
  OBVIOUS
<1>2. /\ N \in Nat /\ L \in Nat
      /\ \A j \in 1..L : j \in 1..Len(map) /\ map[j].path = base[j].path
      /\ \A j \in 1..Len(map) : Matches(map[j].path, url) =>
             j \in 1..L /\ map[j].methods = base[j].methods
  BY <1>1 DEF Enlarges
<1>3. PICK is : is = { j \in DOMAIN map : /\ Matches(map[j].path, url)
                                          /\ method \in DOMAIN map[j].methods }
  OBVIOUS
<1>4. ServedBy(map, opts, gateways, url, method) =
         IF is = {} THEN {Fallback(opts, gateways, url, method)}
         ELSE { map[j].methods[method] : j \in is }
  BY <1>3 DEF ServedBy
<1>5. \A j \in 1..L : MethodsAre(base[j].methods, base[j].path, list, N)
  BY <1>1 DEF RoutesUpTo
<1>6. is # {}
  <2>1. PICK l \in 1..N : Matches(list[l].path, url) /\ list[l].method = method
    BY <1>1 DEF ToSet
  <2>2. PICK j \in 1..L : base[j].path = list[l].path
    BY <1>1, <2>1 DEF RoutesUpTo
  <2>3. /\ j \in 1..Len(map) /\ Matches(map[j].path, url)
        /\ map[j].methods = base[j].methods
    BY <1>2, <2>1, <2>2
  <2>4. method \in DOMAIN base[j].methods
    BY <1>5, <2>1, <2>2 DEF MethodsAre
  <2> QED BY <1>3, <2>3, <2>4
<1>7. ASSUME NEW j \in is PROVE map[j].methods[method] \in { d.handler : d \in fitting }
  <2>1. /\ j \in 1..L /\ Matches(base[j].path, url)
        /\ map[j].methods = base[j].methods /\ method \in DOMAIN base[j].methods
    BY <1>2, <1>3
  <2>2. PICK path, ms : path = base[j].path /\ ms = base[j].methods
    OBVIOUS
  <2>3. MethodsAre(ms, path, list, N)
    BY <1>5, <2>1, <2>2
  <2>4. PICK same : same = { l \in 1..N : list[l].path = path /\ list[l].method = method }
    OBVIOUS
  <2>5. same # {}
    BY <2>1, <2>2, <2>3, <2>4 DEF MethodsAre
  <2>6. PICK x : x = Max(same)
    OBVIOUS
  <2>7. same \in SUBSET (0..N)
    BY <1>2, <2>4
  <2>8. x \in same /\ \A l \in same : l <= x
    BY <1>2, <2>5, <2>6, <2>7, MaxFacts
  <2>9. x \in 1..N /\ list[x].path = path /\ list[x].method = method
    BY <2>4, <2>8
  <2>10. \A l \in x + 1..N : list[l].path = path => list[l].method # list[x].method
    <3>1. ASSUME NEW l \in x + 1..N, list[l].path = path, list[l].method = method PROVE FALSE
      <4>1. l \in 1..N /\ ~(l <= x)
        BY <1>2, <2>9
      <4> QED BY <2>4, <2>8, <3>1, <4>1
    <3> QED BY <2>9, <3>1
  <2>11. ms[method] = list[x].handler
    BY <2>3, <2>9, <2>10 DEF MethodsAre
  <2>12. list[x] \in fitting
    BY <1>1, <2>1, <2>2, <2>9 DEF ToSet
  <2> QED BY <2>1, <2>2, <2>11, <2>12
<1> QED BY <1>4, <1>6, <1>7

\* g holds the concatenations of the first sequences of seqs.
AreFlattened(g, seqs) ==
    g = [i \in 1..Len(seqs) |-> IF i = 1 THEN seqs[i] ELSE g[i - 1] \o seqs[i]]

\* A concatenation of sequences over S is one.
LEMMA FlattenFacts ==
    ASSUME NEW S, NEW seqs \in Seq(Seq(S))
    PROVE  FlattenSeq(seqs) \in Seq(S)
<1>1. PICK K, U : K = Len(seqs) /\ U = Seq(S)
  OBVIOUS
<1>2. K \in Nat /\ \A i \in 1..K : seqs[i] \in U
  BY <1>1
<1>3. CASE K = 0
  <2>1. seqs = << >>
    <3>1. \A s \in Seq(U) : Len(s) = 0 => s = << >>
      OBVIOUS
    <3> QED BY <1>1, <1>3, <3>1
  <2>2. << >> \in Seq(S) /\ Len(<< >>) = 0
    OBVIOUS
  <2> QED BY <2>1, <2>2 DEF FlattenSeq
<1>4. CASE K # 0
  <2>1. 1 \in 1..K /\ seqs[1] \in U /\ K - 1 \in Nat
    BY <1>2, <1>4
  <2>2. ASSUME NEW i \in 1..K - 1, NEW s \in U PROVE s \o seqs[i + 1] \in U
    <3>1. seqs[i + 1] \in U
      BY <1>2, <2>1
    <3> QED BY <1>1, <3>1
  <2> DEFINE step == [i \in 1..K - 1 |-> [s \in U |-> s \o seqs[i + 1]]]
  <2>3. AreSteps(step, K - 1, U)
    BY <2>2 DEF AreSteps
  <2>4. \A i \in 1..K - 1 : \A s \in U : step[i][s] = s \o seqs[i + 1]
    OBVIOUS
  <2> HIDE DEF step
  <2>5. PICK h : Iterates(h, K - 1, U, seqs[1], step)
    BY <2>1, <2>3, IterationExists
  <2>6. /\ h \in [0..K - 1 -> U] /\ h[0] = seqs[1]
        /\ \A i \in 1..K - 1 : h[i] = step[i][h[i - 1]]
    BY <2>5 DEF Iterates
  <2>7. ASSUME NEW i \in 1..K - 1 PROVE h[i] = h[i - 1] \o seqs[i + 1]
    <3>1. i - 1 \in 0..K - 1
      BY <2>1
    <3> QED BY <2>4, <2>6, <3>1
  <2> DEFINE f == [i \in 1..K |-> h[i - 1]]
  <2>8. \A i \in 1..K : f[i] = IF i = 1 THEN seqs[i] ELSE f[i - 1] \o seqs[i]
    <3>1. ASSUME NEW i \in 1..K, i # 1 PROVE f[i] = f[i - 1] \o seqs[i]
      <4>1. i - 1 \in 1..K - 1 /\ i - 1 \in 1..K /\ (i - 1) + 1 = i
        BY <1>2, <3>1
      <4>2. h[i - 1] = h[(i - 1) - 1] \o seqs[i]
        BY <2>7, <4>1
      <4> QED BY <4>1, <4>2
    <3>2. f[1] = seqs[1]
      BY <2>1, <2>6
    <3> QED BY <3>1, <3>2
  <2>9. AreFlattened(f, seqs)
    <3>1. f = [i \in 1..K |-> IF i = 1 THEN seqs[i] ELSE f[i - 1] \o seqs[i]]
      BY <2>8
    <3> QED BY <1>1, <3>1 DEF AreFlattened
  <2>10. \E g : AreFlattened(g, seqs)
    <3> HIDE DEF f
    <3> QED BY <2>9
  <2>11. PICK g : AreFlattened(g, seqs) /\ FlattenSeq(seqs) = g[Len(seqs)]
    <3>1. Len(seqs) # 0
      BY <1>1, <1>4
    <3> QED BY <2>10, <3>1 DEF FlattenSeq, AreFlattened
  <2>12. \A i \in 1..K : g[i] = IF i = 1 THEN seqs[i] ELSE g[i - 1] \o seqs[i]
    BY <1>1, <2>11 DEF AreFlattened
  <2> DEFINE Q == { i \in 0..K : i = 0 \/ g[i] \in U }
  <2>13. 0 \in Q
    BY <1>2
  <2>14. ASSUME NEW i \in 1..K, i - 1 \in Q PROVE i \in Q
    <3>1. seqs[i] \in U /\ g[i] = IF i = 1 THEN seqs[i] ELSE g[i - 1] \o seqs[i]
      BY <1>2, <2>12
    <3>2. i = 1 \/ g[i - 1] \in U
      BY <2>14
    <3>3. \A s, r \in U : s \o r \in U
      BY <1>1
    <3>4. g[i] \in U
      BY <3>1, <3>2, <3>3
    <3> QED BY <1>2, <3>4
  <2>15. \A i \in 0..K : i \in Q
    <3> HIDE DEF Q
    <3> QED BY ONLY <1>2, <2>13, <2>14, UpTo
  <2>16. g[K] \in U
    <3>1. K \in 0..K
      BY <1>2
    <3>2. K \in Q
      BY <2>15, <3>1
    <3> QED BY <1>4, <3>2
  <2> QED BY <1>1, <2>11, <2>16
<1> QED BY <1>3, <1>4

\* The declarations of the registered controllers are a list.
LEMMA DeclarationsFacts ==
    ASSUME ModulesTypes, ProgramInv
    PROVE  /\ Len(DeclarationsOf(controllers)) \in Nat
           /\ DOMAIN DeclarationsOf(controllers) = 1..Len(DeclarationsOf(controllers))
<1> DEFINE D(t) == Declared(declared[t].path, declared[t].routes)
           seqs == [i \in DOMAIN controllers |-> D(controllers[i])]
<1>1. PICK S : S = UNION { ToSet(D(t)) : t \in Controllers }
  OBVIOUS
<1>2. ASSUME NEW t \in Controllers PROVE D(t) \in Seq(S)
  <2>1. PICK list : list = declared[t].routes
    OBVIOUS
  <2>2. list \in Seq(ToSet(list))
    <3>1. PICK p \in Programs : declared = p.declared
      BY DEF ProgramInv
    <3>2. \A u \in Controllers : p.declared[u].routes \in Seq(ToSet(p.declared[u].routes))
      BY BootAssumption
    <3> QED BY <2>1, <3>1, <3>2
  <2>3. Len(list) \in Nat /\ DOMAIN list = 1..Len(list)
    BY <2>2
  <2>4. PICK s : s = D(t)
    OBVIOUS
  <2>5. s = [i \in 1..Len(list) |-> [list[i] EXCEPT !.path = JoinPaths(declared[t].path, @)]]
    BY <2>1, <2>3, <2>4 DEF Declared
  <2>6. ToSet(s) \subseteq S
    BY <1>1, <2>4
  <2>7. \A i \in 1..Len(list) : s[i] \in S
    BY <2>5, <2>6 DEF ToSet
  <2>8. s \in [1..Len(list) -> S]
    BY <2>5, <2>7
  <2> QED BY <2>3, <2>4, <2>8
<1>3. Len(controllers) \in Nat /\ DOMAIN controllers = 1..Len(controllers)
      /\ \A i \in 1..Len(controllers) : controllers[i] \in Controllers
  <2>1. controllers \in Seq(Controllers)
    BY DEF ModulesTypes
  <2> QED BY <2>1
<1>4. seqs \in Seq(Seq(S))
  <2>1. \A i \in 1..Len(controllers) : D(controllers[i]) \in Seq(S)
    BY <1>2, <1>3
  <2> HIDE DEF D
  <2> QED BY <1>3, <2>1
<1>5. DeclarationsOf(controllers) = FlattenSeq(seqs)
  BY DEF DeclarationsOf
<1>6. FlattenSeq(seqs) \in Seq(S)
  <2> HIDE DEF seqs
  <2> QED BY <1>4, FlattenFacts
<1> QED BY <1>5, <1>6

\* The entries of map that match url.
MatchesOf(map, url) == { i \in DOMAIN map : Matches(map[i].path, url) }

\* The server answers as the in-memory application where one entry matches, or
\* none.
ServedAlike(map, opts, gateways, url, method) ==
    LET answer == Dispatch(map, url, method) IN
    /\ /\ MatchesOf(map, url) # {} /\ Cardinality(MatchesOf(map, url)) = 1
       /\ answer # "405"
       => ServedBy(map, opts, gateways, url, method) = {answer}
    /\ MatchesOf(map, url) = {} =>
          /\ answer = "404"
          /\ ServedBy(map, opts, gateways, url, method)
                = {Fallback(opts, gateways, url, method)}

\* Any URL and any method are answered like that, whatever the map.
LEMMA ServedFacts ==
    ASSUME NEW map, Len(map) \in Nat, DOMAIN map = 1..Len(map), NEW opts, NEW gateways,
           NEW url, NEW method
    PROVE  ServedAlike(map, opts, gateways, url, method)
<1>0. PICK matching : /\ matching = MatchesOf(map, url)
                      /\ matching = { i \in 1..Len(map) : Matches(map[i].path, url) }
  BY DEF MatchesOf
<1>1. PICK i, is : /\ i = FirstMatch(map, url)
                   /\ is = { j \in DOMAIN map : /\ Matches(map[j].path, url)
                                                /\ method \in DOMAIN map[j].methods }
  OBVIOUS
<1>2. Dispatch(map, url, method) =
         IF i = 0 THEN "404"
         ELSE IF method \in DOMAIN map[i].methods THEN map[i].methods[method] ELSE "405"
  BY <1>1 DEF Dispatch, FirstMatch
<1>3. ServedBy(map, opts, gateways, url, method) =
         IF is = {} THEN {Fallback(opts, gateways, url, method)}
         ELSE { map[j].methods[method] : j \in is }
  BY <1>1 DEF ServedBy
<1>4. ASSUME matching # {}, Cardinality(matching) = 1, Dispatch(map, url, method) # "405"
      PROVE  ServedBy(map, opts, gateways, url, method) = {Dispatch(map, url, method)}
  <2>1. IsFiniteSet(matching)
    <3>1. matching \in SUBSET (1..Len(map))
      BY <1>0
    <3>2. IsFiniteSet(1..Len(map))
      BY FS_Interval
    <3> QED BY <3>1, <3>2, FS_Subset
  <2>2. PICK k : matching = {k}
    BY <1>4, <2>1, FS_Singleton
  <2>3. k \in 1..Len(map) /\ Matches(map[k].path, url) /\ 0 \notin 1..Len(map)
    BY <1>0, <2>2
  <2>4. i \in 1..Len(map) /\ Matches(map[i].path, url)
    BY <1>1, <2>3, FirstMatchFacts
  <2>5. i = k
    BY <1>0, <2>2, <2>4
  <2>6. i # 0
    BY <2>3, <2>4
  <2>7. method \in DOMAIN map[k].methods
    BY <1>2, <1>4, <2>5, <2>6
  <2>8. is = {k}
    BY <1>0, <1>1, <2>2, <2>3, <2>7
  <2> QED BY <1>2, <1>3, <2>5, <2>6, <2>7, <2>8
<1>5. ASSUME matching = {}
      PROVE  /\ Dispatch(map, url, method) = "404"
             /\ ServedBy(map, opts, gateways, url, method)
                   = {Fallback(opts, gateways, url, method)}
  <2>1. \A j \in 1..Len(map) : ~Matches(map[j].path, url)
    BY <1>0, <1>5
  <2>2. i = 0
    BY <1>1, <2>1, FirstMatchFacts
  <2>3. is = {}
    BY <1>1, <2>1
  <2> QED BY <1>2, <1>3, <2>2, <2>3
<1> QED BY <1>0, <1>4, <1>5 DEF ServedAlike

\* RoutesAreFound of Boot: wherever no endpoint of the server's own is in the way, a
\* request whose URL matches a declared path is dispatched by the in-memory application to
\* the first such path, the last handler for its method or 405, and the server lets only
\* declarations that fit the request answer it, if there is one; where one path matches
\* the two agree, and no other URL reaches a controller.
THEOREM RoutesFound == Spec => []RoutesAreFound
<1>1. BootIInv => RoutesAreFound
  <2> SUFFICES ASSUME BootIInv, phase = "serving", NEW url \in Urls, NEW method \in Methods,
                      NEW own, own = { i \in DOMAIN routes : IsOwn(routes[i].methods) },
                      NEW matching, matching = MatchesOf(routes, url),
                      NEW fitting, fitting = { d \in ToSet(DeclarationsOf(controllers)) :
                                                  Matches(d.path, url) /\ d.method = method }
               PROVE  /\ matching \cap own = {} =>
                            /\ Dispatch(routes, url, method) = Reference(url, method)
                            /\ fitting # {} =>
                                  ServedBy(routes, options, Gateways, url, method)
                                     \subseteq { d.handler : d \in fitting }
                      /\ matching # {} /\ Cardinality(matching) = 1
                            /\ Dispatch(routes, url, method) # "405" =>
                            ServedBy(routes, options, Gateways, url, method)
                               = {Dispatch(routes, url, method)}
                      /\ matching = {} =>
                            /\ Dispatch(routes, url, method) = "404"
                            /\ ServedBy(routes, options, Gateways, url, method)
                                  = {Fallback(options, Gateways, url, method)}
    BY DEF RoutesAreFound, IsOwn, MatchesOf
  <2>1. PICK map, list, base, opts, gateways :
           /\ map = routes /\ list = DeclarationsOf(controllers) /\ base = BuildRoutes(list)
           /\ opts = options /\ gateways = Gateways
    OBVIOUS
  <2>2. Len(list) \in Nat /\ DOMAIN list = 1..Len(list)
    BY <2>1, DeclarationsFacts DEF BootIInv, ModulesIInv
  <2>3. map = RoutesMap(list, opts)
    BY <2>1 DEF BootIInv, RoutesInv
  <2>4. /\ Len(map) \in Nat /\ DOMAIN map = 1..Len(map)
        /\ RoutesUpTo(base, list, Len(list)) /\ Enlarges(map, base)
    BY <2>1, <2>2, <2>3, RoutesMapFacts
  <2>5. Reference(url, method) = Expected(list, url, method)
    BY <2>1 DEF Reference, Expected, FirstMatch
  <2>6. ASSUME matching \cap own = {}
        PROVE  /\ Dispatch(map, url, method) = Expected(list, url, method)
               /\ fitting # {} => ServedBy(map, opts, gateways, url, method)
                                     \subseteq { d.handler : d \in fitting }
    <3>1. \A i \in 1..Len(map) : Matches(map[i].path, url) => ~IsOwn(map[i].methods)
      BY <2>1, <2>4, <2>6 DEF MatchesOf
    <3>2. Dispatch(map, url, method) = Expected(list, url, method)
      BY <2>2, <2>4, <3>1, DispatchAsDeclared
    <3>3. fitting = { d \in ToSet(list) : Matches(d.path, url) /\ d.method = method }
      BY <2>1
    <3>4. fitting # {} => ServedBy(map, opts, gateways, url, method)
                             \subseteq { d.handler : d \in fitting }
      BY <2>2, <2>4, <3>1, <3>3, ServedAsDeclared
    <3> QED BY <3>2, <3>4
  <2>7. ServedAlike(map, opts, gateways, url, method)
    BY <2>4, ServedFacts
  <2> QED BY <2>1, <2>5, <2>6, <2>7 DEF ServedAlike
<1> QED BY <1>1, BootAlwaysIInv, PTL

\* TypeOK of Boot: the types of the modules it is composed of, the phases, the buses and
\* the calls; no path of the routes has two entries.
THEOREM BootTypeCorrect == Spec => []TypeOK
<1>1. BootIInv => TypeOK
  <2> SUFFICES ASSUME BootIInv PROVE TypeOK
    OBVIOUS
  <2>1. /\ ContainerIInv /\ ModulesIInv /\ BootPhaseInv /\ WiredInv /\ CallsInv
        /\ ProgramInv /\ RoutesInv /\ ModulesTypes
    BY DEF BootIInv, ModulesIInv
  <2>2. ContainerTypeOK
    BY <2>1, ContainerTyped
  <2>3. ModulesTypeOK
    <3>1. visits \in Seq(Visit) /\ modules \in Seq(ModuleClasses) /\ controllers \in Seq(Controllers)
      BY <2>1 DEF ModulesTypes
    <3>2. \A i \in DOMAIN visits : visits[i].module \in ToSet(modules)
      BY <2>1, <3>1, VisitSeqs DEF ModulesIInv, VisitsOK, Covers
    <3>3. ToSet(modules) \subseteq ModuleClasses /\ ToSet(controllers) \subseteq Controllers
      BY <3>1 DEF ToSet
    <3> QED BY <2>1, <3>2, <3>3 DEF ModulesTypeOK, ModulesIInv, ModulesTypes
  <2>4. wired \subseteq EventHandlers /\ commander \in CommandHandlers \cup {Nobody}
    BY <2>1 DEF WiredInv, Real
  <2>5. IsInjective([i \in DOMAIN routes |-> routes[i].path])
    <3>1. PathsOnce(routes) /\ DOMAIN routes = 1..Len(routes)
      <4>1. CASE phase = "serving"
        <5>1. PICK list : list = DeclarationsOf(controllers)
          OBVIOUS
        <5>2. Len(list) \in Nat
          BY <2>1, <5>1, DeclarationsFacts
        <5> QED BY <2>1, <4>1, <5>1, <5>2, RoutesMapFacts DEF RoutesInv
      <4>2. CASE phase # "serving"
        <5>1. routes = << >>
          BY <2>1, <4>2 DEF RoutesInv
        <5> QED BY <5>1 DEF PathsOnce
      <4> QED BY <4>1, <4>2
    <3> QED BY <3>1 DEF PathsOnce, IsInjective
  <2>6. \A c \in Callers :
          /\ call[c].pc \in {"idle", "publishing", "done", "no handler"}
          /\ call[c].todo \cup call[c].ran \subseteq EventHandlers
          /\ call[c].by \in CommandHandlers \cup {Nobody}
    <3>1. \A c \in Callers : call[c] \in CallRecord
      BY <2>1 DEF CallsInv
    <3> QED BY <3>1 DEF CallRecord
  <2> QED BY <2>1, <2>2, <2>3, <2>4, <2>5, <2>6 DEF TypeOK, BootPhaseInv
<1> QED BY <1>1, BootAlwaysIInv, PTL
==============================================================================
