---------------------------- MODULE PipelineProofs ----------------------------
(***************************************************************************)
(* Theorems about a request, for every program that is accepted, any bodies,*)
(* errors, chain and depth of calls: what a body reads was set by what ran  *)
(* before it, what it raises is in its raise set, and the after blocks      *)
(* unwind.                                                                  *)
(***************************************************************************)
EXTENDS Pipeline, TLAPS

-----------------------------------------------------------------------------
(* The stack of bodies.                                                    *)

IsStack(s) == \E S : s \in Seq(S)
AtCall(of, pc) == pc \in DOMAIN Body(of) /\ Body(of)[pc].op = "call"
Callee(of, pc) == <<"function", Body(of)[pc].fn>>
Sound(of) == IsBody(prog, Body(of))

\* What a body of a middleware has set before the place it is at.
SetUpTo(of, pc, keys) ==
    of[1] = "middleware" =>
        \A j \in DOMAIN Body(of) : j < pc /\ Body(of)[j].op = "set" => Body(of)[j].key \in keys

\* A body of the request, under functions; each but the last waits at the call
\* of the next.
Fine(s, keys) ==
    /\ IsStack(s)
    /\ \A i \in 1..Len(s) : s[i] = [of |-> s[i].of, pc |-> s[i].pc] /\ s[i].pc \in Nat \ {0}
    /\ \A i \in 1..Len(s) : Sound(s[i].of)
    /\ \A i \in 1..Len(s) : i < Len(s) => AtCall(s[i].of, s[i].pc)
    /\ \A i \in 1..Len(s) : i < Len(s) => s[i + 1].of = Callee(s[i].of, s[i].pc)
    /\ \A i \in 1..Len(s) : i > 1 => s[i].of[1] = "function"
    /\ s # <<>> => SetUpTo(s[1].of, s[1].pc, keys)

LEMMA Length ==
    ASSUME NEW s, IsStack(s)
    PROVE  /\ Len(s) \in Nat /\ DOMAIN s = 1..Len(s) /\ (s # <<>> <=> Len(s) >= 1)
BY DEF IsStack

LEMMA Pushed ==
    ASSUME NEW s, IsStack(s), NEW x
    PROVE  /\ IsStack(Append(s, x)) /\ Len(Append(s, x)) = Len(s) + 1
           /\ \A i \in 1..Len(s) : Append(s, x)[i] = s[i]
           /\ Append(s, x)[Len(s) + 1] = x
<1>1. PICK S : s \in Seq(S)
  BY DEF IsStack
<1>2. s \in Seq(S \cup {x}) /\ x \in S \cup {x}
  BY <1>1
<1>3. Append(s, x) \in Seq(S \cup {x})
  BY <1>2
<1> QED
  BY <1>2, <1>3 DEF IsStack

LEMMA Popped ==
    ASSUME NEW s, IsStack(s), s # <<>>
    PROVE  /\ IsStack(Front(s)) /\ Len(Front(s)) = Len(s) - 1
           /\ \A i \in 1..(Len(s) - 1) : Front(s)[i] = s[i]
<1>1. PICK S : s \in Seq(S)
  BY DEF IsStack
<1>0. Len(s) \in Nat /\ Len(s) >= 1 /\ \A i \in 1..Len(s) : s[i] \in S
  BY <1>1
<1> DEFINE n == Len(s) - 1
           f == [i \in 1..n |-> s[i]]
<1>a. n \in Nat /\ Front(s) = f
  BY <1>0 DEF Front
<1>b. \A i \in 1..n : f[i] \in S
  BY <1>0
<1>c. f \in [1..n -> S]
  BY <1>b
<1>d. f \in Seq(S)
  BY <1>c, <1>a
<1>e. Len(f) = n
  BY <1>d, <1>a
<1>2. Front(s) \in Seq(S) /\ Len(Front(s)) = Len(s) - 1
  BY <1>a, <1>d, <1>e
<1>3. \A i \in 1..(Len(s) - 1) : Front(s)[i] = s[i]
  BY <1>a
<1> QED
  BY <1>2, <1>3 DEF IsStack

LEMMA GoesOn ==
    ASSUME NEW s, IsStack(s), s # <<>>,
           s[Len(s)] = [of |-> s[Len(s)].of, pc |-> s[Len(s)].pc], s[Len(s)].pc \in Nat
    PROVE  /\ IsStack(Advanced(s)) /\ Len(Advanced(s)) = Len(s)
           /\ \A i \in 1..Len(s) : i < Len(s) => Advanced(s)[i] = s[i]
           /\ Advanced(s)[Len(s)] = [of |-> s[Len(s)].of, pc |-> s[Len(s)].pc + 1]
<1>1. PICK S : s \in Seq(S)
  BY DEF IsStack
<1>2. Len(s) \in Nat /\ Len(s) \in 1..Len(s) /\ DOMAIN s = 1..Len(s)
  BY <1>1
<1> DEFINE x == [s[Len(s)] EXCEPT !.pc = @ + 1]
<1>3. x = [of |-> s[Len(s)].of, pc |-> s[Len(s)].pc + 1]
  <2>1. \A a, b : [[of |-> a, pc |-> b] EXCEPT !.pc = b + 1] = [of |-> a, pc |-> b + 1]
    OBVIOUS
  <2> QED
    BY <2>1
<1>4. Advanced(s) = [s EXCEPT ![Len(s)] = x]
  BY DEF Advanced
<1> HIDE DEF x
<1>5. s \in Seq(S \cup {x})
  BY <1>1
<1>6. [s EXCEPT ![Len(s)] = x] \in Seq(S \cup {x})
  BY <1>2, <1>5
<1>7. /\ Len(Advanced(s)) = Len(s) /\ Advanced(s)[Len(s)] = x
      /\ \A i \in 1..Len(s) : i < Len(s) => Advanced(s)[i] = s[i]
  BY <1>2, <1>4, <1>5, <1>6
<1> QED
  BY <1>3, <1>4, <1>6, <1>7 DEF IsStack

\* What a statement at a place leaves behind it.
Keeps(of, pc, keys) ==
    pc \in DOMAIN Body(of) /\ Body(of)[pc].op = "set" => Body(of)[pc].key \in keys

LEMMA SetFurther ==
    ASSUME NEW of, NEW pc \in Nat \ {0}, NEW keys, NEW more,
           SetUpTo(of, pc, keys), keys \subseteq more, Keeps(of, pc, more),
           Sound(of)
    PROVE  SetUpTo(of, pc + 1, more)
<1> SUFFICES ASSUME of[1] = "middleware", NEW j \in DOMAIN Body(of), j < pc + 1,
                    Body(of)[j].op = "set"
             PROVE  Body(of)[j].key \in more
  BY DEF SetUpTo
<1>1. j \in Nat
  BY DEF IsSeq, IsBody, Sound
<1>2. CASE j = pc
  BY <1>2 DEF Keeps
<1>3. CASE j < pc
  BY <1>3 DEF SetUpTo
<1> QED
  BY <1>1, <1>2, <1>3

LEMMA FineAdvanced ==
    ASSUME NEW s, NEW keys, NEW more, Fine(s, keys), s # <<>>, keys \subseteq more,
           Keeps(s[Len(s)].of, s[Len(s)].pc, more)
    PROVE  Fine(Advanced(s), more) /\ Advanced(s) # <<>> /\ Advanced(s)[1].of = s[1].of
<1> DEFINE t == Advanced(s)
           n == Len(s)
<1>1. n \in Nat /\ n >= 1 /\ IsStack(s)
  BY Length DEF Fine
<1>2. s[n] = [of |-> s[n].of, pc |-> s[n].pc] /\ s[n].pc \in Nat \ {0}
  BY <1>1 DEF Fine
<1>3. /\ IsStack(t) /\ Len(t) = n
      /\ \A i \in 1..n : i < n => t[i] = s[i]
      /\ t[n] = [of |-> s[n].of, pc |-> s[n].pc + 1]
  BY <1>1, <1>2, GoesOn
<1> HIDE DEF t, n
<1>4. t # <<>>
  BY <1>1, <1>3, Length
<1>5. t[n].of = s[n].of /\ t[n].pc = s[n].pc + 1
  BY <1>3
<1>6. \A i \in 1..n : t[i].of = s[i].of
  BY <1>1, <1>3, <1>5
<1>7. \A i \in 1..n : t[i] = [of |-> t[i].of, pc |-> t[i].pc] /\ t[i].pc \in Nat \ {0}
  BY <1>1, <1>2, <1>3, <1>5 DEF Fine, n
<1>8. \A i \in 1..n : i < n => AtCall(t[i].of, t[i].pc)
  BY <1>1, <1>3 DEF Fine, n
<1>11. \A i \in 1..n : i < n => t[i + 1].of = Callee(t[i].of, t[i].pc)
  <2> SUFFICES ASSUME NEW i \in 1..n, i < n PROVE t[i + 1].of = Callee(t[i].of, t[i].pc)
    OBVIOUS
  <2>1. i + 1 \in 1..n /\ t[i] = s[i]
    BY <1>1, <1>3
  <2>2. s[i + 1].of = Callee(s[i].of, s[i].pc)
    BY DEF Fine, n
  <2> QED
    BY <1>6, <2>1, <2>2
<1>12. \A i \in 1..n : Sound(t[i].of)
  BY <1>6 DEF Fine, n
<1>9. \A i \in 1..n : i > 1 => t[i].of[1] = "function"
  BY <1>6 DEF Fine, n
<1>10. SetUpTo(t[1].of, t[1].pc, more)
  <2>1. SetUpTo(s[1].of, s[1].pc, keys)
    BY DEF Fine
  <2>2. CASE n = 1
    <3>1. SetUpTo(s[1].of, s[1].pc + 1, more)
      <4>1. Sound(s[1].of)
        BY <1>1 DEF Fine, n
      <4> QED
        BY <1>2, <2>1, <2>2, <4>1, SetFurther DEF n
    <3> QED
      BY <2>2, <1>5, <3>1
  <2>3. CASE n # 1
    BY <1>1, <1>3, <2>1, <2>3 DEF SetUpTo
  <2> QED
    BY <2>2, <2>3
<1> QED
  BY <1>1, <1>3, <1>4, <1>6, <1>7, <1>8, <1>9, <1>10, <1>11, <1>12 DEF Fine, t, n

LEMMA FineFront ==
    ASSUME NEW s, NEW keys, Fine(s, keys), s # <<>>, Front(s) # <<>>
    PROVE  /\ Fine(Front(s), keys)
           /\ LET r == Front(s)
                  n == Len(r) IN
              /\ AtCall(r[n].of, r[n].pc) /\ r[n] = s[n]
              /\ s[n + 1].of = Callee(r[n].of, r[n].pc)
           /\ Front(s)[1].of = s[1].of
           /\ Len(Front(s)) = Len(s) - 1
<1> DEFINE r == Front(s)
           n == Len(s)
<1>1. n \in Nat /\ n >= 1 /\ IsStack(s)
  BY Length DEF Fine
<1>2. IsStack(r) /\ Len(r) = n - 1 /\ \A i \in 1..(n - 1) : r[i] = s[i]
  BY <1>1, Popped
<1>3. n - 1 >= 1
  BY <1>2, Length
<1> HIDE DEF r, n
<1>4. \A i \in 1..(n - 1) : i \in 1..n /\ i < n
  BY <1>1
<1>5. \A i \in 1..(n - 1) : AtCall(r[i].of, r[i].pc) /\ Sound(r[i].of)
  BY <1>2, <1>4 DEF Fine, n
<1>10. \A i \in 1..(n - 1) : s[i + 1].of = Callee(r[i].of, r[i].pc)
  BY <1>2, <1>4 DEF Fine, n
<1>11. \A i \in 1..(n - 1) : i < n - 1 => r[i + 1].of = Callee(r[i].of, r[i].pc)
  <2> SUFFICES ASSUME NEW i \in 1..(n - 1), i < n - 1 PROVE r[i + 1].of = Callee(r[i].of, r[i].pc)
    OBVIOUS
  <2>1. i + 1 \in 1..(n - 1)
    BY <1>1
  <2> QED
    BY <1>2, <1>10, <2>1
<1>6. \A i \in 1..(n - 1) : r[i] = [of |-> r[i].of, pc |-> r[i].pc] /\ r[i].pc \in Nat \ {0}
  BY <1>2, <1>4 DEF Fine, n
<1>7. \A i \in 1..(n - 1) : i > 1 => r[i].of[1] = "function"
  BY <1>2, <1>4 DEF Fine, n
<1>8. SetUpTo(r[1].of, r[1].pc, keys) /\ r[1] = s[1]
  BY <1>1, <1>2, <1>3 DEF Fine
<1>9. Fine(r, keys)
  BY <1>2, <1>5, <1>6, <1>7, <1>8, <1>11 DEF Fine
<1> QED
  BY <1>1, <1>2, <1>3, <1>5, <1>8, <1>9, <1>10 DEF r, n

LEMMA FineCalled ==
    ASSUME NEW s, NEW keys, Fine(s, keys), s # <<>>, AtCall(s[Len(s)].of, s[Len(s)].pc),
           Sound(Callee(s[Len(s)].of, s[Len(s)].pc))
    PROVE  LET t == Append(s, [of |-> Callee(s[Len(s)].of, s[Len(s)].pc), pc |-> 1]) IN
           Fine(t, keys) /\ t # <<>> /\ t[1].of = s[1].of
<1> DEFINE n == Len(s)
           f == Callee(s[n].of, s[n].pc)
           x == [of |-> f, pc |-> 1]
           t == Append(s, x)
<1>0. x = [of |-> x.of, pc |-> x.pc] /\ x.pc \in Nat \ {0} /\ x.of = f /\ f[1] = "function"
  BY DEF Callee
<1>a. Sound(f)
  OBVIOUS
<1>1. n \in Nat /\ n >= 1 /\ IsStack(s)
  BY Length DEF Fine
<1> HIDE DEF x, f
<1>2. IsStack(t) /\ Len(t) = n + 1 /\ (\A i \in 1..n : t[i] = s[i]) /\ t[n + 1] = x
  BY <1>1, Pushed
<1>3. t # <<>> /\ t[1] = s[1]
  BY <1>1, <1>2, Length
<1> HIDE DEF t, n
<1>4. \A i \in 1..(n + 1) : i \in 1..n \/ i = n + 1
  BY <1>1
<1>5. \A i \in 1..(n + 1) : t[i] = [of |-> t[i].of, pc |-> t[i].pc] /\ t[i].pc \in Nat \ {0}
  BY <1>0, <1>2, <1>4 DEF Fine, n
<1>6. \A i \in 1..(n + 1) : i < n + 1 => AtCall(t[i].of, t[i].pc)
  <2> SUFFICES ASSUME NEW i \in 1..n PROVE AtCall(s[i].of, s[i].pc)
    BY <1>1, <1>2
  <2>1. CASE i = n
    BY <2>1 DEF n
  <2>2. CASE i < n
    BY <2>2 DEF Fine, n
  <2> QED
    BY <1>1, <2>1, <2>2
<1>7. \A i \in 1..(n + 1) : i > 1 => t[i].of[1] = "function"
  BY <1>0, <1>2, <1>4 DEF Fine, n
<1>8. SetUpTo(t[1].of, t[1].pc, keys)
  BY <1>3 DEF Fine
<1>10. \A i \in 1..(n + 1) : Sound(t[i].of)
  BY <1>0, <1>a, <1>2, <1>4 DEF Fine, n
<1>11. \A i \in 1..(n + 1) : i < n + 1 => t[i + 1].of = Callee(t[i].of, t[i].pc)
  <2> SUFFICES ASSUME NEW i \in 1..n PROVE t[i + 1].of = Callee(s[i].of, s[i].pc)
    BY <1>1, <1>2
  <2>1. CASE i = n
    BY <1>0, <1>2, <2>1 DEF f
  <2>2. CASE i < n
    <3>1. i + 1 \in 1..n
      BY <1>1, <2>2
    <3> QED
      BY <1>2, <2>2, <3>1 DEF Fine, n
  <2> QED
    BY <1>1, <2>1, <2>2
<1>9. Fine(t, keys)
  BY <1>2, <1>5, <1>6, <1>7, <1>8, <1>10, <1>11 DEF Fine
<1> QED
  BY <1>3, <1>9 DEF t, x, f, n

LEMMA FineBegun ==
    ASSUME NEW of, NEW keys, Sound(of)
    PROVE  LET s == <<[of |-> of, pc |-> 1]>> IN Fine(s, keys) /\ s # <<>> /\ s[1].of = of
<1> DEFINE x == [of |-> of, pc |-> 1]
           s == <<x>>
<1>0. x.of = of /\ x.pc = 1
  OBVIOUS
<1>1. IsStack(s) /\ Len(s) = 1 /\ s[1] = x /\ s # <<>>
  <2>1. s \in Seq({x})
    OBVIOUS
  <2> QED
    BY <2>1 DEF IsStack
<1>2. SetUpTo(of, 1, keys)
  BY DEF SetUpTo, IsSeq, IsBody, Sound
<1>3. 1..Len(s) = {1}
  BY <1>1
<1> HIDE DEF s
<1>4. Fine(s, keys)
  BY <1>0, <1>1, <1>2, <1>3 DEF Fine
<1> QED
  BY <1>0, <1>1, <1>4 DEF s
-----------------------------------------------------------------------------
(* Statements.                                                             *)

\* The bodies under the innermost go on where it was called.
LEMMA PopsFine ==
    ASSUME Fine(stack, context), stack # <<>>, NEW how, Pops(how)
    PROVE  /\ Front(stack) = <<>> => Len(stack) = 1 /\ stack' = <<>> /\ flow' = how
           /\ Front(stack) # <<>> =>
                 Fine(stack', context) /\ stack' # <<>> /\ stack'[1].of = stack[1].of
<1>1. Len(stack) \in Nat /\ Len(stack) >= 1 /\ IsStack(stack)
  BY Length DEF Fine
<1>2. Len(Front(stack)) = Len(stack) - 1 /\ IsStack(Front(stack))
  BY <1>1, Popped
<1>3. ASSUME Front(stack) = <<>>
      PROVE  Len(stack) = 1 /\ stack' = <<>> /\ flow' = how
  <2>1. ~(Len(Front(stack)) >= 1)
    BY <1>2, <1>3, Length
  <2> QED
    BY <1>1, <1>2, <1>3, <2>1 DEF Pops
<1>4. ASSUME Front(stack) # <<>>
      PROVE  Fine(stack', context) /\ stack' # <<>> /\ stack'[1].of = stack[1].of
  <2> DEFINE r == Front(stack)
  <2>1. stack' = Advanced(r)
    BY <1>4 DEF Pops
  <2>2. Fine(r, context) /\ r[1].of = stack[1].of /\ AtCall(r[Len(r)].of, r[Len(r)].pc)
    BY <1>4, FineFront
  <2>3. Keeps(r[Len(r)].of, r[Len(r)].pc, context)
    BY <2>2 DEF Keeps, AtCall
  <2> HIDE DEF r
  <2>4. r # <<>>
    BY <1>4 DEF r
  <2> QED
    BY <2>1, <2>2, <2>3, <2>4, FineAdvanced
<1> QED
  BY <1>3, <1>4

\* A body of a middleware that fell off its end has set all that it sets.
AllSet(of, keys) ==
    of[1] = "middleware" =>
        \A j \in DOMAIN Body(of) : Body(of)[j].op = "set" => Body(of)[j].key \in keys

Left(of) ==
    /\ stack' = <<>>
    /\ flow' \in {"normal", "return", "raised"}
    /\ flow' = "normal" => AllSet(of, context')

LEMMA StatementKeeps ==
    ASSUME prog \in Programs, stack # <<>> => Fine(stack, context), RunStatement
    PROVE  /\ stack # <<>> /\ UNCHANGED doing /\ context \subseteq context'
           /\ \/ Left(stack[1].of)
              \/ Fine(stack', context') /\ stack' # <<>> /\ stack'[1].of = stack[1].of
<1> DEFINE on == Fine(stack', context') /\ stack' # <<>> /\ stack'[1].of = stack[1].of
<1> USE DEF Running
<1>0. stack # <<>>
  BY DEF RunStatement, DoRead, DoSet, DoWork, DoThrow, DoReturn, DoCall, FallsOff, Unwind
<1>a. Fine(stack, context)
  BY <1>0
<1>b. UNCHANGED doing
  BY DEF RunStatement, DoRead, DoSet, DoWork, DoThrow, DoReturn, DoCall, FallsOff, Unwind
<1>c. context \subseteq context'
  BY DEF RunStatement, DoRead, DoSet, DoWork, DoThrow, DoReturn, DoCall, FallsOff, Unwind
<1>d. ASSUME UNCHANGED <<stack, context>> PROVE on
  BY <1>0, <1>a, <1>d
<1>e. ASSUME Proceed, Keeps(Top.of, Top.pc, context') PROVE on
  <2>1. stack' = Advanced(stack)
    BY <1>e DEF Proceed
  <2>2. Keeps(stack[Len(stack)].of, stack[Len(stack)].pc, context')
    BY <1>e DEF Top
  <2> QED
    BY <1>0, <1>a, <1>c, <2>1, <2>2, FineAdvanced
<1>f. ASSUME Proceed, Stmt.op # "set" PROVE on
  BY <1>e, <1>f DEF Keeps, Stmt
<1> SUFFICES Left(stack[1].of) \/ on
  BY <1>0, <1>b, <1>c
<1> HIDE DEF on
<1>1. CASE DoRead
  BY <1>f, <1>1 DEF DoRead
<1>2. CASE DoSet
  BY <1>e, <1>2 DEF DoSet, Keeps, Stmt
<1>3. CASE DoWork
  BY <1>d, <1>f, <1>3 DEF DoWork
<1>4. CASE DoThrow
  BY <1>d, <1>f, <1>4 DEF DoThrow
<1>5. CASE DoReturn
  <2>1. CASE Proceed
    BY <1>f, <1>5, <2>1 DEF DoReturn
  <2>2. CASE Pops("return")
    BY <1>0, <1>a, <1>5, <2>2, PopsFine DEF DoReturn, Left, on
  <2> QED
    BY <1>5, <2>1, <2>2 DEF DoReturn
<1>6. CASE DoCall
  <2>1. CASE UNCHANGED stack
    BY <1>d, <1>6, <2>1 DEF DoCall
  <2>2. CASE stack' = Append(stack, [of |-> <<"function", Stmt.fn>>, pc |-> 1])
    <3> DEFINE of == stack[Len(stack)].of
               pc == stack[Len(stack)].pc
    <3>1. Top.of = of /\ Top.pc = pc /\ Stmt = Body(of)[pc] /\ Stmt.op = "call" /\ ~(pc > Len(Body(of)))
      BY <1>6 DEF DoCall, Stmt, Top, Ended
    <3>2. pc \in Nat \ {0} /\ Sound(of)
      <4>1. Len(stack) \in 1..Len(stack)
        BY <1>0, <1>a, Length DEF Fine
      <4> QED
        BY <1>a, <4>1 DEF Fine
    <3>3. pc \in DOMAIN Body(of)
      BY <3>1, <3>2 DEF Sound, IsBody, IsSeq
    <3>4. AtCall(of, pc)
      BY <3>1, <3>3 DEF AtCall
    <3>5. Stmt.fn \in DOMAIN prog.functions
      BY <3>1, <3>2, <3>3 DEF Sound, IsBody, Callees, Of
    <3>6. Sound(Callee(of, pc))
      <4>1. Body(Callee(of, pc)) = prog.functions[Stmt.fn].body
        BY <3>1 DEF Callee, Body
      <4> QED
        BY <3>5, <4>1, ProgramsAssumption DEF Sound
    <3>7. stack' = Append(stack, [of |-> Callee(of, pc), pc |-> 1])
      BY <2>2, <3>1 DEF Callee
    <3>8. context' = context
      BY <1>6 DEF DoCall
    <3> QED
      BY <1>0, <1>a, <3>4, <3>6, <3>7, <3>8, FineCalled DEF on
  <2> QED
    BY <1>6, <2>1, <2>2 DEF DoCall
<1>7. CASE FallsOff
  <2>1. context' = context /\ Pops("normal") /\ Ended
    BY <1>7 DEF FallsOff
  <2>2. CASE Front(stack) = <<>>
    <3>1. Len(stack) = 1 /\ stack' = <<>> /\ flow' = "normal"
      BY <1>0, <1>a, <2>1, <2>2, PopsFine
    <3>2. Top = stack[1] /\ stack[1].pc > Len(Body(stack[1].of)) /\ stack[1].pc \in Nat
      BY <2>1, <3>1, <1>a DEF Top, Ended, Fine
    <3>3. AllSet(stack[1].of, context')
      <4> SUFFICES ASSUME stack[1].of[1] = "middleware", NEW j \in DOMAIN Body(stack[1].of),
                          Body(stack[1].of)[j].op = "set"
                   PROVE  Body(stack[1].of)[j].key \in context'
        BY DEF AllSet
      <4>1. j \in Nat /\ j <= Len(Body(stack[1].of)) /\ Len(Body(stack[1].of)) \in Nat
        <5>1. Sound(stack[1].of)
          BY <1>a, <3>1 DEF Fine
        <5> QED
          BY <5>1 DEF Sound, IsBody, IsSeq
      <4>2. j < stack[1].pc
        BY <3>2, <4>1
      <4> QED
        BY <4>2, <2>1, <1>a, <1>0 DEF Fine, SetUpTo
    <3> QED
      BY <3>1, <3>3 DEF Left
  <2>3. CASE Front(stack) # <<>>
    BY <1>0, <1>a, <2>1, <2>3, PopsFine DEF on
  <2> QED
    BY <2>2, <2>3
<1>8. CASE Unwind
  <2> DEFINE r == Front(stack)
             call == Body(r[Len(r)].of)[r[Len(r)].pc]
  <2>0. context' = context
    BY <1>8 DEF Unwind
  <2>1. CASE r = <<>>
    BY <1>8, <2>1 DEF Unwind, Left
  <2>2. CASE r # <<>>
    <3>1. Fine(r, context) /\ r[1].of = stack[1].of
      BY <1>0, <1>a, <2>2, FineFront
    <3>2. \/ stack' = r
          \/ stack' = <<>> /\ flow' = "return"
          \/ Len(r) # 1 /\ stack' = Advanced(Front(r))
      BY <1>8, <2>2 DEF Unwind
    <3> HIDE DEF r
    <3>3. CASE stack' = r
      BY <2>0, <2>2, <3>1, <3>3 DEF on
    <3>4. CASE stack' = <<>> /\ flow' = "return"
      BY <3>4 DEF Left
    <3>5. CASE Len(r) # 1 /\ stack' = Advanced(Front(r))
      <4> DEFINE q == Front(r)
      <4>1. IsStack(r) /\ Len(r) \in Nat /\ Len(r) >= 1
        BY <2>2, <3>1, Length DEF Fine
      <4>2. IsStack(q) /\ Len(q) = Len(r) - 1
        BY <2>2, <4>1, Popped
      <4>3. q # <<>>
        BY <3>5, <4>1, <4>2, Length
      <4>4. Fine(q, context) /\ q[1].of = r[1].of /\ AtCall(q[Len(q)].of, q[Len(q)].pc)
        BY <2>2, <3>1, <4>3, FineFront
      <4>5. Keeps(q[Len(q)].of, q[Len(q)].pc, context)
        BY <4>4 DEF Keeps, AtCall
      <4>7. stack' = Advanced(q)
        BY <3>5
      <4> HIDE DEF q
      <4>8. Fine(Advanced(q), context) /\ Advanced(q) # <<>> /\ Advanced(q)[1].of = q[1].of
        BY <4>3, <4>4, <4>5, FineAdvanced
      <4> QED
        BY <2>0, <3>1, <4>4, <4>7, <4>8 DEF on
    <3> QED
      BY <3>2, <3>3, <3>4, <3>5
  <2> QED
    BY <2>1, <2>2
<1> QED
  BY <1>1, <1>2, <1>3, <1>4, <1>5, <1>6, <1>7, <1>8 DEF RunStatement
-----------------------------------------------------------------------------
(* The request.                                                            *)

Provides(m) == prog.middleware[m].provides

\* What is accepted is what runs.
DeployedInv == prog \in Programs /\ Accepted(prog)

\* The middleware that began are the first of the chain; all but the last of
\* them passed, and so did it if the next part of the request was reached.
ChainInv ==
    /\ began \in 0..Len(prog.chain)
    /\ passed \in Nat /\ (passed = began \/ passed = began - 1)
    /\ IsStack(started) /\ Len(started) = began
    /\ \A i \in 1..began : started[i] = prog.chain[i]

\* Those that passed left what they provide.
GivenInv == KeepsItsWord(prog) => \A i \in 1..passed : Provides(prog.chain[i]) \subseteq context

StackInv == stack # <<>> => Fine(stack, context)

\* What runs in each part of the request.
ComingInv == stage = "coming" => stack = <<>> /\ flow = "none" /\ next = 1 /\ began = 0
ChainedInv ==
    stage = "chain" =>
        /\ next = began + 1
        /\ stack # <<>> =>
              began > 0 /\ passed = began - 1 /\ stack[1].of = <<"middleware", prog.chain[began]>>
        /\ stack = <<>> /\ flow = "none" => passed = began
        /\ stack = <<>> /\ flow = "normal" =>
              /\ began > 0 /\ passed = began - 1
              /\ KeepsItsWord(prog) => Provides(prog.chain[began]) \subseteq context
HandledInv ==
    stage = "handler" => passed = Len(prog.chain) /\ (stack # <<>> => stack[1].of = <<"route">>)
ArmsInv == stage = "arms" => next \in Nat \ {0} /\ (stack # <<>> => stack[1].of[1] = "arm")
AfterInv ==
    stage = "after" =>
        /\ next \in 0..began
        /\ stack # <<>> => \E j \in 1..began : stack[1].of = <<"after", prog.chain[j]>>
DoneInv ==
    /\ stage \in {"coming", "chain", "handler", "arms", "after", "sent", "cut"}
    /\ stage \in {"sent", "cut"} => stack = <<>>

PipeInv ==
    /\ DeployedInv /\ ChainInv /\ GivenInv /\ StackInv
    /\ ComingInv /\ ChainedInv /\ HandledInv /\ ArmsInv /\ AfterInv /\ DoneInv

\* A program is made of sequences, and its chain of middleware there are.
LEMMA WellFormed ==
    ASSUME NEW p \in Programs, Accepted(p)
    PROVE  /\ Len(p.chain) \in Nat /\ DOMAIN p.chain = 1..Len(p.chain)
           /\ \A i \in 1..Len(p.chain) : p.chain[i] \in DOMAIN p.middleware
           /\ \A m \in DOMAIN p.middleware : IsSeq(p.middleware[m].body) /\ IsSeq(p.middleware[m].after)
           /\ Len(p.arms) \in Nat /\ DOMAIN p.arms = 1..Len(p.arms)
<1>1. IsSeq(p.chain)
  BY ProgramsAssumption
<1>2. Len(p.chain) \in Nat /\ DOMAIN p.chain = 1..Len(p.chain)
  BY <1>1 DEF IsSeq
<1>3. \A i \in DOMAIN p.chain : p.chain[i] \in DOMAIN p.middleware
  BY DEF Accepted, E0805, Declared
<1>4. IsSeq(p.arms)
  BY ProgramsAssumption
<1>5. Len(p.arms) \in Nat /\ DOMAIN p.arms = 1..Len(p.arms)
  BY <1>4 DEF IsSeq
<1> QED
  BY <1>2, <1>3, <1>5, ProgramsAssumption DEF IsBody

\* The bodies of a request.
LEMMA SoundBodies ==
    ASSUME prog \in Programs
    PROVE  /\ Sound(<<"route">>)
           /\ \A m \in DOMAIN prog.middleware : Sound(<<"middleware", m>>) /\ Sound(<<"after", m>>)
           /\ \A i \in DOMAIN prog.arms : Sound(<<"arm", i>>)
<1>1. Body(<<"route">>) = prog.body
  BY DEF Body
<1>2. \A m : Body(<<"middleware", m>>) = prog.middleware[m].body
  BY DEF Body
<1>3. \A m : Body(<<"after", m>>) = prog.middleware[m].after
  BY DEF Body
<1>4. \A i : Body(<<"arm", i>>) = prog.arms[i].body
  BY DEF Body
<1> QED
  BY <1>1, <1>2, <1>3, <1>4, ProgramsAssumption DEF Sound

\* A middleware that keeps its word and fell off its end left what it provides.
LEMMA FellOff ==
    ASSUME NEW m, m \in DOMAIN prog.middleware, KeepsItsWord(prog), NEW keys,
           AllSet(<<"middleware", m>>, keys)
    PROVE  Provides(m) \subseteq keys
<1> SUFFICES ASSUME NEW k \in Provides(m) PROVE k \in keys
  OBVIOUS
<1>1. Body(<<"middleware", m>>) = prog.middleware[m].body
  BY DEF Body
<1>2. PICK i \in DOMAIN prog.middleware[m].body :
          prog.middleware[m].body[i].op = "set" /\ prog.middleware[m].body[i].key = k
  BY DEF KeepsItsWord, Provides
<1> QED
  BY <1>1, <1>2 DEF AllSet

\* The same program says the same of the next state.
LEMMA StackNext ==
    ASSUME prog' = prog, stack' # <<>> => Fine(stack', context')
    PROVE  StackInv'
<1>1. SUFFICES ASSUME stack' # <<>> PROVE Fine(stack, context)'
  BY DEF StackInv
<1>2. Fine(stack', context')
  BY <1>1
<1> QED
  BY <1>2 DEF Fine, AtCall, Callee, Sound, SetUpTo, Body

LEMMA StatementInv ==
    ASSUME PipeInv, RunStatement
    PROVE  PipeInv'
<1>1. prog \in Programs /\ (stack # <<>> => Fine(stack, context))
  BY DEF PipeInv, DeployedInv, StackInv
<1>2. stack # <<>> /\ UNCHANGED doing /\ context \subseteq context'
  BY <1>1, StatementKeeps
<1>3. \/ Left(stack[1].of)
      \/ Fine(stack', context') /\ stack' # <<>> /\ stack'[1].of = stack[1].of
  BY <1>1, StatementKeeps
<1>4. prog' = prog /\ stage' = stage /\ next' = next /\ started' = started /\ began' = began /\ passed' = passed
  BY <1>2 DEF doing
<1>5. DeployedInv' /\ ChainInv'
  BY <1>4 DEF PipeInv, DeployedInv, ChainInv
<1>6. GivenInv'
  BY <1>2, <1>4 DEF PipeInv, GivenInv, Provides
<1>7. StackInv'
  BY <1>3, <1>4, StackNext DEF Left
<1>8. ComingInv'
  BY <1>2, <1>4 DEF PipeInv, ComingInv
<1>9. ChainedInv'
  <2> SUFFICES ASSUME stage = "chain" PROVE ChainedInv'
    BY <1>4 DEF ChainedInv
  <2>1. began > 0 /\ passed = began - 1 /\ stack[1].of = <<"middleware", prog.chain[began]>> /\ next = began + 1
    BY <1>2 DEF PipeInv, ChainedInv
  <2>2. CASE Fine(stack', context') /\ stack' # <<>> /\ stack'[1].of = stack[1].of
    BY <1>4, <2>1, <2>2 DEF ChainedInv
  <2>3. CASE Left(stack[1].of)
    <3>1. stack' = <<>> /\ flow' # "none"
      BY <2>3 DEF Left
    <3>2. ASSUME flow' = "normal", KeepsItsWord(prog)
          PROVE  Provides(prog.chain[began]) \subseteq context'
      <4>1. began \in 1..Len(prog.chain)
        BY <2>1, WellFormed DEF PipeInv, ChainInv, DeployedInv
      <4>2. prog.chain[began] \in DOMAIN prog.middleware
        BY <4>1, WellFormed DEF PipeInv, DeployedInv
      <4>3. AllSet(<<"middleware", prog.chain[began]>>, context')
        BY <2>1, <2>3, <3>2 DEF Left
      <4> QED
        BY <3>2, <4>2, <4>3, FellOff
    <3> QED
      BY <1>4, <2>1, <3>1, <3>2 DEF ChainedInv, Provides
  <2> QED
    BY <1>3, <2>2, <2>3
<1>10. HandledInv' /\ ArmsInv' /\ AfterInv'
  BY <1>2, <1>3, <1>4 DEF PipeInv, HandledInv, ArmsInv, AfterInv, Left
<1>11. DoneInv'
  BY <1>2, <1>4 DEF PipeInv, DoneInv
<1> QED
  BY <1>5, <1>6, <1>7, <1>8, <1>9, <1>10, <1>11 DEF PipeInv

\* Which middleware began is not disturbed by a step that starts none.
LEMMA HistoryKept ==
    ASSUME PipeInv, prog' = prog, context' = context,
           UNCHANGED <<started, began, passed>>
    PROVE  DeployedInv' /\ ChainInv' /\ GivenInv'
BY DEF PipeInv, DeployedInv, ChainInv, GivenInv, Provides

LEMMA EnterInv ==
    ASSUME PipeInv, Enter
    PROVE  PipeInv'
<1> DEFINE N == Len(prog.chain)
<1>1. /\ stage = "chain" /\ stack = <<>> /\ flow \in {"none", "normal"}
      /\ passed' = IF flow = "normal" THEN passed + 1 ELSE passed
      /\ prog' = prog /\ context' = context /\ next' = next + 1
  BY DEF Enter, Between
<1>2. N \in Nat /\ \A i \in 1..N : prog.chain[i] \in DOMAIN prog.middleware
  BY WellFormed DEF PipeInv, DeployedInv
<1>3. /\ next = began + 1 /\ began \in 0..N /\ passed \in Nat
      /\ flow = "none" => passed = began
      /\ flow = "normal" => /\ began > 0 /\ passed = began - 1
                            /\ KeepsItsWord(prog) => Provides(prog.chain[began]) \subseteq context
  BY <1>1 DEF PipeInv, ChainedInv, ChainInv
<1>4. passed' = began
  BY <1>1, <1>3
<1>5. DeployedInv'
  BY <1>1 DEF PipeInv, DeployedInv
<1>6. GivenInv'
  <2> SUFFICES ASSUME KeepsItsWord(prog), NEW i \in 1..began
               PROVE  Provides(prog.chain[i]) \subseteq context
    BY <1>1, <1>4 DEF GivenInv, Provides
  <2>1. CASE i \in 1..passed
    BY <2>1 DEF PipeInv, GivenInv
  <2>2. CASE i \notin 1..passed
    <3>1. flow = "normal" /\ i = began
      BY <1>1, <1>3, <2>2
    <3> QED
      BY <1>3, <3>1
  <2> QED
    BY <2>1, <2>2
<1>7. CASE next <= N
  <2> DEFINE m == prog.chain[next]
  <2>1. /\ Starts(<<"middleware", m>>) /\ began' = next
        /\ started' = Append(started, m) /\ stage' = stage
    BY <1>7 DEF Enter
  <2>2. m \in DOMAIN prog.middleware /\ next \in 1..N
    BY <1>2, <1>3, <1>7
  <2> HIDE DEF m
  <2>3. Sound(<<"middleware", m>>)
    BY <2>2, SoundBodies DEF PipeInv, DeployedInv
  <2>4. Fine(stack', context') /\ stack' # <<>> /\ stack'[1].of = <<"middleware", m>>
    BY <2>1, <2>3, FineBegun DEF Starts
  <2>5. StackInv'
    BY <1>1, <2>4, StackNext
  <2>6. ChainInv'
    <3>1. IsStack(started) /\ Len(started) = began /\ \A i \in 1..began : started[i] = prog.chain[i]
      BY DEF PipeInv, ChainInv
    <3>2. IsStack(started') /\ Len(started') = began + 1 /\ started'[began + 1] = m
      BY <2>1, <3>1, Pushed
    <3>3. \A i \in 1..began : started'[i] = prog.chain[i]
      BY <2>1, <3>1, Pushed
    <3>4. began' = began + 1
      BY <1>3, <2>1
    <3>5. \A i \in 1..(began + 1) : i \in 1..began \/ i = began + 1
      BY <1>3
    <3>6. \A i \in 1..(began + 1) : started'[i] = prog.chain[i]
      BY <1>3, <3>2, <3>3, <3>5 DEF m
    <3>7. began' \in 0..N /\ passed' \in Nat /\ passed' = began' - 1
      BY <1>2, <1>3, <1>4, <1>7, <3>4
    <3> QED
      BY <1>1, <3>2, <3>4, <3>6, <3>7 DEF ChainInv
  <2>7. ChainedInv'
    BY <1>1, <1>3, <1>4, <2>1, <2>4 DEF ChainedInv, m
  <2>8. ComingInv' /\ HandledInv' /\ ArmsInv' /\ AfterInv' /\ DoneInv'
    BY <1>1, <2>1 DEF ComingInv, HandledInv, ArmsInv, AfterInv, DoneInv
  <2> QED
    BY <1>5, <1>6, <2>5, <2>6, <2>7, <2>8 DEF PipeInv
<1>8. CASE ~(next <= N)
  <2>1. Starts(<<"route">>) /\ stage' = "handler" /\ started' = started /\ began' = began
    BY <1>8 DEF Enter
  <2>2. began = N
    BY <1>2, <1>3, <1>8
  <2>3. Sound(<<"route">>)
    BY SoundBodies DEF PipeInv, DeployedInv
  <2>4. Fine(stack', context') /\ stack' # <<>> /\ stack'[1].of = <<"route">>
    BY <2>1, <2>3, FineBegun DEF Starts
  <2>5. StackInv'
    BY <1>1, <2>4, StackNext
  <2>6. ChainInv'
    BY <1>1, <1>3, <1>4, <2>1 DEF PipeInv, ChainInv
  <2>7. HandledInv'
    BY <1>1, <1>4, <2>2, <2>4 DEF HandledInv
  <2>8. ComingInv' /\ ChainedInv' /\ ArmsInv' /\ AfterInv' /\ DoneInv'
    BY <2>1 DEF ComingInv, ChainedInv, ArmsInv, AfterInv, DoneInv
  <2> QED
    BY <1>5, <1>6, <2>5, <2>6, <2>7, <2>8 DEF PipeInv
<1> QED
  BY <1>7, <1>8

LEMMA AnsweredInv ==
    ASSUME PipeInv, stack = <<>>, Answered
    PROVE  PipeInv'
<1>1. /\ stage' = "after" /\ next' = began /\ stack' = <<>>
      /\ prog' = prog /\ context' = context /\ UNCHANGED <<started, began, passed>>
  BY DEF PipeInv, ChainInv, Answered
<1>2. DeployedInv' /\ ChainInv' /\ GivenInv'
  BY <1>1, HistoryKept
<1>3. began \in Nat
  BY WellFormed DEF PipeInv, ChainInv, DeployedInv
<1> QED
  BY <1>1, <1>2, <1>3
  DEF PipeInv, StackInv, ComingInv, ChainedInv, HandledInv, ArmsInv, AfterInv, DoneInv

LEMMA ErredInv ==
    ASSUME PipeInv, Erred
    PROVE  PipeInv'
<1>1. /\ stage' = "arms" /\ stack' = <<>> /\ next' = 1
      /\ prog' = prog /\ context' = context /\ UNCHANGED <<started, began, passed>>
  BY DEF Erred, Between
<1>2. DeployedInv' /\ ChainInv' /\ GivenInv'
  BY <1>1, HistoryKept
<1> QED
  BY <1>1, <1>2
  DEF PipeInv, StackInv, ComingInv, ChainedInv, HandledInv, ArmsInv, AfterInv, DoneInv

LEMMA ArmInv ==
    ASSUME PipeInv, Arm
    PROVE  PipeInv'
<1>1. /\ stage' = "arms" /\ stack = <<>> /\ stage = "arms" /\ next' = next + 1
      /\ next <= Len(prog.arms) /\ prog' = prog /\ context' = context /\ UNCHANGED <<started, began, passed>>
  BY DEF Arm, Between
<1>2. DeployedInv' /\ ChainInv' /\ GivenInv'
  BY <1>1, HistoryKept
<1>3. \/ stack' = <<>>
      \/ Fine(stack', context') /\ stack' # <<>> /\ stack'[1].of = <<"arm", next>>
  <2>1. CASE UNCHANGED stack
    BY <1>1, <2>1
  <2>2. CASE Starts(<<"arm", next>>)
    <3>1. next \in DOMAIN prog.arms
      BY <1>1, WellFormed DEF PipeInv, DeployedInv, ArmsInv, Arm
    <3>2. Sound(<<"arm", next>>)
      BY <3>1, SoundBodies DEF PipeInv, DeployedInv
    <3> QED
      BY <2>2, <3>2, FineBegun DEF Starts
  <2> QED
    BY <2>1, <2>2 DEF Arm
<1>4. StackInv'
  BY <1>1, <1>3, StackNext
<1> QED
  BY <1>1, <1>2, <1>3, <1>4
  DEF PipeInv, ComingInv, ChainedInv, HandledInv, ArmsInv, AfterInv, DoneInv

LEMMA AfterKept ==
    ASSUME PipeInv, After
    PROVE  PipeInv'
<1>1. /\ stage' = "after" /\ stack = <<>> /\ stage = "after" /\ next > 0 /\ next' = next - 1
      /\ prog' = prog /\ context' = context /\ UNCHANGED <<started, began, passed>>
  BY DEF After, Between
<1>2. DeployedInv' /\ ChainInv' /\ GivenInv'
  BY <1>1, HistoryKept
<1>3. next \in 1..began /\ began \in Nat
  BY <1>1, WellFormed DEF PipeInv, AfterInv, ChainInv, DeployedInv
<1>4. started[next] = prog.chain[next]
  BY <1>3 DEF PipeInv, ChainInv
<1>5. \/ stack' = <<>>
      \/ Fine(stack', context') /\ stack' # <<>> /\ stack'[1].of = <<"after", prog.chain[next]>>
  <2>1. CASE UNCHANGED stack
    BY <1>1, <2>1
  <2>2. CASE Starts(<<"after", started[next]>>)
    <3>1. prog.chain[next] \in DOMAIN prog.middleware
      BY <1>3, WellFormed DEF PipeInv, ChainInv, DeployedInv
    <3>2. Sound(<<"after", prog.chain[next]>>)
      BY <3>1, SoundBodies DEF PipeInv, DeployedInv
    <3> QED
      BY <1>4, <2>2, <3>2, FineBegun DEF Starts
  <2> QED
    BY <2>1, <2>2 DEF After
<1>6. StackInv'
  BY <1>1, <1>5, StackNext
<1>7. AfterInv'
  BY <1>1, <1>3, <1>5 DEF AfterInv
<1> QED
  BY <1>1, <1>2, <1>6, <1>7
  DEF PipeInv, ComingInv, ChainedInv, HandledInv, ArmsInv, DoneInv

LEMMA StageInv ==
    ASSUME PipeInv, RunStage
    PROVE  PipeInv'
<1>1. CASE Enter
  BY <1>1, EnterInv
<1>2. CASE Responded \/ Faulted \/ ArmAnswered
  BY <1>2, AnsweredInv DEF Responded, Faulted, ArmAnswered, Between
<1>3. CASE Erred
  BY <1>3, ErredInv
<1>4. CASE Arm
  BY <1>4, ArmInv
<1>5. CASE After
  BY <1>5, AfterKept
<1> QED
  BY <1>1, <1>2, <1>3, <1>4, <1>5 DEF RunStage

\* The request begins, its response goes out, or it is cut off.
LEMMA EndsInv ==
    ASSUME PipeInv, NEW r, Begin(r) \/ Send(r) \/ Cut(r)
    PROVE  PipeInv'
<1>1. prog' = prog /\ context' = context /\ UNCHANGED <<started, began, passed>>
  BY DEF Begin, Send, Cut
<1>2. DeployedInv' /\ ChainInv' /\ GivenInv'
  BY <1>1, HistoryKept
<1>3. CASE Begin(r)
  <2>1. stage = "coming" /\ stage' = "chain" /\ UNCHANGED <<stack, flow, next>>
    BY <1>3 DEF Begin
  <2>2. stack = <<>> /\ flow = "none" /\ next = 1 /\ began = 0 /\ passed = 0
    <3>1. stack = <<>> /\ flow = "none" /\ next = 1 /\ began = 0
      BY <2>1 DEF PipeInv, ComingInv
    <3> QED
      BY <3>1 DEF PipeInv, ChainInv
  <2> QED
    BY <1>1, <1>2, <2>1, <2>2
    DEF PipeInv, StackInv, ComingInv, ChainedInv, HandledInv, ArmsInv, AfterInv, DoneInv
<1>4. CASE Send(r) \/ Cut(r)
  <2>1. stage' \in {"sent", "cut"} /\ stack' = <<>>
    BY <1>4 DEF Send, Cut, Between
  <2> QED
    BY <1>2, <2>1
    DEF PipeInv, StackInv, ComingInv, ChainedInv, HandledInv, ArmsInv, AfterInv, DoneInv
<1> QED
  BY <1>3, <1>4

LEMMA PipeInit ==
    ASSUME PipelineStart
    PROVE  PipeInv
<1>1. /\ prog \in Programs /\ Accepted(prog) /\ stage = "coming" /\ next = 1 /\ stack = <<>>
      /\ flow = "none" /\ started = <<>> /\ began = 0 /\ passed = 0
  BY DEF PipelineStart, PipelineInit, Deployed
<1>2. Len(prog.chain) \in Nat
  BY <1>1, WellFormed
<1>3. IsStack(started) /\ Len(started) = 0
  BY <1>1 DEF IsStack
<1> QED
  BY <1>1, <1>2, <1>3
  DEF PipeInv, DeployedInv, ChainInv, GivenInv, StackInv, ComingInv, ChainedInv, HandledInv,
      ArmsInv, AfterInv, DoneInv

LEMMA PipeNext ==
    ASSUME PipeInv, [PipelineStep]_<<server, pipe>>
    PROVE  PipeInv'
<1>1. CASE UNCHANGED pipe
  <2>1. DeployedInv' /\ ChainInv' /\ GivenInv'
    BY <1>1, HistoryKept DEF pipe
  <2>2. StackInv'
    BY <1>1, StackNext DEF pipe, PipeInv, StackInv
  <2> QED
    BY <1>1, <2>1, <2>2
    DEF pipe, PipeInv, ComingInv, ChainedInv, HandledInv, ArmsInv, AfterInv, DoneInv, Provides
<1>2. CASE RunStatement
  BY <1>2, StatementInv
<1>3. CASE RunStage
  BY <1>3, StageInv
<1>4. CASE \E r \in Requests : Begin(r) \/ Send(r) \/ Cut(r)
  BY <1>4, EndsInv
<1> QED
  BY <1>1, <1>2, <1>3, <1>4 DEF PipelineStep, PipelineNext
-----------------------------------------------------------------------------
(* What is read.                                                           *)

\* A body that reads and is no function is the one the request started.
LEMMA Reading ==
    ASSUME PipeInv, Running("read"), Top.of[1] # "function"
    PROVE  /\ stack # <<>> /\ Top = stack[1]
           /\ Top.pc \in Nat \ {0} /\ ~(Top.pc > Len(Body(Top.of)))
           /\ SetUpTo(Top.of, Top.pc, context)
<1>1. stack # <<>> /\ ~Ended
  BY DEF Running
<1>2. Fine(stack, context)
  BY <1>1 DEF PipeInv, StackInv
<1> DEFINE n == Len(stack)
<1>3. n \in Nat /\ n >= 1
  BY <1>1, <1>2, Length DEF Fine
<1>4. ~(n > 1)
  <2>1. n \in 1..n
    BY <1>3
  <2>2. n > 1 => stack[n].of[1] = "function"
    BY <1>2, <2>1 DEF Fine
  <2> QED
    BY <2>2 DEF Top
<1>5. n = 1
  BY <1>3, <1>4
<1>6. Top = stack[1]
  BY <1>5 DEF Top
<1>7. stack[1].pc \in Nat \ {0} /\ SetUpTo(stack[1].of, stack[1].pc, context)
  BY <1>1, <1>2, <1>5 DEF Fine
<1> QED
  BY <1>1, <1>6, <1>7 DEF Ended

\* A strict read of a body, or of an after block, is one of its middleware.
LEMMA StrictOf ==
    ASSUME NEW body, NEW i \in DOMAIN body, body[i].op = "read", ~body[i].optional
    PROVE  body[i].key \in Strict(body)
<1>1. body[i] \in Of(body, "read")
  BY DEF Of
<1> QED
  BY <1>1 DEF Strict

LEMMA WholeKeeps ==
    ASSUME NEW m, IsSeq(m.body), IsSeq(m.after)
    PROVE  /\ \A i \in DOMAIN m.body : i \in DOMAIN Whole(m) /\ Whole(m)[i] = m.body[i]
           /\ \A i \in DOMAIN m.after :
                 i + Len(m.body) \in DOMAIN Whole(m) /\ Whole(m)[i + Len(m.body)] = m.after[i]
<1> DEFINE a == m.body
           b == m.after
           S == Range(a) \cup Range(b)
<1>1. a \in Seq(S) /\ b \in Seq(S)
  <2>1. a \in Seq(Range(a)) /\ b \in Seq(Range(b))
    BY DEF IsSeq
  <2> HIDE DEF a, b
  <2> QED
    BY <2>1
<1>2. Whole(m) = a \o b
  BY DEF Whole
<1> HIDE DEF S, a, b
<1>3. \A i \in DOMAIN a : i \in DOMAIN (a \o b) /\ (a \o b)[i] = a[i]
  BY <1>1
<1>4. \A i \in DOMAIN b : i + Len(a) \in DOMAIN (a \o b) /\ (a \o b)[i + Len(a)] = b[i]
  BY <1>1
<1> QED
  BY <1>2, <1>3, <1>4 DEF a, b

LEMMA WholeOf ==
    ASSUME NEW m, IsSeq(m.body), IsSeq(m.after)
    PROVE  Strict(m.body) \subseteq Strict(Whole(m)) /\ Strict(m.after) \subseteq Strict(Whole(m))
<1>1. Of(m.body, "read") \subseteq Of(Whole(m), "read")
  BY WholeKeeps DEF Of
<1>2. Of(m.after, "read") \subseteq Of(Whole(m), "read")
  BY WholeKeeps DEF Of
<1> QED
  BY <1>1, <1>2 DEF Strict

\* What a middleware requires passed before it began, and what it provides is
\* the rest of what it and its after block may read.
LEMMA MayRead ==
    ASSUME PipeInv, KeepsItsWord(prog), NEW j \in 1..began,
           NEW k, k \in Strict(Whole(prog.middleware[prog.chain[j]]))
    PROVE  k \in context \/ k \in Provides(prog.chain[j])
<1> DEFINE m == prog.chain[j]
<1>1. Len(prog.chain) \in Nat /\ j \in 1..Len(prog.chain) /\ began \in Nat
  BY WellFormed DEF PipeInv, ChainInv, DeployedInv
<1>2. m \in DOMAIN prog.middleware /\ DOMAIN prog.chain = 1..Len(prog.chain)
  BY <1>1, WellFormed DEF PipeInv, DeployedInv
<1>3. k \in Provided(prog, prog.middleware[m].requires \cup {m})
  <2>1. ~E0820(prog)
    BY DEF PipeInv, DeployedInv, Accepted
  <2> QED
    BY <1>2, <2>1 DEF E0820
<1>4. PICK r \in prog.middleware[m].requires \cup {m} : k \in Provides(r)
  BY <1>3 DEF Provided, Provides
<1>5. CASE r = m
  BY <1>4, <1>5
<1>6. CASE r \in prog.middleware[m].requires
  <2>1. j \in Declared(prog)
    BY <1>1, <1>2 DEF Declared
  <2>2. ~E0803(prog)
    BY DEF PipeInv, DeployedInv, Accepted
  <2>3. PICK i \in 1..(j - 1) : prog.chain[i] = r
    BY <1>6, <2>1, <2>2 DEF E0803
  <2>4. i \in 1..passed
    BY <1>1 DEF PipeInv, ChainInv
  <2> QED
    BY <1>4, <2>3, <2>4 DEF PipeInv, GivenInv
<1> QED
  BY <1>4, <1>5, <1>6

LEMMA ReadSet ==
    ASSUME PipeInv
    PROVE  ContextSet
<1> SUFFICES ASSUME KeepsItsWord(prog), Running("read"), Top.of[1] \in {"route", "middleware", "after"},
                    ~Stmt.optional, Stmt.key \notin context
             PROVE  /\ Top.of[1] = "after" /\ Stmt.key \in prog.middleware[Top.of[2]].provides
                    /\ \A i \in 1..passed : prog.chain[i] # Top.of[2]
  BY DEF ContextSet
<1> DEFINE of == Top.of
           pc == Top.pc
           k == Stmt.key
<1>1. /\ stack # <<>> /\ Top = stack[1] /\ pc \in Nat \ {0} /\ ~(pc > Len(Body(of)))
      /\ SetUpTo(of, pc, context)
  BY Reading
<1>2. Stmt = Body(of)[pc] /\ Stmt.op = "read"
  BY DEF Stmt, Running
<1>3. ASSUME IsSeq(Body(of)) PROVE pc \in DOMAIN Body(of) /\ k \in Strict(Body(of))
  <2>1. pc \in DOMAIN Body(of)
    BY <1>1, <1>3 DEF IsSeq
  <2> QED
    BY <1>2, <2>1, StrictOf
<1>4. CASE of[1] = "route"
  <2>1. stage = "handler" /\ passed = Len(prog.chain)
    BY <1>1, <1>4
    DEF PipeInv, ComingInv, ChainedInv, HandledInv, ArmsInv, AfterInv, DoneInv
  <2>2. Body(of) = prog.body
    BY <1>4 DEF Body
  <2>3. IsSeq(prog.body)
    BY ProgramsAssumption DEF PipeInv, DeployedInv, IsBody
  <2>4. k \in Strict(prog.body)
    BY <1>3, <2>2, <2>3
  <2>5. k \in Provided(prog, {prog.chain[i] : i \in DOMAIN prog.chain})
    <3>1. ~E0820(prog)
      BY DEF PipeInv, DeployedInv, Accepted
    <3> QED
      BY <2>4, <3>1 DEF E0820
  <2>6. PICK i \in DOMAIN prog.chain : k \in Provides(prog.chain[i])
    BY <2>5 DEF Provided, Provides
  <2>7. i \in 1..passed
    BY <2>1, <2>6, WellFormed DEF PipeInv, DeployedInv
  <2> QED
    BY <2>6, <2>7 DEF PipeInv, GivenInv
<1>5. CASE of[1] = "middleware"
  <2>1. stage = "chain" /\ began > 0 /\ of = <<"middleware", prog.chain[began]>>
    BY <1>1, <1>5
    DEF PipeInv, ComingInv, ChainedInv, HandledInv, ArmsInv, AfterInv, DoneInv
  <2> DEFINE m == prog.chain[began]
             body == prog.middleware[m].body
  <2>2. began \in 1..began /\ began \in 1..Len(prog.chain)
    BY <2>1, WellFormed DEF PipeInv, ChainInv, DeployedInv
  <2>3. m \in DOMAIN prog.middleware /\ IsSeq(body) /\ IsSeq(prog.middleware[m].after)
    BY <2>2, WellFormed DEF PipeInv, DeployedInv
  <2>4. Body(of) = body
    BY <2>1 DEF Body
  <2>5. pc \in DOMAIN body /\ k \in Strict(Whole(prog.middleware[m]))
    BY <1>3, <2>3, <2>4, WholeOf
  <2>6. k \in prog.middleware[m].provides
    BY <2>2, <2>5, MayRead DEF Provides
  <2>11. \A x \in prog.middleware[m].provides : \E i \in DOMAIN body :
            /\ body[i].op = "set" /\ body[i].key = x
            /\ \A j \in 1..(i - 1) : ~(body[j].op = "read" /\ body[j].key = x)
    <3> HIDE DEF m
    <3> QED
      BY <2>3 DEF KeepsItsWord
  <2>8. body[pc].op = "read" /\ body[pc].key = k
    BY <1>2, <2>4
  <2> HIDE DEF m, body, k, pc
  <2>7. PICK i \in DOMAIN body :
            /\ body[i].op = "set" /\ body[i].key = k
            /\ \A j \in 1..(i - 1) : ~(body[j].op = "read" /\ body[j].key = k)
    <3> USE DEF m
    <3> QED
      BY <2>6, <2>11
  <2>9. pc # i /\ ~(pc \in 1..(i - 1))
    BY <2>7, <2>8
  <2>12. i \in Nat
    BY <2>3 DEF IsSeq
  <2>10. i < pc
    BY <1>1, <2>9, <2>12 DEF pc
  <2> QED
    BY <1>1, <1>5, <2>4, <2>7, <2>10 DEF SetUpTo, pc, k
<1>6. CASE of[1] = "after"
  <2>1. PICK j \in 1..began : of = <<"after", prog.chain[j]>>
    BY <1>1, <1>6
    DEF PipeInv, ComingInv, ChainedInv, HandledInv, ArmsInv, AfterInv, DoneInv
  <2> DEFINE m == prog.chain[j]
  <2>2. j \in 1..Len(prog.chain)
    BY WellFormed DEF PipeInv, ChainInv, DeployedInv
  <2>3. IsSeq(prog.middleware[m].body) /\ IsSeq(prog.middleware[m].after)
    BY <2>2, WellFormed DEF PipeInv, DeployedInv
  <2>4. Body(of) = prog.middleware[m].after
    BY <2>1 DEF Body
  <2>5. k \in Strict(Whole(prog.middleware[m]))
    BY <1>3, <2>3, <2>4, WholeOf
  <2>6. k \in Provides(m)
    BY <2>5, MayRead
  <2>7. \A i \in 1..passed : prog.chain[i] # m
    BY <2>6 DEF PipeInv, GivenInv
  <2> QED
    BY <1>6, <2>1, <2>6, <2>7 DEF Provides
<1> QED
  BY <1>4, <1>5, <1>6

\* In every accepted program whose middleware set what they say they provide, a
\* route and a middleware find every key they read without `?` set, whatever
\* the bodies, the errors, the catches and the depth of calls; and so does an
\* after block, but for what its own middleware did not come to set
\* (wiring.rs, check_context; exec.rs, the read of a context key).
THEOREM Context == PipelineSpec => []ContextSet
<1>1. PipelineStart => PipeInv
  BY PipeInit
<1>2. PipeInv /\ [PipelineStep]_<<server, pipe>> => PipeInv'
  BY PipeNext
<1>3. PipeInv => ContextSet
  BY ReadSet
<1> QED
  BY <1>1, <1>2, <1>3, PTL DEF PipelineSpec
-----------------------------------------------------------------------------
(* What is raised.                                                         *)

LEMMA LargerRaises ==
    ASSUME NEW p, NEW a, NEW b, Callees(a) \subseteq Callees(b), DirectRaises(a) \subseteq DirectRaises(b)
    PROVE  Raises(p, a) \subseteq Raises(p, b)
<1>1. ReachableOnce(p, a) \subseteq ReachableOnce(p, b)
  BY DEF ReachableOnce
<1>2. Reachable(p, a) \subseteq Reachable(p, b)
  BY <1>1 DEF Reachable
<1> QED
  BY <1>2 DEF Raises

\* A body raises what the functions it calls raise.
LEMMA CalleeRaises ==
    ASSUME NEW p, NEW body, NEW f \in Callees(body), f \in DOMAIN p.functions
    PROVE  Raises(p, p.functions[f].body) \subseteq Raises(p, body)
<1> DEFINE fb == p.functions[f].body
<1>1. f \in Reachable(p, body)
  BY DEF Reachable, ReachableOnce
<1>2. ASSUME NEW g \in Reachable(p, fb) PROVE g \in Reachable(p, body)
  <2>1. g \in DOMAIN p.functions
    BY DEF Reachable
  <2> SUFFICES ASSUME NEW fs \in SUBSET DOMAIN p.functions, ReachableOnce(p, body) \subseteq fs,
                      CallClosed(p, fs)
               PROVE  g \in fs
    BY <2>1 DEF Reachable
  <2>2. f \in fs
    BY <1>1 DEF Reachable
  <2>3. ReachableOnce(p, fb) \subseteq fs
    BY <2>2 DEF CallClosed, ReachableOnce
  <2> QED
    BY <2>3 DEF Reachable
<1>3. DirectRaises(fb) \subseteq Raises(p, body)
  BY <1>1 DEF Raises
<1>4. \A g \in Reachable(p, fb) : DirectRaises(p.functions[g].body) \subseteq Raises(p, body)
  BY <1>2 DEF Raises
<1> QED
  BY <1>3, <1>4 DEF Raises

\* What a route, and a middleware of its chain, raises is expected at its end.
LEMMA RouteRaises ==
    ASSUME NEW p
    PROVE  Raises(p, p.body) \subseteq Boundary(p)
BY DEF Boundary

LEMMA ChainRaises ==
    ASSUME NEW p \in Programs, Accepted(p), NEW i \in 1..Len(p.chain)
    PROVE  Raises(p, p.middleware[p.chain[i]].body) \subseteq Boundary(p)
<1> DEFINE m == p.middleware[p.chain[i]]
           a == m.body
           b == m.after
<1>1. p.chain[i] \in DOMAIN p.middleware /\ i \in Declared(p)
  BY WellFormed DEF Declared
<1>2. IsSeq(a) /\ IsSeq(b)
  BY <1>1, WellFormed
<1>3. \A j \in DOMAIN a : j \in DOMAIN Whole(m) /\ Whole(m)[j] = a[j]
  BY <1>2, WholeKeeps
<1> HIDE DEF m, a
<1>4. \A op : Of(a, op) \subseteq Of(Whole(m), op)
  BY <1>3 DEF Of
<1>5. Callees(a) \subseteq Callees(Whole(m)) /\ DirectRaises(a) \subseteq DirectRaises(Whole(m))
  BY <1>4 DEF Callees, DirectRaises
<1>6. Raises(p, a) \subseteq Raises(p, Whole(m))
  BY <1>5, LargerRaises
<1>7. Raises(p, Whole(m)) \subseteq Boundary(p)
  BY <1>1 DEF Boundary, m
<1> QED
  BY <1>6, <1>7 DEF a, m

\* The error under way is one the raise sets have.
RaiseInv == stack # <<>> /\ Declares => raising \in Raises(prog, Body(Top.of))
LeavesInv ==
    stage \in {"chain", "handler"} /\ stack = <<>> /\ flow = "raised" /\ Declares =>
        raising \in Boundary(prog)

LEMMA UnwindRaises ==
    ASSUME PipeInv, RaiseInv, Unwind
    PROVE  RaiseInv' /\ LeavesInv'
<1> DEFINE r == Front(stack)
           n == Len(r)
           call == Body(r[n].of)[r[n].pc]
<1>1. stack # <<>> /\ prog' = prog /\ stage' = stage /\ prog \in Programs /\ Accepted(prog)
  BY DEF Unwind, doing, PipeInv, DeployedInv
<1>2. Fine(stack, context)
  BY <1>1 DEF PipeInv, StackInv
<1>3. IsStack(stack) /\ Len(stack) \in Nat /\ Len(stack) >= 1
  BY <1>1, <1>2, Length DEF Fine
<1>4. IsStack(r) /\ n = Len(stack) - 1
  BY <1>1, <1>3, Popped
<1>5. CASE r = <<>>
  <2>1. stack' = <<>> /\ flow' = "raised" /\ raising' = raising /\ hidden' = hidden
    BY <1>5 DEF Unwind
  <2>2. Len(stack) = 1
    <3>1. ~(n >= 1)
      BY <1>4, <1>5, Length
    <3> QED
      BY <1>3, <1>4, <3>1
  <2>3. ASSUME Declares PROVE raising \in Raises(prog, Body(stack[1].of))
    BY <1>1, <2>2, <2>3 DEF RaiseInv, Top
  <2>4. ASSUME Declares, stage = "handler" PROVE raising \in Boundary(prog)
    <3>1. stack[1].of = <<"route">>
      BY <1>1, <2>4 DEF PipeInv, HandledInv
    <3>2. Body(stack[1].of) = prog.body
      BY <3>1 DEF Body
    <3> QED
      BY <2>3, <2>4, <3>2, RouteRaises
  <2>5. ASSUME Declares, stage = "chain" PROVE raising \in Boundary(prog)
    <3>1. began > 0 /\ stack[1].of = <<"middleware", prog.chain[began]>>
      BY <1>1, <2>5 DEF PipeInv, ChainedInv
    <3>2. Body(stack[1].of) = prog.middleware[prog.chain[began]].body
      BY <3>1 DEF Body
    <3>3. began \in 1..Len(prog.chain)
      BY <1>1, <3>1, WellFormed DEF PipeInv, ChainInv
    <3> QED
      BY <1>1, <2>3, <2>5, <3>2, <3>3, ChainRaises
  <2>6. Declares' => Declares
    BY <2>1 DEF Declares
  <2> QED
    BY <1>1, <2>1, <2>4, <2>5, <2>6 DEF RaiseInv, LeavesInv
<1>6. CASE r # <<>>
  <2>1. /\ Fine(r, context)
        /\ AtCall(r[n].of, r[n].pc) /\ r[n] = stack[n] /\ stack[n + 1].of = Callee(r[n].of, r[n].pc)
    BY <1>1, <1>2, <1>6, FineFront
  <2>2. \/ stack' = r /\ raising' = raising /\ hidden' = hidden
        \/ ~Declares'
    BY <1>6 DEF Unwind, Declares
  <2>3. CASE stack' = r /\ raising' = raising /\ hidden' = hidden
    <3>1. SUFFICES ASSUME Declares PROVE raising \in Raises(prog, Body(r[n].of))
      BY <1>1, <1>6, <2>3 DEF RaiseInv, LeavesInv, Declares, Top, Body
    <3>2. Top.of = Callee(r[n].of, r[n].pc)
      BY <1>3, <1>4, <2>1 DEF Top
    <3>3. Body(Top.of) = prog.functions[call.fn].body
      <4>1. \A f : Body(<<"function", f>>) = prog.functions[f].body
        BY DEF Body
      <4> QED
        BY <3>2, <4>1 DEF Callee
    <3>4. call \in Of(Body(r[n].of), "call")
      BY <2>1 DEF AtCall, Of
    <3>5. call.fn \in Callees(Body(r[n].of))
      BY <3>4 DEF Callees
    <3>6. Sound(r[n].of)
      <4>1. n \in 1..n
        BY <1>4, <1>6, Length
      <4> QED
        BY <2>1, <4>1 DEF Fine
    <3>7. call.fn \in DOMAIN prog.functions
      BY <3>5, <3>6 DEF Sound, IsBody
    <3>8. raising \in Raises(prog, Body(Top.of))
      BY <1>1, <3>1 DEF RaiseInv
    <3> HIDE DEF call
    <3> QED
      BY <3>3, <3>5, <3>7, <3>8, CalleeRaises
  <2>4. CASE ~Declares'
    BY <2>4 DEF RaiseInv, LeavesInv
  <2> QED
    BY <2>2, <2>3, <2>4
<1> QED
  BY <1>5, <1>6

LEMMA ThrowRaises ==
    ASSUME PipeInv, DoThrow
    PROVE  RaiseInv' /\ LeavesInv'
<1>1. stack # <<>> /\ prog' = prog /\ raising = NoError /\ ~Ended /\ Stmt.op = "throw"
  BY DEF DoThrow, Running, doing
<1>2. CASE Proceed
  BY <1>1, <1>2 DEF Proceed, Declares, RaiseInv, LeavesInv
<1>3. CASE raising' = Stmt.error /\ hidden' = Stmt.assigned /\ stack' = stack
  <2> SUFFICES ASSUME Declares' PROVE Stmt.error \in Raises(prog, Body(Top.of))
    BY <1>1, <1>3 DEF RaiseInv, LeavesInv, Top, Body
  <2>1. Fine(stack, context)
    BY <1>1 DEF PipeInv, StackInv
  <2>2. Len(stack) \in 1..Len(stack)
    BY <1>1, <2>1, Length DEF Fine
  <2>3. Top.pc \in Nat \ {0} /\ Sound(Top.of)
    BY <2>1, <2>2 DEF Fine, Top
  <2>4. Top.pc \in DOMAIN Body(Top.of)
    BY <1>1, <2>3 DEF Sound, IsBody, IsSeq, Ended
  <2>5. ~Stmt.assigned
    BY <1>3 DEF Declares
  <2>6. Stmt \in Of(Body(Top.of), "throw")
    BY <1>1, <2>4 DEF Of, Stmt
  <2> QED
    BY <2>5, <2>6 DEF Raises, DirectRaises
<1> QED
  BY <1>2, <1>3 DEF DoThrow

\* Every other statement faults or raises nothing.
LEMMA OtherRaises ==
    ASSUME DoRead \/ DoSet \/ DoWork \/ DoReturn \/ DoCall \/ FallsOff
    PROVE  RaiseInv' /\ LeavesInv'
<1>1. raising = NoError
  BY DEF DoRead, DoSet, DoWork, DoReturn, DoCall, FallsOff, Running
<1>2. raising' \in {NoError, Fault}
  BY <1>1 DEF DoRead, DoSet, DoWork, DoReturn, DoCall, FallsOff, Proceed
<1> QED
  BY <1>2 DEF RaiseInv, LeavesInv, Declares

LEMMA StageRaises ==
    ASSUME RaiseInv, LeavesInv,
           RunStage \/ \E r \in Requests : Begin(r) \/ Send(r) \/ Cut(r), PipeInv
    PROVE  RaiseInv' /\ LeavesInv'
<1>1. CASE Enter
  BY <1>1 DEF Enter, Starts, RaiseInv, LeavesInv, Declares
<1>2. CASE Responded \/ Faulted \/ ArmAnswered \/ Erred
  BY <1>2 DEF Responded, Faulted, ArmAnswered, Erred, Answered, Between, RaiseInv, LeavesInv
<1>3. CASE Arm \/ After
  <2>1. stage' \in {"arms", "after"} /\ (stack' = <<>> \/ raising' = NoError)
    BY <1>3 DEF Arm, After, Between, Starts
  <2> QED
    BY <2>1 DEF RaiseInv, LeavesInv, Declares
<1>4. CASE \E r \in Requests : Begin(r) \/ Send(r) \/ Cut(r)
  <2>1. stack' = <<>> /\ (stage' \notin {"chain", "handler"} \/ flow' = "none")
    BY <1>4 DEF Begin, Send, Cut, Between, PipeInv, ComingInv
  <2> QED
    BY <2>1 DEF RaiseInv, LeavesInv
<1> QED
  BY <1>1, <1>2, <1>3, <1>4 DEF RunStage

LEMMA RaiseNext ==
    ASSUME PipeInv, RaiseInv, LeavesInv, [PipelineStep]_<<server, pipe>>
    PROVE  RaiseInv' /\ LeavesInv'
<1>1. CASE UNCHANGED pipe
  BY <1>1 DEF pipe, RaiseInv, LeavesInv, Declares, Top, Body
<1>2. CASE RunStatement
  BY <1>2, UnwindRaises, ThrowRaises, OtherRaises DEF RunStatement
<1>3. CASE RunStage \/ \E r \in Requests : Begin(r) \/ Send(r) \/ Cut(r)
  BY <1>3, StageRaises
<1> QED
  BY <1>1, <1>2, <1>3 DEF PipelineStep, PipelineNext

\* In every accepted program, whatever its functions call and however deep, an
\* error that leaves a body is one of its raise set, and none that comes to the
\* errorHandler is one its arms are warned of as unreachable, but for those
\* the sets are documented to leave out (wiring.rs, raise_sets, direct_raises).
THEOREM Raised == PipelineSpec => []RaisesCovered
<1>1. PipelineStart => PipeInv /\ RaiseInv /\ LeavesInv
  BY PipeInit DEF PipelineStart, PipelineInit, RaiseInv, LeavesInv
<1>2. PipeInv /\ RaiseInv /\ LeavesInv /\ [PipelineStep]_<<server, pipe>>
          => (PipeInv /\ RaiseInv /\ LeavesInv)'
  BY PipeNext, RaiseNext
<1>3. RaiseInv /\ LeavesInv => RaisesCovered
  BY DEF RaiseInv, LeavesInv, RaisesCovered, Between, W1001
<1> QED
  BY <1>1, <1>2, <1>3, PTL DEF PipelineSpec
-----------------------------------------------------------------------------
(* What is unwound.                                                        *)

\* Of the places past the next one, what began is what is owed, the last
\* place first.
Past == {i \in Owed : i > next}
Reverses(done, chain, past) ==
    /\ \A n \in 1..Len(done) : \E i \in past : done[n] = chain[i]
    /\ \A i \in past : \E n \in 1..Len(done) : done[n] = chain[i]
    /\ \A m, n \in 1..Len(done) :
          m < n => \E i, j \in past : j < i /\ done[m] = chain[i] /\ done[n] = chain[j]
Unwound == Reverses(unwound, prog.chain, Past)
UnwoundInv ==
    /\ IsStack(unwound)
    /\ stage \in {"coming", "chain", "handler", "arms"} => unwound = <<>>
    /\ stage \in {"after", "sent"} => Unwound
    /\ stage = "sent" => next = 0

LEMMA SamePast ==
    ASSUME UNCHANGED <<prog, next, began, unwound>>, Unwound
    PROVE  Unwound'
<1>1. Owed' = Owed
  BY DEF Owed
<1>2. Past' = Past
  BY <1>1 DEF Past
<1> QED
  BY <1>2 DEF Unwound

LEMMA AnsweredUnwound ==
    ASSUME PipeInv, UnwoundInv, Answered, stage \in {"chain", "handler", "arms"}
    PROVE  UnwoundInv'
<1>1. stage' = "after" /\ next' = began /\ unwound' = <<>> /\ began' = began /\ unwound = <<>>
  BY DEF PipeInv, ChainInv, Answered, UnwoundInv
<1>2. Len(unwound') = 0
  BY <1>1
<1>3. Past' = {}
  BY <1>1, WellFormed DEF Past, Owed, PipeInv, ChainInv, DeployedInv
<1>4. Unwound'
  BY <1>2, <1>3 DEF Unwound, Reverses
<1> QED
  BY <1>1, <1>4 DEF UnwoundInv

LEMMA AfterUnwound ==
    ASSUME PipeInv, UnwoundInv, After
    PROVE  UnwoundInv'
<1>1. /\ stage = "after" /\ stage' = "after" /\ next > 0 /\ next' = next - 1
      /\ prog' = prog /\ began' = began /\ IsStack(unwound) /\ Unwound
  BY DEF After, Between, UnwoundInv
<1>2. next \in 1..began /\ began \in Nat
  BY <1>1, WellFormed DEF PipeInv, AfterInv, ChainInv, DeployedInv
<1> DEFINE x == prog.chain[next]
<1>3. started[next] = x
  BY <1>2 DEF PipeInv, ChainInv
<1>4. Owed' = Owed /\ Owed \subseteq 1..began
  BY <1>1 DEF Owed
<1>5. CASE prog.middleware[x].after # <<>>
  <2> DEFINE k == Len(unwound)
  <2>1. unwound' = Append(unwound, x)
    BY <1>3, <1>5 DEF After
  <2>2. /\ IsStack(unwound') /\ Len(unwound') = k + 1 /\ unwound'[k + 1] = x /\ k \in Nat
        /\ \A n \in 1..k : unwound'[n] = unwound[n]
    BY <1>1, <2>1, Pushed, Length
  <2>3. next \in Owed
    BY <1>2, <1>5 DEF Owed
  <2>4. Past' = Past \cup {next}
    <3>1. Past' = {i \in Owed : i > next - 1}
      BY <1>1, <1>4 DEF Past
    <3>2. \A i \in Owed : i > next - 1 <=> i > next \/ i = next
      BY <1>2, <1>4
    <3> QED
      BY <2>3, <3>1, <3>2 DEF Past
  <2> HIDE DEF k
  <2>5. \A n \in 1..(k + 1) : n \in 1..k \/ n = k + 1
    BY <2>2
  <2>6. \A n \in 1..k : \E i \in Past : unwound'[n] = prog.chain[i]
    BY <1>1, <2>2 DEF Unwound, Reverses, k
  <2>7. \A n \in 1..(k + 1) : \E i \in Past' : unwound'[n] = prog.chain[i]
    BY <2>2, <2>4, <2>5, <2>6
  <2>8. \A i \in Past' : \E n \in 1..(k + 1) : unwound'[n] = prog.chain[i]
    <3>1. \A i \in Past : \E n \in 1..k : unwound'[n] = prog.chain[i]
      BY <1>1, <2>2 DEF Unwound, Reverses, k
    <3>2. 1..k \subseteq 1..(k + 1) /\ k + 1 \in 1..(k + 1)
      BY <2>2
    <3> QED
      BY <2>2, <2>4, <3>1, <3>2
  <2>9. ASSUME NEW m \in 1..(k + 1), NEW n \in 1..(k + 1), m < n
        PROVE  \E i, j \in Past' : j < i /\ unwound'[m] = prog.chain[i] /\ unwound'[n] = prog.chain[j]
    <3>1. m \in 1..k
      BY <2>2, <2>9
    <3>2. CASE n \in 1..k
      <4>1. PICK i \in Past, j \in Past : j < i /\ unwound[m] = prog.chain[i] /\ unwound[n] = prog.chain[j]
        BY <1>1, <2>9, <3>1, <3>2 DEF Unwound, Reverses, k
      <4> QED
        BY <2>2, <2>4, <3>1, <3>2, <4>1
    <3>3. CASE n = k + 1
      <4>1. PICK i \in Past : unwound'[m] = prog.chain[i]
        BY <2>6, <3>1
      <4>2. next < i
        BY <1>2, <1>4, <4>1 DEF Past
      <4> QED
        BY <2>2, <2>4, <3>3, <4>1, <4>2
    <3> QED
      BY <2>5, <3>2, <3>3
  <2>10. Unwound'
    BY <1>1, <2>2, <2>7, <2>8, <2>9 DEF Unwound, Reverses
  <2> QED
    BY <1>1, <2>2, <2>10 DEF UnwoundInv
<1>6. CASE prog.middleware[x].after = <<>>
  <2>1. unwound' = unwound
    BY <1>3, <1>6 DEF After
  <2>2. next \notin Owed
    BY <1>6 DEF Owed
  <2>3. Past' = Past
    <3>1. Past' = {i \in Owed : i > next - 1}
      BY <1>1, <1>4 DEF Past
    <3>2. \A i \in Owed : i > next - 1 <=> i > next
      BY <1>2, <1>4, <2>2
    <3> QED
      BY <3>1, <3>2 DEF Past
  <2>4. Unwound'
    BY <1>1, <2>1, <2>3 DEF Unwound
  <2> QED
    BY <1>1, <2>1, <2>4 DEF UnwoundInv
<1> QED
  BY <1>5, <1>6

LEMMA UnwoundNext ==
    ASSUME PipeInv, UnwoundInv, [PipelineStep]_<<server, pipe>>
    PROVE  UnwoundInv'
<1>1. CASE UNCHANGED <<prog, stage, next, began, unwound>>
  BY <1>1, SamePast DEF UnwoundInv
<1>2. CASE RunStatement
  <2>1. UNCHANGED doing
    BY <1>2 DEF RunStatement, DoRead, DoSet, DoWork, DoThrow, DoReturn, DoCall, FallsOff, Unwind
  <2> QED
    BY <1>1, <2>1 DEF doing
<1>3. CASE Responded \/ Faulted \/ ArmAnswered
  BY <1>3, AnsweredUnwound DEF Responded, Faulted, ArmAnswered, Between
<1>4. CASE Enter \/ Erred \/ Arm
  <2>1. unwound' = unwound /\ {stage, stage'} \subseteq {"chain", "handler", "arms"}
    BY <1>4 DEF Enter, Erred, Arm, Between
  <2> QED
    BY <2>1 DEF UnwoundInv
<1>5. CASE After
  BY <1>5, AfterUnwound
<1>6. CASE \E r \in Requests : Begin(r)
  BY <1>6 DEF Begin, UnwoundInv
<1>7. CASE \E r \in Requests : Send(r)
  <2>1. stage = "after" /\ stage' = "sent" /\ next = 0 /\ UNCHANGED <<prog, next, began, unwound>>
    BY <1>7 DEF Send, Between
  <2> QED
    BY <2>1, SamePast DEF UnwoundInv
<1>8. CASE \E r \in Requests : Cut(r)
  BY <1>8 DEF Cut, UnwoundInv
<1> QED
  BY <1>1, <1>2, <1>3, <1>4, <1>5, <1>6, <1>7, <1>8
  DEF PipelineStep, PipelineNext, RunStage, pipe

\* A response goes out only when the after block of every middleware that
\* began, and of no other, has begun in the reverse order, whether it passed,
\* answered, threw or faulted, for every chain and whatever the after blocks
\* do (serve.rs, run_after_chain; middleware.md 4.3).
THEOREM AfterBlocks == PipelineSpec => []Unwinds
<1>1. PipelineStart => PipeInv /\ UnwoundInv
  <2>1. IsStack(<<>>)
    BY DEF IsStack
  <2> QED
    BY <2>1, PipeInit DEF PipelineStart, PipelineInit, UnwoundInv
<1>2. PipeInv /\ UnwoundInv /\ [PipelineStep]_<<server, pipe>> => (PipeInv /\ UnwoundInv)'
  BY PipeNext, UnwoundNext
<1>3. PipeInv /\ UnwoundInv => Unwinds
  <2> SUFFICES ASSUME PipeInv, UnwoundInv, stage = "sent" PROVE Unwinds
    BY DEF Unwinds
  <2>1. Unwound /\ next = 0
    BY DEF UnwoundInv
  <2>2. Past = Owed
    BY <2>1, WellFormed DEF Past, Owed, PipeInv, ChainInv, DeployedInv
  <2>3. {unwound[n] : n \in 1..Len(unwound)} = {prog.chain[i] : i \in Past}
    <3>1. \A n \in 1..Len(unwound) : \E i \in Past : unwound[n] = prog.chain[i]
      BY <2>1 DEF Unwound, Reverses
    <3>2. \A i \in Past : \E n \in 1..Len(unwound) : unwound[n] = prog.chain[i]
      BY <2>1 DEF Unwound, Reverses
    <3> QED
      BY <3>1, <3>2
  <2>4. \A m, n \in 1..Len(unwound) :
            m < n => \E i, j \in Past : j < i /\ unwound[m] = prog.chain[i] /\ unwound[n] = prog.chain[j]
    BY <2>1 DEF Unwound, Reverses
  <2> QED
    BY <2>2, <2>3, <2>4, Zenon DEF Unwinds
<1> QED
  BY <1>1, <1>2, <1>3, PTL DEF PipelineSpec
=============================================================================
