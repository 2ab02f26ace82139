----------------------------- MODULE Server_proofs -----------------------------
(***************************************************************************)
(* Theorems about Server, for any number of requests and any size of pool. *)
(* The connections stay within the pool because a request holds at most    *)
(* one: which, is read off the steps its handler has left.                 *)
(***************************************************************************)
EXTENDS Server, TLAPS, FiniteSetTheorems, SequenceTheorems

\* The steps of a transaction follow each other without a gap: a begin or an
\* inner statement is followed by an inner statement or the commit, and only by
\* these are those preceded.
Opens == {"begin", "inner"}
WellNested(s) ==
    \A i \in 1..Len(s) :
        /\ s[i] \in Opens => i < Len(s) /\ s[i + 1] \in InTx
        /\ i > 1 /\ s[i] \in InTx => s[i - 1] \in Opens

\* A request between statements holds a connection exactly inside a transaction.
Connected(w) ==
    /\ pc[w] = "idle" => todo[w] = << >> /\ w \notin holders
    /\ pc[w] = "run" => (w \in holders <=> Inside(todo[w]))
    /\ pc[w] = "query" =>
        w \in holders /\ todo[w] # << >> /\ Head(todo[w]) = "statement"

\* No request before the pool is open, and no connection once it is closed.
PoolClosed ==
    /\ stage = "starting" => \A w \in Workers : pc[w] = "idle"
    /\ stage = "stopped" => holders = {}

IInv ==
    /\ TypeOK /\ IsFiniteSet(holders)
    /\ \A w \in Workers : WellNested(todo[w]) /\ Connected(w)
    /\ PoolClosed

-----------------------------------------------------------------------------
(* Steps left. *)

LEMMA EmptyNested ==
    << >> \in Seq(Steps) /\ Len(<< >>) = 0 /\ WellNested(<< >>) /\ ~Inside(<< >>)
BY EmptySeq DEF WellNested, Inside

LEMMA HandlersNested ==
    ASSUME NEW handler \in Handlers
    PROVE  handler \in Seq(Steps) /\ handler # << >>
           /\ WellNested(handler) /\ ~Inside(handler)
<1> USE DEF Steps, WellNested, Inside, InTx, Opens
<1>6. CASE handler = <<"statement">>
  BY <1>6
<1>1. CASE handler = <<"statement", "statement", "statement", "call", "statement">>
  BY <1>1
<1>2. CASE handler = <<"statement", "call", "statement">>
  BY <1>2
<1>3. CASE handler = <<"statement", "begin", "inner", "inner", "inner", "commit">>
  BY <1>3
<1>4. CASE handler = <<"call", "statement", "begin", "inner", "commit">>
  BY <1>4
<1>5. CASE handler = <<"statement", "statement", "begin", "inner", "inner", "commit">>
  BY <1>5
<1>7. CASE handler = <<"statement", "statement">>
  BY <1>7
<1>8. CASE handler = <<"statement", "statement", "statement", "statement">>
  BY <1>8
<1> QED
  BY <1>1, <1>2, <1>3, <1>4, <1>5, <1>6, <1>7, <1>8 DEF Handlers, ReadinessProbe

LEMMA TailNested ==
    ASSUME NEW s \in Seq(Steps), s # << >>, WellNested(s)
    PROVE  /\ Tail(s) \in Seq(Steps) /\ WellNested(Tail(s))
           /\ Inside(Tail(s)) <=> Head(s) \in Opens
<1>1. /\ Len(s) \in Nat \ {0} /\ Tail(s) \in Seq(Steps) /\ Len(Tail(s)) = Len(s) - 1
      /\ Head(s) = s[1]
      /\ \A i \in 1..Len(Tail(s)) : Tail(s)[i] = s[i + 1]
  BY HeadTailProperties, EmptySeq
<1>2. WellNested(Tail(s))
  <2> SUFFICES ASSUME NEW i \in 1..Len(Tail(s))
               PROVE  /\ Tail(s)[i] \in Opens =>
                            i < Len(Tail(s)) /\ Tail(s)[i + 1] \in InTx
                      /\ i > 1 /\ Tail(s)[i] \in InTx => Tail(s)[i - 1] \in Opens
    BY DEF WellNested
  <2>1. i + 1 \in 1..Len(s) /\ Tail(s)[i] = s[i + 1]
    BY <1>1
  <2>2. ASSUME s[i + 1] \in Opens PROVE i < Len(Tail(s)) /\ Tail(s)[i + 1] \in InTx
    <3>1. i + 1 < Len(s) /\ s[(i + 1) + 1] \in InTx
      BY <2>1, <2>2 DEF WellNested
    <3> QED
      BY <1>1, <3>1
  <2>3. ASSUME i > 1, s[i + 1] \in InTx PROVE Tail(s)[i - 1] \in Opens
    <3>1. s[(i + 1) - 1] \in Opens /\ i - 1 \in 1..Len(Tail(s))
      BY <1>1, <2>1, <2>3 DEF WellNested
    <3>2. Tail(s)[i - 1] = s[(i - 1) + 1] /\ (i - 1) + 1 = (i + 1) - 1
      BY <1>1, <3>1
    <3> QED
      BY <3>1, <3>2
  <2> QED
    BY <2>1, <2>2, <2>3
<1>3. CASE Tail(s) = << >>
  <2>1. Len(s) = 1
    BY <1>1, <1>3, EmptyNested
  <2>2. 1 \in 1..Len(s) /\ ~(1 < Len(s))
    BY <2>1
  <2>3. s[1] \notin Opens
    BY <2>2 DEF WellNested
  <2> QED
    BY <1>1, <1>2, <1>3, <2>3, EmptyNested
<1>4. CASE Tail(s) # << >>
  <2>1. Len(Tail(s)) \in Nat \ {0} /\ Head(Tail(s)) = Tail(s)[1]
    BY <1>1, <1>4, HeadTailProperties, EmptySeq
  <2>2. 1 \in 1..Len(s) /\ 2 \in 1..Len(s) /\ Head(Tail(s)) = s[2]
    BY <1>1, <2>1
  <2>3. s[1] \in Opens => s[2] \in InTx
    BY <2>2 DEF WellNested
  <2>4. s[2] \in InTx => s[1] \in Opens
    BY <2>2 DEF WellNested
  <2> QED
    BY <1>1, <1>2, <1>4, <2>2, <2>3, <2>4 DEF Inside
<1> QED
  BY <1>3, <1>4

-----------------------------------------------------------------------------
(* The invariant. *)

LEMMA InitIInv == Init => IInv
<1> SUFFICES ASSUME Init PROVE IInv
  OBVIOUS
<1>1. TypeOK
  <2>1. Cardinality(holders) <= MaxConns /\ holders = {}
    BY FS_EmptySet, PoolAssumption DEF Init, PoolAssumption
  <2>2. todo \in [Workers -> Seq(Steps)]
    BY EmptyNested DEF Init
  <2> QED
    BY <2>1, <2>2 DEF Init, TypeOK, Stages
<1> QED
  BY <1>1, FS_EmptySet, EmptyNested
     DEF Init, IInv, Connected, PoolClosed

LEMMA StageStep ==
    ASSUME IInv, UNCHANGED requests, stage' \in Stages, clean' \in BOOLEAN,
           stage' # "starting", stage' = "stopped" => holders = {}
    PROVE  IInv'
BY DEF IInv, TypeOK, requests, Connected, PoolClosed

\* A request in flight moves: what is to be shown of it alone.
LEMMA RequestStep ==
    ASSUME IInv, NEW w \in Workers, NEW place \in {"idle", "run", "query"},
           NEW rest \in Seq(Steps), NEW H, Goto(w, place, rest), holders' = H,
           pc[w] # "idle", WellNested(rest), stage # "stopped",
           H \in {holders, holders \ {w}}
             \/ (H = holders \cup {w} /\ Cardinality(holders) < MaxConns),
           place = "idle" => rest = << >> /\ w \notin H,
           place = "run" => (w \in H <=> Inside(rest)),
           place = "query" => w \in H /\ rest # << >> /\ Head(rest) = "statement"
    PROVE  IInv'
<1>1. /\ pc' = [pc EXCEPT ![w] = place] /\ todo' = [todo EXCEPT ![w] = rest]
      /\ UNCHANGED <<stage, clean>>
  BY DEF Goto
<1>2. pc \in [Workers -> {"idle", "run", "query"}] /\ todo \in [Workers -> Seq(Steps)]
  BY DEF IInv, TypeOK
<1>3. IsFiniteSet(H) /\ Cardinality(H) <= MaxConns
  <2>1. IsFiniteSet(holders) /\ Cardinality(holders) <= MaxConns
        /\ Cardinality(holders) \in Nat
    BY FS_CardinalityType DEF IInv, TypeOK
  <2>2. /\ IsFiniteSet(holders \cup {w}) /\ IsFiniteSet(holders \ {w})
        /\ Cardinality(holders \cup {w}) \in
             {Cardinality(holders), Cardinality(holders) + 1}
        /\ Cardinality(holders \ {w}) \in
             {Cardinality(holders), Cardinality(holders) - 1}
    BY <2>1, FS_AddElement, FS_RemoveElement
  <2>3. MaxConns \in Nat
    BY PoolAssumption DEF PoolAssumption
  <2>4. CASE H = holders
    BY <2>1, <2>4
  <2>5. CASE H = holders \ {w}
    BY <2>1, <2>2, <2>3, <2>5
  <2>6. CASE H = holders \cup {w} /\ Cardinality(holders) < MaxConns
    BY <2>1, <2>2, <2>3, <2>6
  <2> QED
    BY <2>4, <2>5, <2>6
<1>4. \A u \in Workers : u # w => /\ pc'[u] = pc[u] /\ todo'[u] = todo[u]
                                  /\ u \in H <=> u \in holders
  BY <1>1, <1>2
<1>5. pc'[w] = place /\ todo'[w] = rest
  BY <1>1, <1>2
<1>6. TypeOK'
  <2>1. H \subseteq {u \in Workers : pc'[u] # "idle"}
    BY <1>4, <1>5 DEF IInv, TypeOK
  <2> QED
    BY <1>1, <1>2, <1>3, <2>1 DEF IInv, TypeOK
<1>7. \A u \in Workers : WellNested(todo'[u]) /\ Connected(u)'
  BY <1>4, <1>5 DEF IInv, Connected
<1>8. PoolClosed'
  BY <1>1 DEF IInv, PoolClosed
<1> QED
  BY <1>3, <1>6, <1>7, <1>8 DEF IInv

LEMMA StartStep ==
    ASSUME IInv, NEW w \in Workers, NEW handler \in Handlers, Start(w, handler)
    PROVE  IInv'
<1>1. /\ pc' = [pc EXCEPT ![w] = "run"] /\ todo' = [todo EXCEPT ![w] = handler]
      /\ UNCHANGED <<stage, clean, holders>> /\ pc[w] = "idle"
  BY DEF Start
<1>2. /\ pc \in [Workers -> {"idle", "run", "query"}] /\ todo \in [Workers -> Seq(Steps)]
      /\ w \notin holders
  BY <1>1 DEF IInv, TypeOK
<1>3. \A u \in Workers : u # w => pc'[u] = pc[u] /\ todo'[u] = todo[u]
  BY <1>1, <1>2
<1>4. pc'[w] = "run" /\ todo'[w] = handler
  BY <1>1, <1>2
<1>5. TypeOK'
  BY <1>1, <1>2, <1>3, <1>4, HandlersNested DEF IInv, TypeOK
<1>6. \A u \in Workers : WellNested(todo'[u]) /\ Connected(u)'
  BY <1>1, <1>2, <1>3, <1>4, HandlersNested DEF IInv, Connected
<1>7. PoolClosed'
  BY <1>1 DEF Start, PoolClosed
<1>8. IsFiniteSet(holders')
  BY <1>1 DEF IInv
<1> QED
  BY <1>5, <1>6, <1>7, <1>8 DEF IInv

\* The steps that end a statement or run one inside a transaction.
LEMMA TailStep ==
    ASSUME IInv, NEW w \in Workers, NEW H, pc[w] # "idle", todo[w] # << >>,
           stage # "stopped",
           Goto(w, "run", Tail(todo[w])), holders' = H,
           H \in {holders, holders \ {w}}
             \/ (H = holders \cup {w} /\ Cardinality(holders) < MaxConns),
           w \in H <=> Head(todo[w]) \in Opens
    PROVE  IInv'
<1>1. todo[w] \in Seq(Steps) /\ WellNested(todo[w])
  BY DEF IInv, TypeOK
<1>2. /\ Tail(todo[w]) \in Seq(Steps) /\ WellNested(Tail(todo[w]))
      /\ Inside(Tail(todo[w])) <=> Head(todo[w]) \in Opens
  BY <1>1, TailNested
<1> QED
  BY <1>2, RequestStep

LEMMA WorkerStep ==
    ASSUME IInv, NEW w \in Workers, Acquire(w) \/ Advance(w) \/ Return(w),
           stage # "stopped"
    PROVE  IInv'
<1>1. Connected(w) /\ todo[w] \in Seq(Steps) /\ pc[w] \in {"idle", "run", "query"}
      /\ WellNested(todo[w])
  BY DEF IInv, TypeOK
<1>2. CASE Acquire(w)
  <2>1. Cardinality(holders) < MaxConns /\ holders' = holders \cup {w}
    BY <1>2 DEF Acquire, Free
  <2>2. CASE Wants(w, "statement") /\ Goto(w, "query", todo[w])
    BY <1>1, <2>1, <2>2, RequestStep DEF Wants
  <2>3. CASE Wants(w, "begin") /\ Goto(w, "run", Tail(todo[w]))
    BY <2>1, <2>3, TailStep DEF Wants, Opens
  <2> QED
    BY <1>2, <2>2, <2>3 DEF Acquire
<1>3. CASE EndStatement(w)
  BY <1>1, <1>3, TailStep DEF EndStatement, Connected, Opens
<1>4. CASE Call(w)
  BY <1>1, <1>4, TailStep DEF Call, Wants, Connected, Inside, InTx, Opens
<1>5. CASE InnerStatement(w)
  BY <1>1, <1>5, TailStep DEF InnerStatement, Wants, Connected, Inside, InTx, Opens
<1>6. CASE Commit(w)
  BY <1>1, <1>6, TailStep DEF Commit, Wants, Opens
<1>7. CASE Answer(w)
  BY <1>1, <1>7, RequestStep, EmptyNested DEF Answer, Connected
<1>8. CASE Return(w)
  <2>1. pc[w] # "idle" /\ Goto(w, "idle", << >>) /\ holders' = holders \ {w}
    BY <1>8 DEF Return
  <2> DEFINE H == holders \ {w}
  <2>2. w \notin H /\ H \in {holders, holders \ {w}}
    OBVIOUS
  <2> HIDE DEF H
  <2>3. holders' = H
    BY <2>1 DEF H
  <2> QED
    BY <2>1, <2>2, <2>3, RequestStep, EmptyNested
<1> QED
  BY <1>2, <1>3, <1>4, <1>5, <1>6, <1>7, <1>8 DEF Advance

LEMMA NextIInv == IInv /\ [Next]_vars => IInv'
<1> SUFFICES ASSUME IInv, [Next]_vars PROVE IInv'
  OBVIOUS
<1>1. CASE UNCHANGED vars
  BY <1>1 DEF vars, IInv, TypeOK, Connected, PoolClosed
<1>2. CASE Open \/ Signal \/ ListenFails \/ Drain \/ ClosePool
  <2>1. UNCHANGED requests /\ stage' \in Stages /\ clean' \in BOOLEAN
    BY <1>2 DEF Open, Signal, ListenFails, Drain, ClosePool, Stages, IInv, TypeOK
  <2>2. CASE Open
    <3>1. holders = {}
      BY <2>2 DEF Open, IInv, PoolClosed, TypeOK
    <3> QED
      BY <2>1, <2>2, <3>1, StageStep DEF Open
  <2>3. CASE ClosePool
    BY <2>1, <2>3, StageStep DEF ClosePool
  <2>4. CASE Signal \/ ListenFails \/ Drain
    BY <2>1, <2>4, StageStep DEF Signal, ListenFails, Drain
  <2> QED
    BY <1>2, <2>2, <2>3, <2>4
<1> QED
  BY <1>1, <1>2, StartStep, WorkerStep DEF Next

LEMMA Invariance == Spec => []IInv
BY InitIInv, NextIInv, PTL DEF Spec

-----------------------------------------------------------------------------
(* The theorems. *)

\* The pool never lends more connections than it has, and only to requests in
\* flight (uow.go:20-53).
THEOREM TypeCorrect == Spec => []TypeOK
<1>1. IInv => TypeOK
  BY DEF IInv
<1> QED
  BY <1>1, Invariance, PTL

\* A request holds a connection between its statements exactly while it is in a
\* transaction: nothing leaks one and nothing takes a second (uow.go:27-53).
THEOREM ConnectionsMatchTransactions == Spec => [](\A w \in Workers : Connected(w))
<1>1. IInv => \A w \in Workers : Connected(w)
  BY DEF IInv
<1> QED
  BY <1>1, Invariance, PTL

\* No stop leaves a statement or a transaction cut off, however many requests
\* and connections there are and however the drain ended (serve.go:53,
\* server.go:73-80): pool.Close gets back every connection, and a transaction
\* never is without one.
THEOREM StopsCutNoTransaction == Spec => []StopCutsNoTransaction
<1>1. IInv => StopCutsNoTransaction
  <2> SUFFICES ASSUME IInv, stage = "stopped", NEW w \in Workers
               PROVE  pc[w] # "query" /\ ~Inside(todo[w])
    BY DEF StopCutsNoTransaction
  <2>1. w \notin holders /\ Connected(w) /\ pc[w] \in {"idle", "run", "query"}
    BY DEF IInv, PoolClosed, TypeOK
  <2> QED
    BY <2>1, EmptyNested DEF Connected
<1> QED
  BY <1>1, Invariance, PTL
=============================================================================
