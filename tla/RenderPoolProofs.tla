-------------------------- MODULE RenderPoolProofs --------------------------
(***************************************************************************)
(* The tokens of the render pool are accounted for, a scan always finds the *)
(* worker its token stands for, and no worker outlives the controller, for  *)
(* every number of threads and traces and with every failure; it implements *)
(* WorkerPool.                                                              *)
(***************************************************************************)
EXTENDS RenderPoolRefinement, FiniteSetTheorems, TLAPS

\* The workers are a finite set, so that they can be counted.
LEMMA WorkersFinite == IsFiniteSet(Workers) /\ Cardinality(Workers) = NThreads
<1>1. NThreads \in Nat /\ 0 \in Int /\ NThreads - 1 \in Int
  BY SizesAssumption
<1>2. IsFiniteSet(0 .. NThreads - 1)
      /\ Cardinality(0 .. NThreads - 1) = IF 0 > NThreads - 1 THEN 0 ELSE NThreads - 1 - 0 + 1
  BY <1>1, FS_Interval
<1>3. QED
  BY <1>1, <1>2, SizesAssumption DEF Workers

\* So are the two sets that are counted.
LEMMA CountedSetsFinite ==
    /\ IsFiniteSet(Posting) /\ Cardinality(Posting) \in Nat
    /\ IsFiniteSet(NotBusy) /\ Cardinality(NotBusy) \in Nat
<1>1. Posting \subseteq Workers /\ NotBusy \subseteq Workers
  BY DEF Posting, NotBusy
<1>2. QED
  BY <1>1, WorkersFinite, FS_Subset, FS_CardinalityType

\* There is a worker.
LEMMA FirstWorker == 0 \in Workers /\ NThreads \in Nat \ {0} /\ NTraces \in Nat
BY SizesAssumption DEF Workers

\* The initial values have their types.
LEMMA TypeInit == Init => TypeOK
BY FirstWorker DEF Init, TypeOK, Busy, Idle, Error, Indices

\* An update keeps a function's type, wherever the argument is.
LEMMA UpdateWithin ==
    ASSUME NEW D, NEW R, NEW f \in [D -> R], NEW d, NEW v, d \in D => v \in R
    PROVE  [f EXCEPT ![d] = v] \in [D -> R]
OBVIOUS

\* Counting a call keeps the type of calls.
LEMMA CallType ==
    ASSUME calls \in [Indices -> Nat], NEW w, Call(w) PROVE calls' \in [Indices -> Nat]
<1>1. index[w] \in Indices => calls[index[w]] + 1 \in Nat
  OBVIOUS
<1>2. QED
  BY <1>1, UpdateWithin DEF Call

\* Every step keeps the types; one step per action.
THEOREM TypeStep == TypeOK /\ [Next]_vars => TypeOK'
<1>. SUFFICES ASSUME TypeOK, [Next]_vars PROVE TypeOK'
  OBVIOUS
<1>. USE FirstWorker DEF TypeOK, controllerVars, argVars, Workers, Indices,
                         Idle, Busy, Error
<1>1. CASE Setup
  BY <1>1 DEF Setup, InitialTokens
<1>2. CASE SetupFails
  BY <1>2 DEF SetupFails
<1>3. CASE Create
  BY <1>3 DEF Create, AfterCreate
<1>4. CASE CreateFails
  BY <1>4 DEF CreateFails, AfterCreate
<1>5. CASE WaitDone
  BY <1>5 DEF WaitDone, MoreToDo
<1>6. CASE Dispatch
  BY <1>6 DEF Dispatch
<1>7. CASE ScanBusy
  BY <1>7 DEF ScanBusy
<1>8. CASE ScanError
  BY <1>8 DEF ScanError
<1>9. CASE Drain
  BY <1>9 DEF Drain, DrainGoal
<1>10. CASE Drained
  BY <1>10 DEF Drained
<1>11. CASE Kill
  BY <1>11 DEF Kill
<1>12. CASE Join
  BY <1>12 DEF Join
<1>13. ASSUME NEW w \in Workers, Wake(w) PROVE TypeOK'
  BY <1>13 DEF Wake, WGoto
<1>14. ASSUME NEW w \in Workers, Exit(w) PROVE TypeOK'
  BY <1>14 DEF Exit, WGoto
<1>15. ASSUME NEW w \in Workers, Proceed(w) PROVE TypeOK'
  BY <1>15 DEF Proceed, WGoto
<1>16. ASSUME NEW w \in Workers, GetTrace(w) PROVE TypeOK'
  BY <1>16, CallType DEF GetTrace, WGoto
<1>17. ASSUME NEW w \in Workers, GetFails(w) PROVE TypeOK'
  BY <1>17, CallType DEF GetFails, WGoto, Die
<1>18. ASSUME NEW w \in Workers, GetNothing(w) PROVE TypeOK'
  BY <1>18 DEF GetNothing, WGoto, Die
<1>19. ASSUME NEW w \in Workers, Finish(w) PROVE TypeOK'
  BY <1>19 DEF Finish, WGoto
<1>20. ASSUME NEW w \in Workers, Post(w) PROVE TypeOK'
  BY <1>20 DEF Post, WGoto
<1>21. CASE Return
  BY <1>21 DEF Return
<1>22. CASE UNCHANGED vars
  BY <1>22 DEF vars
<1>23. QED
  BY <1>1, <1>2, <1>3, <1>4, <1>5, <1>6, <1>7, <1>8, <1>9, <1>10, <1>11, <1>12,
     <1>13, <1>14, <1>15, <1>16, <1>17, <1>18, <1>19, <1>20, <1>21, <1>22
     DEF Next, Controller, Worker, Terminated

\* Every variable of the pool has its type in every reachable state.
THEOREM TypeCorrect == Spec => []TypeOK
BY TypeInit, TypeStep, PTL DEF Spec

\* The phases before the first hand-out stay quiet: no worker is woken in them.
LEMMA QuietStep == TypeOK /\ Quiet /\ [Next]_vars => Quiet'
<1>. SUFFICES ASSUME TypeOK, Quiet, [Next]_vars PROVE Quiet'
  OBVIOUS
<1>. USE FirstWorker DEF TypeOK, Quiet, controllerVars, argVars, Workers, Idle, Busy, Error
<1>1. CASE Setup
  BY <1>1 DEF Setup, InitialTokens
<1>2. CASE SetupFails
  BY <1>2 DEF SetupFails
<1>3. CASE Create
  BY <1>3 DEF Create, AfterCreate
<1>4. CASE CreateFails
  BY <1>4 DEF CreateFails, AfterCreate
<1>5. CASE WaitDone
  BY <1>5 DEF WaitDone, MoreToDo
<1>6. CASE Dispatch
  BY <1>6 DEF Dispatch
<1>7. CASE ScanBusy
  BY <1>7 DEF ScanBusy
<1>8. CASE ScanError
  BY <1>8 DEF ScanError
<1>9. CASE Drain
  BY <1>9 DEF Drain, DrainGoal
<1>10. CASE Drained
  BY <1>10 DEF Drained
<1>11. CASE Kill
  BY <1>11 DEF Kill
<1>12. CASE Join
  BY <1>12 DEF Join
<1>13. ASSUME NEW w \in Workers, Wake(w) PROVE Quiet'
  BY <1>13 DEF Wake, WGoto
<1>14. ASSUME NEW w \in Workers, Exit(w) PROVE Quiet'
  BY <1>14 DEF Exit, WGoto
<1>15. ASSUME NEW w \in Workers, Proceed(w) PROVE Quiet'
  BY <1>15 DEF Proceed, WGoto
<1>16. ASSUME NEW w \in Workers, GetTrace(w) PROVE Quiet'
  BY <1>16 DEF GetTrace, WGoto, Call
<1>17. ASSUME NEW w \in Workers, GetFails(w) PROVE Quiet'
  BY <1>17 DEF GetFails, WGoto, Call, Die
<1>18. ASSUME NEW w \in Workers, GetNothing(w) PROVE Quiet'
  BY <1>18 DEF GetNothing, WGoto, Die
<1>19. ASSUME NEW w \in Workers, Finish(w) PROVE Quiet'
  BY <1>19 DEF Finish, WGoto
<1>20. ASSUME NEW w \in Workers, Post(w) PROVE Quiet'
  BY <1>20 DEF Post, WGoto
<1>21. CASE Return
  BY <1>21 DEF Return
<1>22. CASE UNCHANGED vars
  BY <1>22 DEF vars
<1>23. QED
  BY <1>1, <1>2, <1>3, <1>4, <1>5, <1>6, <1>7, <1>8, <1>9, <1>10,
     <1>11, <1>12, <1>13, <1>14, <1>15, <1>16, <1>17, <1>18, <1>19,
     <1>20, <1>21, <1>22
     DEF Next, Controller, Worker, Terminated

\* Workers are stopped one after the other, and who has ended stays so.
LEMMA StoppedStep == TypeOK /\ Quiet /\ Stopped /\ [Next]_vars => Stopped'
<1>. SUFFICES ASSUME TypeOK, Quiet, Stopped, [Next]_vars PROVE Stopped'
  OBVIOUS
<1>. USE FirstWorker DEF TypeOK, Quiet, Stopped, Ended, controllerVars, argVars, Workers, Idle, Busy, Error
<1>1. CASE Setup
  BY <1>1 DEF Setup, InitialTokens
<1>2. CASE SetupFails
  BY <1>2 DEF SetupFails
<1>3. CASE Create
  BY <1>3 DEF Create, AfterCreate
<1>4. CASE CreateFails
  BY <1>4 DEF CreateFails, AfterCreate
<1>5. CASE WaitDone
  BY <1>5 DEF WaitDone, MoreToDo
<1>6. CASE Dispatch
  BY <1>6 DEF Dispatch
<1>7. CASE ScanBusy
  BY <1>7 DEF ScanBusy
<1>8. CASE ScanError
  BY <1>8 DEF ScanError
<1>9. CASE Drain
  BY <1>9 DEF Drain, DrainGoal
<1>10. CASE Drained
  BY <1>10 DEF Drained
<1>11. CASE Kill
  BY <1>11 DEF Kill
<1>12. CASE Join
  BY <1>12 DEF Join
<1>13. ASSUME NEW w \in Workers, Wake(w) PROVE Stopped'
  BY <1>13 DEF Wake, WGoto
<1>14. ASSUME NEW w \in Workers, Exit(w) PROVE Stopped'
  BY <1>14 DEF Exit, WGoto
<1>15. ASSUME NEW w \in Workers, Proceed(w) PROVE Stopped'
  BY <1>15 DEF Proceed, WGoto
<1>16. ASSUME NEW w \in Workers, GetTrace(w) PROVE Stopped'
  BY <1>16 DEF GetTrace, WGoto, Call
<1>17. ASSUME NEW w \in Workers, GetFails(w) PROVE Stopped'
  BY <1>17 DEF GetFails, WGoto, Call, Die
<1>18. ASSUME NEW w \in Workers, GetNothing(w) PROVE Stopped'
  BY <1>18 DEF GetNothing, WGoto, Die
<1>19. ASSUME NEW w \in Workers, Finish(w) PROVE Stopped'
  BY <1>19 DEF Finish, WGoto
<1>20. ASSUME NEW w \in Workers, Post(w) PROVE Stopped'
  BY <1>20 DEF Post, WGoto
<1>21. CASE Return
  BY <1>21 DEF Return
<1>22. CASE UNCHANGED vars
  BY <1>22 DEF vars
<1>23. QED
  BY <1>1, <1>2, <1>3, <1>4, <1>5, <1>6, <1>7, <1>8, <1>9, <1>10,
     <1>11, <1>12, <1>13, <1>14, <1>15, <1>16, <1>17, <1>18, <1>19,
     <1>20, <1>21, <1>22
     DEF Next, Controller, Worker, Terminated

\* A worker is woken once for the index it was given.
LEMMA HandedStep == TypeOK /\ Quiet /\ Handed /\ [Next]_vars => Handed'
<1>. SUFFICES ASSUME TypeOK, Quiet, Handed, [Next]_vars PROVE Handed'
  OBVIOUS
<1>. USE FirstWorker DEF TypeOK, Quiet, Handed, Running, controllerVars, argVars, Workers, Idle, Busy, Error
<1>1. CASE Setup
  BY <1>1 DEF Setup, InitialTokens
<1>2. CASE SetupFails
  BY <1>2 DEF SetupFails
<1>3. CASE Create
  BY <1>3 DEF Create, AfterCreate
<1>4. CASE CreateFails
  BY <1>4 DEF CreateFails, AfterCreate
<1>5. CASE WaitDone
  BY <1>5 DEF WaitDone, MoreToDo
<1>6. CASE Dispatch
  BY <1>6 DEF Dispatch
<1>7. CASE ScanBusy
  BY <1>7 DEF ScanBusy
<1>8. CASE ScanError
  BY <1>8 DEF ScanError
<1>9. CASE Drain
  BY <1>9 DEF Drain, DrainGoal
<1>10. CASE Drained
  BY <1>10 DEF Drained
<1>11. CASE Kill
  BY <1>11 DEF Kill
<1>12. CASE Join
  BY <1>12 DEF Join
<1>13. ASSUME NEW w \in Workers, Wake(w) PROVE Handed'
  BY <1>13 DEF Wake, WGoto
<1>14. ASSUME NEW w \in Workers, Exit(w) PROVE Handed'
  BY <1>14 DEF Exit, WGoto
<1>15. ASSUME NEW w \in Workers, Proceed(w) PROVE Handed'
  BY <1>15 DEF Proceed, WGoto
<1>16. ASSUME NEW w \in Workers, GetTrace(w) PROVE Handed'
  BY <1>16 DEF GetTrace, WGoto, Call
<1>17. ASSUME NEW w \in Workers, GetFails(w) PROVE Handed'
  BY <1>17 DEF GetFails, WGoto, Call, Die
<1>18. ASSUME NEW w \in Workers, GetNothing(w) PROVE Handed'
  BY <1>18 DEF GetNothing, WGoto, Die
<1>19. ASSUME NEW w \in Workers, Finish(w) PROVE Handed'
  BY <1>19 DEF Finish, WGoto
<1>20. ASSUME NEW w \in Workers, Post(w) PROVE Handed'
  BY <1>20 DEF Post, WGoto
<1>21. CASE Return
  BY <1>21 DEF Return
<1>22. CASE UNCHANGED vars
  BY <1>22 DEF vars
<1>23. QED
  BY <1>1, <1>2, <1>3, <1>4, <1>5, <1>6, <1>7, <1>8, <1>9, <1>10,
     <1>11, <1>12, <1>13, <1>14, <1>15, <1>16, <1>17, <1>18, <1>19,
     <1>20, <1>21, <1>22
     DEF Next, Controller, Worker, Terminated

\* Counting one more.
LEMMA CountMore ==
    ASSUME NEW S, IsFiniteSet(S), NEW x, x \notin S
    PROVE  Cardinality(S \union {x}) = Cardinality(S) + 1
BY FS_AddElement

\* One less.
LEMMA CountLess ==
    ASSUME NEW S, IsFiniteSet(S), NEW x, x \in S
    PROVE  Cardinality(S \ {x}) = Cardinality(S) - 1
BY FS_RemoveElement

\* A scan goes on to a worker that is not busy: the workers only become so.
LEMMA ScanStep ==
    TypeOK /\ Handed /\ TokenAccounting /\ ScanFindsWorker /\ [Next]_vars => ScanFindsWorker'
<1>. SUFFICES ASSUME TypeOK, Handed, TokenAccounting, ScanFindsWorker, [Next]_vars,
                     ctl' = "scan"
              PROVE  \E w \in i' .. NThreads - 1 : w \in NotBusy'
  BY DEF ScanFindsWorker
<1>. USE FirstWorker DEF TypeOK, Workers, Idle, Busy, Error,
                         controllerVars, argVars
<1>1. CASE WaitDone
  <2>1. Cardinality(NotBusy) # 0
    BY <1>1, CountedSetsFinite DEF WaitDone, TokenAccounting, Running, InHand
  <2>2. PICK w \in Workers : w \in NotBusy
    BY <2>1, FS_EmptySet, CountedSetsFinite DEF NotBusy
  <2>3. QED
    BY <1>1, <2>2 DEF WaitDone, NotBusy
<1>2. CASE ScanBusy
  BY <1>2 DEF ScanBusy, ScanFindsWorker, NotBusy
<1>3. ASSUME ctl = "scan", i' = i, NotBusy \subseteq NotBusy'
      PROVE  \E w \in i' .. NThreads - 1 : w \in NotBusy'
  BY <1>3 DEF ScanFindsWorker
<1>4. ASSUME NEW w \in Workers, Worker(w), ctl = "scan"
      PROVE  NotBusy \subseteq NotBusy'
  <2>1. ts[w]
    BY <1>4 DEF Handed, Running
  <2>2. CASE Wake(w) \/ Proceed(w) \/ GetTrace(w) \/ Post(w)
    BY <2>2 DEF Wake, Proceed, GetTrace, Post, NotBusy
  <2>3. CASE GetFails(w) \/ Finish(w)
    BY <2>3 DEF GetFails, Die, Finish, NotBusy
  <2>4. QED
    BY <1>4, <2>1, <2>2, <2>3 DEF Worker, Exit, GetNothing
<1>5. ASSUME NEW w \in Workers, Worker(w) PROVE ctl' = ctl /\ i' = i
  BY <1>5 DEF Worker, Wake, Exit, Proceed, GetTrace, GetFails, GetNothing, Finish, Post
<1>6. CASE UNCHANGED vars \/ Return
  BY <1>6, <1>3 DEF vars, Return, NotBusy
<1>7. CASE Controller
  BY <1>7, <1>1, <1>2
     DEF Controller, Setup, SetupFails, Create, CreateFails, AfterCreate,
         Dispatch, ScanError, Drain, Drained, Kill, Join
<1>8. QED
  BY <1>3, <1>4, <1>5, <1>6, <1>7 DEF Next, Terminated

\* No step creates or loses a token.
LEMMA TokenStep ==
    TypeOK /\ Quiet /\ Handed /\ TokenAccounting /\ ScanFindsWorker /\ [Next]_vars
        => TokenAccounting'
<1>. SUFFICES ASSUME TypeOK, Quiet, Handed, TokenAccounting, ScanFindsWorker, [Next]_vars,
                     Running'
              PROVE  done' + InHand' + Cardinality(Posting') = Cardinality(NotBusy')
  BY DEF TokenAccounting
<1>. USE FirstWorker, CountedSetsFinite DEF TypeOK, controllerVars, argVars
<1>1. CASE Create \/ CreateFails
  <2>1. /\ ctl = "create" /\ ctl' = "wait"
        /\ done' = done /\ code' = code /\ wpc' \in {wpc, [wpc EXCEPT ![i] = "wait"]}
    BY <1>1 DEF Create, CreateFails, AfterCreate, Running
  <2>2. Posting' = {}
    BY <2>1 DEF Quiet, Posting
  <2>3. NotBusy' = Workers
    BY <2>1 DEF Quiet, NotBusy, Idle, Busy
  <2>4. QED
    BY <2>1, <2>2, <2>3, WorkersFinite, FS_EmptySet DEF Quiet, InitialTokens, InHand
<1>2. ASSUME Running, done' + InHand' = done + InHand, wpc' = wpc, code' = code
      PROVE  done' + InHand' + Cardinality(Posting') = Cardinality(NotBusy')
  <2>1. Posting' = Posting /\ NotBusy' = NotBusy
    BY <1>2 DEF Posting, NotBusy
  <2>2. QED
    BY <1>2, <2>1 DEF TokenAccounting, InHand
<1>3. CASE WaitDone
  BY <1>3, <1>2 DEF WaitDone, Running, InHand
<1>4. CASE Dispatch
  <2>1. i \in NotBusy /\ NotBusy' = NotBusy \ {i} /\ Posting' = Posting
    BY <1>4 DEF Dispatch, NotBusy, Posting, Idle, Busy
  <2>2. Cardinality(NotBusy') = Cardinality(NotBusy) - 1
    BY <2>1, CountLess
  <2>3. QED
    BY <1>4, <2>1, <2>2 DEF Dispatch, TokenAccounting, Running, InHand
<1>5. CASE ScanBusy
  <2>1. i + 1 # NThreads
    BY <1>5 DEF ScanBusy, ScanFindsWorker, NotBusy, Workers
  <2>2. QED
    BY <1>5, <2>1, <1>2 DEF ScanBusy, Running, InHand
<1>6. ASSUME NEW w \in Workers, Worker(w)
      PROVE  done' + InHand' + Cardinality(Posting') = Cardinality(NotBusy')
  <2>1. Running /\ ts[w] /\ InHand' = InHand
    BY <1>6 DEF Worker, Wake, Exit, Proceed, GetTrace, GetFails, GetNothing, Finish, Post,
                Running, Handed, InHand
  <2>2. CASE Wake(w) \/ Proceed(w) \/ GetTrace(w)
    <3>1. Posting' = Posting /\ NotBusy' = NotBusy
      BY <2>2 DEF Wake, Proceed, GetTrace, WGoto, Posting, NotBusy
    <3>2. QED
      BY <2>1, <2>2, <3>1 DEF Wake, Proceed, GetTrace, TokenAccounting
  <2>3. CASE GetFails(w) \/ Finish(w)
    <3>1. code[w] = Busy /\ w \notin NotBusy /\ w \notin Posting
      BY <2>1, <2>3 DEF GetFails, Finish, Handed, NotBusy, Posting
    <3>2. Posting' = Posting \union {w} /\ NotBusy' = NotBusy \union {w}
      BY <2>3 DEF GetFails, Finish, Die, WGoto, Posting, NotBusy, Idle, Busy, Error
    <3>3. QED
      BY <2>1, <2>3, <3>1, <3>2, CountMore
         DEF GetFails, Finish, TokenAccounting, InHand
  <2>4. CASE Post(w)
    <3>1. w \in Posting /\ Posting' = Posting \ {w} /\ NotBusy' = NotBusy
      BY <2>4 DEF Post, WGoto, Posting, NotBusy
    <3>2. Cardinality(Posting') = Cardinality(Posting) - 1
      BY <3>1, CountLess
    <3>3. QED
      BY <2>1, <2>4, <3>1, <3>2 DEF Post, TokenAccounting, InHand
  <2>5. QED
    BY <1>6, <2>1, <2>2, <2>3, <2>4 DEF Worker, Exit, GetNothing
<1>7. CASE Drain
  BY <1>7, <1>2 DEF Drain, DrainGoal, Running, InHand
<1>8. CASE UNCHANGED vars \/ Return
  BY <1>8, <1>2 DEF vars, Return, Running, InHand
<1>9. CASE Controller
  BY <1>9, <1>1, <1>3, <1>4, <1>5, <1>7
     DEF Controller, Setup, SetupFails, ScanError, Drained, Kill, Join, Running
<1>10. QED
  BY <1>6, <1>8, <1>9 DEF Next, Terminated

\* Who has collected a token per worker finds none that is busy.
LEMMA AllTokens == ASSUME TypeOK, TokenAccounting, Drained PROVE NotBusy = Workers
<1>1. ctl = "drain" /\ i = NThreads
  BY DEF Drained, DrainGoal
<1>2. Cardinality(NotBusy) >= Cardinality(Workers)
  BY <1>1, CountedSetsFinite, WorkersFinite, FirstWorker
     DEF TokenAccounting, Running, InHand, TypeOK
<1>3. NotBusy \subseteq Workers
  BY DEF NotBusy
<1>4. QED
  BY <1>2, <1>3, WorkersFinite, FS_Subset, CountedSetsFinite, FirstWorker

\* All workers idle, so that no index is left with one of them.
LEMMA DrainedComplete ==
    TypeOK /\ Handed /\ TokenAccounting /\ IndicesExact /\ Drained
        => \A k \in Indices : calls[k] = 1
<1>. SUFFICES ASSUME TypeOK, Handed, TokenAccounting, IndicesExact, Drained,
                     NEW k \in Indices
              PROVE  calls[k] = 1
  OBVIOUS
<1>1. ctl = "drain" /\ i = NThreads /\ next = NTraces
  BY DEF Drained, DrainGoal, IndicesExact
<1>2. \A w \in Workers : ~HasIndex(w)
  BY <1>1, AllTokens DEF HasIndex, Handed, NotBusy, TypeOK
<1>3. calls[k] # 0
  BY <1>1, <1>2, FirstWorker DEF IndicesExact, Running, Indices
<1>4. QED
  BY <1>3 DEF IndicesExact, TypeOK

\* A worker that calls trace_get has its index no more.
LEMMA CallStep ==
    ASSUME TypeOK, IndicesExact, NEW w \in Workers, HasIndex(w), Call(w),
           ctl' = ctl, next' = next, ret' = ret, index' = index,
           \A v \in Workers : HasIndex(v)' <=> HasIndex(v) /\ v # w
    PROVE  IndicesExact'
<1>. DEFINE k == index[w]
<1>1. k \in Indices /\ k < next /\ calls[k] = 0
  BY DEF IndicesExact
<1>2. calls' = [calls EXCEPT ![k] = 1]
  BY <1>1 DEF Call, TypeOK
<1>3. \A v \in Workers : HasIndex(v)' => index[v] # k
  BY DEF IndicesExact
<1>. HIDE DEF k
<1>4. \A j \in Indices : calls'[j] <= 1 /\ (j >= next' => calls'[j] = 0)
  BY <1>1, <1>2, FirstWorker DEF IndicesExact, TypeOK, Indices
<1>5. \A v \in Workers : HasIndex(v)' =>
         index'[v] \in Indices /\ index'[v] < next' /\ calls'[index'[v]] = 0
  BY <1>2, <1>3 DEF IndicesExact, TypeOK
<1>6. \A u, v \in Workers : HasIndex(u)' /\ HasIndex(v)' /\ index'[u] = index'[v] => u = v
  BY DEF IndicesExact
<1>7. Running' => \A j \in Indices : j < next' /\ calls'[j] = 0 =>
         \E v \in Workers : HasIndex(v)' /\ index'[v] = j
  BY <1>1, <1>2 DEF IndicesExact, TypeOK, Running, k
<1>8. ~(ctl \in {"kill", "join", "finished"} /\ ret = 0)
  BY <1>1 DEF IndicesExact
<1>9. QED
  BY <1>4, <1>5, <1>6, <1>7, <1>8 DEF IndicesExact

\* The controller gives the next index to a worker that has none.
LEMMA DispatchStep == ASSUME TypeOK, Handed, IndicesExact, Dispatch PROVE IndicesExact'
<1>1. i \in Workers /\ next \in Indices /\ next' = next + 1 /\ ctl = "scan" /\ ctl' = "wait"
  BY FirstWorker DEF Dispatch, TypeOK, Indices
<1>2. ts[i] /\ ~HasIndex(i)
  BY <1>1 DEF Dispatch, Handed, HasIndex, Running, TypeOK, Idle, Busy
<1>3. \A v \in Workers : HasIndex(v)' <=> HasIndex(v) \/ v = i
  BY <1>1, <1>2 DEF Dispatch, HasIndex, TypeOK
<1>4. index' = [index EXCEPT ![i] = next] /\ calls' = calls /\ calls[next] = 0
  BY <1>1 DEF Dispatch, IndicesExact, TypeOK, Indices
<1>5. \A k \in Indices : k < next' <=> k < next \/ k = next
  BY <1>1 DEF Indices
<1>6. \A k \in Indices : calls'[k] <= 1 /\ (k >= next' => calls'[k] = 0)
  BY <1>1, <1>4 DEF IndicesExact, Indices
<1>7. \A v \in Workers : HasIndex(v)' =>
         index'[v] \in Indices /\ index'[v] < next' /\ calls'[index'[v]] = 0
  BY <1>1, <1>3, <1>4, <1>5 DEF IndicesExact, TypeOK
<1>8. \A u, v \in Workers : HasIndex(u)' /\ HasIndex(v)' /\ index'[u] = index'[v] => u = v
  <2>1. \A v \in Workers : HasIndex(v) => index[v] # next
    BY <1>1 DEF IndicesExact, Indices
  <2>2. QED
    BY <1>3, <1>4, <2>1 DEF IndicesExact, TypeOK
<1>9. \A k \in Indices : k < next' /\ calls'[k] = 0 =>
         \E v \in Workers : HasIndex(v)' /\ index'[v] = k
  <2>1. ASSUME NEW k \in Indices, k < next, calls[k] = 0
        PROVE  \E v \in Workers : HasIndex(v)' /\ index'[v] = k
    <3>1. PICK v \in Workers : HasIndex(v) /\ index[v] = k
      BY <1>1, <2>1 DEF IndicesExact, Running
    <3>2. QED
      BY <1>2, <1>3, <1>4, <3>1 DEF TypeOK
  <2>2. \E v \in Workers : HasIndex(v)' /\ index'[v] = next
    <3>1. PICK v \in Workers : v = i
      BY <1>1
    <3>2. HasIndex(v)' /\ index'[v] = next
      BY <1>3, <1>4, <3>1 DEF TypeOK
    <3>3. QED
      BY <3>2
  <2>3. QED
    BY <1>1, <1>4, <1>5, <2>1, <2>2
<1>10. QED
  BY <1>1, <1>6, <1>7, <1>8, <1>9 DEF IndicesExact

\* An index goes to one worker, and to trace_get once.
LEMMA IndicesStep ==
    TypeOK /\ Quiet /\ Handed /\ TokenAccounting /\ IndicesExact /\ [Next]_vars => IndicesExact'
<1>. SUFFICES ASSUME TypeOK, Quiet, Handed, TokenAccounting, IndicesExact, [Next]_vars
              PROVE  IndicesExact'
  OBVIOUS
<1>. USE FirstWorker DEF TypeOK, IndicesExact, Running, HasIndex,
                         controllerVars, argVars, Indices, Idle, Busy, Error
<1>1. CASE Setup
  BY <1>1 DEF Setup, Quiet
<1>2. CASE SetupFails
  BY <1>2 DEF SetupFails
<1>3. CASE Create \/ CreateFails
  <2>1. ASSUME NEW w \in Workers PROVE ~HasIndex(w) /\ ~HasIndex(w)'
    BY <1>3 DEF Create, CreateFails, Quiet
  <2>2. next = 0
    BY <1>3 DEF Create, CreateFails, Quiet
  <2>3. QED
    BY <1>3, <2>1, <2>2 DEF Create, CreateFails, AfterCreate
<1>4. CASE WaitDone
  BY <1>4 DEF WaitDone, MoreToDo
<1>5. CASE Dispatch
  BY <1>5, DispatchStep
<1>6. CASE ScanBusy
  BY <1>6 DEF ScanBusy
<1>7. CASE ScanError
  BY <1>7 DEF ScanError
<1>8. CASE Drain
  BY <1>8 DEF Drain, MoreToDo
<1>9. CASE Drained
  BY <1>9, DrainedComplete DEF Drained
<1>10. CASE Kill
  BY <1>10 DEF Kill
<1>11. CASE Join
  BY <1>11 DEF Join
<1>12. ASSUME NEW w \in Workers, Wake(w) PROVE IndicesExact'
  BY <1>12 DEF Wake, WGoto
<1>13. ASSUME NEW w \in Workers, Exit(w) PROVE IndicesExact'
  <2>1. \A v \in Workers : HasIndex(v)' <=> HasIndex(v)
    BY <1>13 DEF Exit, WGoto
  <2>. HIDE DEF HasIndex
  <2>2. QED
    BY <1>13, <2>1 DEF Exit
<1>14. ASSUME NEW w \in Workers, Proceed(w) PROVE IndicesExact'
  <2>1. \A v \in Workers : HasIndex(v)' <=> HasIndex(v)
    BY <1>14 DEF Proceed, WGoto
  <2>. HIDE DEF HasIndex
  <2>2. QED
    BY <1>14, <2>1 DEF Proceed
<1>15. ASSUME NEW w \in Workers, GetTrace(w) PROVE IndicesExact'
  <2>1. HasIndex(w) /\ \A v \in Workers : HasIndex(v)' <=> HasIndex(v) /\ v # w
    BY <1>15 DEF GetTrace, WGoto, Handed
  <2>2. QED
    BY <1>15, <2>1, CallStep DEF GetTrace
<1>16. ASSUME NEW w \in Workers, GetFails(w) PROVE IndicesExact'
  <2>1. HasIndex(w) /\ \A v \in Workers : HasIndex(v)' <=> HasIndex(v) /\ v # w
    BY <1>16 DEF GetFails, WGoto, Die, Handed
  <2>2. QED
    BY <1>16, <2>1, CallStep DEF GetFails, Die, WGoto
<1>17. ASSUME NEW w \in Workers, GetNothing(w) PROVE IndicesExact'
  <2>1. \A v \in Workers : HasIndex(v)' <=> HasIndex(v)
    BY <1>17 DEF GetNothing, WGoto, Die
  <2>. HIDE DEF HasIndex
  <2>2. QED
    BY <1>17, <2>1 DEF GetNothing
<1>18. ASSUME NEW w \in Workers, Finish(w) PROVE IndicesExact'
  <2>1. \A v \in Workers : HasIndex(v)' <=> HasIndex(v)
    BY <1>18 DEF Finish, WGoto
  <2>. HIDE DEF HasIndex
  <2>2. QED
    BY <1>18, <2>1 DEF Finish
<1>19. ASSUME NEW w \in Workers, Post(w) PROVE IndicesExact'
  <2>1. \A v \in Workers : HasIndex(v)' <=> HasIndex(v)
    BY <1>19 DEF Post, WGoto
  <2>. HIDE DEF HasIndex
  <2>2. QED
    BY <1>19, <2>1 DEF Post
<1>20. CASE Return
  BY <1>20 DEF Return
<1>21. CASE UNCHANGED vars
  BY <1>21 DEF vars
<1>22. QED
  BY <1>1, <1>2, <1>3, <1>4, <1>5, <1>6, <1>7, <1>8, <1>9, <1>10, <1>11,
     <1>12, <1>13, <1>14, <1>15, <1>16, <1>17, <1>18, <1>19, <1>20, <1>21
     DEF Next, Controller, Worker, Terminated

\* Nothing is out of place before the first step.
LEMMA IndInit == Init => IndInv
BY TypeInit, FirstWorker
   DEF Init, IndInv, Quiet, Handed, Stopped, IndicesExact, HasIndex,
       TokenAccounting, ScanFindsWorker, Running

\* The inductive invariant holds in every reachable state, with every failure:
\* tokens are accounted for, and scans and shutdown reach the workers they are for.
THEOREM Inductive == Spec => []IndInv
<1>1. IndInv /\ [Next]_vars => IndInv'
  BY TypeStep, QuietStep, StoppedStep, HandedStep, IndicesStep, TokenStep, ScanStep
     DEF IndInv
<1>2. QED
  BY IndInit, <1>1, PTL DEF Spec

\* A token of done_signal is never lost and never stands for a busy worker: while
\* indices are handed out they are, with those in hand or about to be posted,
\* exactly the workers that are not busy.
THEOREM TokensExact == Spec => []TokenAccounting
<1>1. IndInv => TokenAccounting
  BY DEF IndInv
<1>2. QED
  BY <1>1, Inductive, PTL

\* The scan that a token pays for finds the worker it stands for.
THEOREM ScanSucceeds == Spec => []ScanFindsWorker
<1>1. IndInv => ScanFindsWorker
  BY DEF IndInv
<1>2. QED
  BY <1>1, Inductive, PTL

\* When the controller destroys the semaphores and frees the arguments no worker
\* is left that could use them.
THEOREM NoWorkerOutlives == Spec => []WorkersGone
<1>1. IndInv => WorkersGone
  BY DEF IndInv, Stopped, WorkersGone, Ended
<1>2. QED
  BY <1>1, Inductive, PTL

\* No index is rendered twice, and a render that returns 0 has called trace_get
\* for every index, whatever failed on the way.
THEOREM RendersExactly == Spec => []RendersEachOnce
<1>1. IndInv => RendersEachOnce
  BY DEF IndInv, IndicesExact, RendersEachOnce
<1>2. QED
  BY <1>1, Inductive, PTL

-----------------------------------------------------------------------------
(* The pool implements WorkerPool *)

\* What the mapping needs to know holds at the start, when no worker is there.
LEMMA StandingInit == Init => Marked /\ Settled
BY DEF Init, Marked, Settled, Busy, Error

\* A worker's code is written by itself, or when it is idle.
LEMMA MarkedStep == TypeOK /\ Quiet /\ Handed /\ Marked /\ [Next]_vars => Marked'
<1>. SUFFICES ASSUME TypeOK, Quiet, Handed, Marked, [Next]_vars PROVE Marked'
  OBVIOUS
<1>. USE FirstWorker DEF TypeOK, Marked, controllerVars, argVars, Idle, Busy, Error
<1>1. CASE Setup
  BY <1>1 DEF Setup, Quiet
<1>2. CASE Create
  <2>1. code' = code /\ wpc' = [wpc EXCEPT ![i] = "wait"] /\ code[i] = Idle
    BY <1>2 DEF Create, Quiet
  <2>2. QED
    BY <2>1
<1>3. CASE Dispatch
  BY <1>3 DEF Dispatch
<1>4. ASSUME wpc' = wpc, code' = code PROVE Marked'
  BY <1>4
<1>5. CASE SetupFails \/ CreateFails \/ WaitDone \/ ScanBusy \/ ScanError \/ Drain \/ Drained
           \/ Kill \/ Join
  BY <1>4, <1>5 DEF SetupFails, CreateFails, WaitDone, ScanBusy, ScanError, Drain, Drained,
                    Kill, Join
<1>6. ASSUME NEW w \in Workers, Wake(w) \/ Exit(w) \/ Proceed(w) \/ GetTrace(w) PROVE Marked'
  BY <1>6 DEF Wake, Exit, Proceed, GetTrace, WGoto, Handed
<1>7. ASSUME NEW w \in Workers, GetFails(w) \/ GetNothing(w) \/ Finish(w) \/ Post(w)
      PROVE  Marked'
  BY <1>7 DEF GetFails, GetNothing, Die, Finish, Post, WGoto
<1>8. CASE Return \/ UNCHANGED vars
  BY <1>4, <1>8 DEF Return, vars
<1>9. QED
  BY <1>1, <1>2, <1>3, <1>5, <1>6, <1>7, <1>8 DEF Next, Controller, Worker, Terminated

\* All workers are at rest when the last token is collected.
LEMMA SettledStep ==
    TypeOK /\ Quiet /\ Handed /\ TokenAccounting /\ Settled /\ [Next]_vars => Settled'
<1>. SUFFICES ASSUME TypeOK, Quiet, Handed, TokenAccounting, Settled, [Next]_vars PROVE Settled'
  OBVIOUS
<1>. USE FirstWorker DEF TypeOK, Settled, controllerVars, argVars, Idle, Busy, Error
<1>1. CASE Drained
  <2>1. \A w \in Workers : code[w] # Busy
    BY <1>1, AllTokens DEF NotBusy
  <2>2. \A w \in Workers : ts[w]
    BY <1>1 DEF Drained, Handed, Running
  <2>3. \A w \in Workers : wpc[w] \notin {"woken", "get", "got"} /\ signal[w] = 0
    BY <2>1, <2>2 DEF Handed
  <2>4. QED
    BY <1>1, <2>3 DEF Drained
<1>2. CASE SetupFails \/ ScanError
  BY <1>2 DEF SetupFails, ScanError
<1>3. CASE Kill
  BY <1>3 DEF Kill
<1>4. CASE Join
  BY <1>4 DEF Join
<1>5. CASE Setup \/ Create \/ CreateFails \/ WaitDone \/ Dispatch \/ ScanBusy \/ Drain
  <2>1. ret' = ret /\ ctl' \in {"create", "wait", "scan", "drain"}
        /\ ctl \in {"setup", "create", "wait", "scan", "drain"}
    BY <1>5 DEF Setup, Create, CreateFails, AfterCreate, WaitDone, Dispatch, ScanBusy, Drain
  <2>2. QED
    BY <2>1
<1>6. ASSUME NEW w \in Workers, Wake(w) \/ Exit(w) \/ Proceed(w) \/ GetTrace(w) PROVE Settled'
  BY <1>6 DEF Wake, Exit, Proceed, GetTrace, WGoto
<1>7. ASSUME NEW w \in Workers, GetFails(w) \/ GetNothing(w) \/ Finish(w) \/ Post(w)
      PROVE  Settled'
  BY <1>7 DEF GetFails, GetNothing, Die, Finish, Post, WGoto
<1>8. CASE Return \/ UNCHANGED vars
  BY <1>8 DEF Return, vars
<1>9. QED
  BY <1>1, <1>2, <1>3, <1>4, <1>5, <1>6, <1>7, <1>8 DEF Next, Controller, Worker, Terminated

\* What the steps of the mapped pool are proved from.
MapInv == IndInv /\ Marked /\ Settled

\* It holds in every reachable state.
LEMMA MapInvAlways == Spec => []MapInv
<1>1. Init => Marked /\ Settled
  BY StandingInit
<1>2. IndInv /\ Marked /\ Settled /\ [Next]_vars => Marked' /\ Settled'
  BY MarkedStep, SettledStep DEF IndInv
<1>3. QED
  BY <1>1, <1>2, Inductive, PTL DEF Spec, MapInv

\* Nothing that the mapping looks at has changed.
LEMMA Hidden ==
    ASSUME Present' = Present, Jobs' = Jobs, next' = next, Asked' = Asked, Broken' = Broken,
           Outcome' = Outcome
    PROVE  UNCHANGED Abstract!vars
BY DEF Abstract!vars

\* The abstract pool starts with the concrete one.
LEMMA MapInit == Init => Abstract!Init
<1>. SUFFICES ASSUME Init PROVE Abstract!Init
  OBVIOUS
<1>1. Present = {} /\ Asked = {} /\ Broken = {}
  BY DEF Init, Present, Asked, Broken, Busy, Error
<1>2. Jobs = [w \in Workers |-> NoJob]
  BY DEF Init, Jobs, HasIndex
<1>3. Outcome = "open" /\ next = 0
  BY DEF Init, Outcome
<1>4. QED
  BY <1>1, <1>2, <1>3 DEF Abstract!Init

\* Jobs, when nobody gets or loses one.
LEMMA SameJobs ==
    ASSUME \A v \in Workers : HasIndex(v)' <=> HasIndex(v),
           \A v \in Workers : HasIndex(v) => index'[v] = index[v]
    PROVE  Jobs' = Jobs
BY DEF Jobs

\* Jobs, when a worker has none any more.
LEMMA JobGone ==
    ASSUME NEW w \in Workers, index' = index,
           \A v \in Workers : HasIndex(v)' <=> HasIndex(v) /\ v # w
    PROVE  Jobs' = [Jobs EXCEPT ![w] = NoJob]
<1>1. \A v \in Workers : Jobs'[v] = [Jobs EXCEPT ![w] = NoJob][v]
  BY DEF Jobs
<1>2. QED
  BY <1>1 DEF Jobs

\* A worker has a job or none.
LEMMA JobOf ==
    ASSUME TypeOK, NEW w \in Workers
    PROVE  /\ ~HasIndex(w) => Jobs[w] = NoJob
           /\ HasIndex(w) => Jobs[w] = index[w] /\ Jobs[w] # NoJob
<1>1. index[w] # NoJob
  BY FirstWorker DEF TypeOK, Indices, NoJob
<1>2. QED
  BY <1>1 DEF Jobs

\* Setting a worker's code changes who is broken by that worker only.
LEMMA BrokenBy ==
    ASSUME TypeOK, NEW w \in Workers, NEW c, code' = [code EXCEPT ![w] = c]
    PROVE  /\ c = Error => Broken' = Broken \union {w}
           /\ c # Error /\ code[w] # Error => Broken' = Broken
BY DEF TypeOK, Broken

\* The steps of the controller.
LEMMA MapController ==
    ASSUME MapInv, Controller
    PROVE  Abstract!Next \/ UNCHANGED Abstract!vars
<1>. USE FirstWorker DEF controllerVars, argVars
<1>1. TypeOK /\ Quiet /\ Handed /\ Stopped /\ IndicesExact /\ Marked /\ Settled
  BY DEF MapInv, IndInv
<1>2. Asked' = Asked
  BY DEF Controller, Setup, SetupFails, Create, CreateFails, AfterCreate, WaitDone, Dispatch,
         ScanBusy, ScanError, Drain, Drained, Kill, Join, Asked
<1>3. CASE Setup
  <2>1. \A v \in Workers : ~HasIndex(v) /\ ~HasIndex(v)'
    BY <1>1, <1>3 DEF Setup, Quiet, HasIndex
  <2>2. Jobs' = Jobs
    BY <2>1, SameJobs
  <2>3. Broken = {} /\ Broken' = {}
    BY <1>1, <1>3 DEF Setup, Quiet, Marked, Broken, Idle, Error
  <2>4. Present' = Present /\ Outcome' = Outcome /\ next' = next
    BY <1>3 DEF Setup, Present, Outcome
  <2>5. QED
    BY <1>2, <2>2, <2>3, <2>4, Hidden
<1>4. CASE SetupFails
  <2>1. Present = {} /\ next = 0 /\ ret = 0
    BY <1>1, <1>4 DEF SetupFails, Quiet, Present, Settled, TypeOK
  <2>2. Outcome = "open" /\ Outcome' = "error"
    BY <1>4, <2>1 DEF SetupFails, Outcome, Error
  <2>3. Present' = Present /\ Jobs' = Jobs /\ next' = next /\ Broken' = Broken
    BY <1>4 DEF SetupFails, Present, Jobs, HasIndex, Broken
  <2>4. Abstract!End
    BY <1>2, <2>1, <2>2, <2>3 DEF Abstract!End
  <2>5. QED
    BY <2>4 DEF Abstract!Next
<1>5. CASE Create
  <2>1. i \in Workers /\ next = 0 /\ Outcome = "open" /\ Outcome' = "open"
    BY <1>1, <1>5 DEF Create, AfterCreate, TypeOK, Quiet, Settled, Outcome
  <2>2. wpc' = [wpc EXCEPT ![i] = "wait"] /\ wpc[i] \in {"absent", "wait"}
    BY <1>1, <1>5, <2>1 DEF Create, Quiet
  <2>3. Present' = Present \union {i}
    BY <1>1, <2>1, <2>2 DEF Present, TypeOK
  <2>4. \A v \in Workers : HasIndex(v)' <=> HasIndex(v)
    BY <1>1, <1>5, <2>2 DEF Create, HasIndex, TypeOK
  <2>5. Jobs' = Jobs /\ next' = next /\ Broken' = Broken
    BY <1>5, <2>4, SameJobs DEF Create, Broken
  <2>6. Abstract!Join(i)
    BY <1>2, <2>1, <2>3, <2>5 DEF Abstract!Join
  <2>7. QED
    BY <2>1, <2>6 DEF Abstract!Next
<1>6. CASE CreateFails \/ WaitDone \/ ScanBusy \/ Drain
  <2>1. ctl # "finished" /\ ctl' # "finished" /\ ret' = ret
    BY <1>6 DEF CreateFails, AfterCreate, WaitDone, ScanBusy, Drain
  <2>2. wpc' = wpc /\ signal' = signal /\ ts' = ts /\ index' = index /\ code' = code /\ next' = next
    BY <1>6 DEF CreateFails, WaitDone, ScanBusy, Drain
  <2>3. QED
    BY <1>2, <2>1, <2>2, Hidden DEF Present, Jobs, HasIndex, Broken, Outcome
<1>7. CASE Dispatch
  <2>1. /\ i \in Workers /\ next \in Nat /\ next < NTraces
        /\ ctl = "scan" /\ code[i] = Idle /\ ts[i]
    BY <1>1, <1>7 DEF Dispatch, TypeOK, Handed, Running
  <2>2. ~HasIndex(i) /\ i \notin Broken
    BY <1>1, <2>1 DEF HasIndex, Handed, TypeOK, Idle, Busy, Error, Broken
  <2>3. signal' = [signal EXCEPT ![i] = @ + 1] /\ index' = [index EXCEPT ![i] = next]
        /\ ts' = ts /\ wpc' = wpc
    BY <1>7 DEF Dispatch
  <2>4. \A v \in Workers : HasIndex(v)' <=> HasIndex(v) \/ v = i
    BY <1>1, <2>1, <2>3 DEF HasIndex, TypeOK
  <2>5. Jobs' = [Jobs EXCEPT ![i] = next]
    <3>1. \A v \in Workers : Jobs'[v] = [Jobs EXCEPT ![i] = next][v]
      BY <1>1, <2>3, <2>4 DEF Jobs, TypeOK
    <3>2. QED
      BY <3>1 DEF Jobs
  <2>6. Present' = Present /\ next' = next + 1
    BY <1>7, <2>3 DEF Dispatch, Present
  <2>7. Broken' = Broken
    BY <1>1, <1>7, <2>1 DEF Dispatch, Broken, TypeOK, Idle, Busy, Error
  <2>8. Outcome = "open" /\ Outcome' = "open"
    BY <1>1, <1>7, <2>1 DEF Dispatch, Settled, TypeOK, Outcome
  <2>9. Jobs[i] = NoJob
    BY <1>1, <2>1, <2>2, JobOf
  <2>10. Abstract!Give(i)
    BY <1>2, <2>1, <2>2, <2>5, <2>6, <2>7, <2>8, <2>9 DEF Abstract!Give
  <2>11. QED
    BY <2>1, <2>10 DEF Abstract!Next
<1>8. CASE ScanError
  <2>1. i \in Broken
    BY <1>1, <1>8 DEF ScanError, TypeOK, Broken
  <2>2. Outcome = "open" /\ Outcome' = "failing"
    BY <1>1, <1>8 DEF ScanError, Settled, TypeOK, Outcome, Error
  <2>3. Present' = Present /\ Jobs' = Jobs /\ next' = next /\ Broken' = Broken
    BY <1>8 DEF ScanError, Present, Jobs, HasIndex, Broken
  <2>4. Abstract!Fail
    BY <1>2, <2>1, <2>2, <2>3 DEF Abstract!Fail
  <2>5. QED
    BY <2>4 DEF Abstract!Next
<1>9. CASE Drained
  <2>1. Outcome' = Outcome
    BY <1>1, <1>9 DEF Drained, Settled, TypeOK, Outcome
  <2>2. Present' = Present /\ Jobs' = Jobs /\ next' = next /\ Broken' = Broken
    BY <1>9 DEF Drained, Present, Jobs, HasIndex, Broken
  <2>3. QED
    BY <1>2, <2>1, <2>2, Hidden
<1>10. CASE Kill
  <2>1. /\ i \in Workers /\ ctl = "kill" /\ ctl' = "join" /\ ret' = ret
        /\ ts' = [ts EXCEPT ![i] = FALSE] /\ signal' = [signal EXCEPT ![i] = @ + 1]
        /\ wpc' = wpc /\ index' = index /\ code' = code /\ next' = next
    BY <1>1, <1>10 DEF Kill, TypeOK
  <2>2. \A v \in Workers : HasIndex(v)' <=> HasIndex(v) /\ v # i
    BY <1>1, <2>1 DEF HasIndex, TypeOK
  <2>3. Jobs' = [Jobs EXCEPT ![i] = NoJob]
    BY <2>1, <2>2, JobGone
  <2>4. Present' = Present /\ Broken' = Broken /\ Outcome' = Outcome
    BY <2>1 DEF Present, Broken, Outcome
  <2>5. CASE ret = 0
    <3>1. ~HasIndex(i)
      BY <1>1, <2>1, <2>5 DEF HasIndex, Settled, TypeOK
    <3>2. Jobs' = Jobs
      BY <2>1, <2>2, <3>1, SameJobs
    <3>3. QED
      BY <1>2, <2>1, <2>4, <3>2, Hidden
  <2>6. CASE ret # 0
    <3>1. Outcome = "failing"
      BY <2>1, <2>6 DEF Outcome
    <3>2. Abstract!Dismiss(i)
      BY <1>2, <2>1, <2>3, <2>4, <3>1 DEF Abstract!Dismiss
    <3>3. QED
      BY <2>1, <3>2 DEF Abstract!Next
  <2>7. QED
    BY <2>5, <2>6
<1>11. CASE Join
  <2>1. /\ ctl = "join" /\ ret' = ret /\ next' = next /\ code' = code
        /\ Present' = Present /\ Jobs' = Jobs /\ Broken' = Broken
    BY <1>11 DEF Join, Present, Jobs, HasIndex, Broken
  <2>2. CASE i + 1 # NThreads
    BY <1>2, <1>11, <2>1, <2>2, Hidden DEF Join, Outcome
  <2>3. CASE i + 1 = NThreads
    <3>1. Present = {}
      BY <1>1, <1>11, <2>3 DEF Join, Stopped, Present, Ended, Workers, TypeOK
    <3>2. ret = 0 => Asked = Abstract!Indices
      BY <1>1, <2>1 DEF IndicesExact, Asked, Indices, Abstract!Indices, TypeOK
    <3>3. Outcome = IF ret = 0 THEN "open" ELSE "failing"
      BY <2>1 DEF Outcome
    <3>4. Outcome' = IF ret = 0 THEN "ok" ELSE "error"
      BY <1>11, <2>1, <2>3 DEF Join, Outcome
    <3>5. Abstract!End
      BY <1>2, <2>1, <3>1, <3>2, <3>3, <3>4 DEF Abstract!End
    <3>6. QED
      BY <3>5 DEF Abstract!Next
  <2>4. QED
    BY <2>2, <2>3
<1>12. QED
  BY <1>3, <1>4, <1>5, <1>6, <1>7, <1>8, <1>9, <1>10, <1>11 DEF Controller

\* A worker that asks for its index has it no more, and may be broken by that.
LEMMA MapAsk ==
    ASSUME MapInv, NEW w \in Workers, GetTrace(w) \/ GetFails(w) PROVE Abstract!Ask(w)
<1>. USE FirstWorker DEF controllerVars, argVars
<1>1. TypeOK /\ Handed /\ IndicesExact
  BY DEF MapInv, IndInv
<1>2. wpc[w] = "get" /\ ts[w] /\ Call(w) /\ index' = index /\ ts' = ts /\ signal' = signal
      /\ next' = next /\ ctl' = ctl /\ ret' = ret
  BY DEF GetTrace, GetFails
<1>3. wpc' \in {[wpc EXCEPT ![w] = "got"], [wpc EXCEPT ![w] = "dying"]}
  BY DEF GetTrace, GetFails, WGoto, Die
<1>4. HasIndex(w) /\ signal[w] = 0
  BY <1>1, <1>2 DEF HasIndex, Handed
<1>5. \A v \in Workers : HasIndex(v)' <=> HasIndex(v) /\ v # w
  BY <1>1, <1>2, <1>3, <1>4 DEF HasIndex, TypeOK
<1>6. Jobs' = [Jobs EXCEPT ![w] = NoJob]
  BY <1>2, <1>5, JobGone
<1>7. Jobs[w] = index[w] /\ Jobs[w] # NoJob /\ index[w] \in Indices
  BY <1>1, <1>4, JobOf DEF IndicesExact
<1>8. Asked' = Asked \union {Jobs[w]}
  <2>1. \A k \in Indices : calls'[k] = IF k = index[w] THEN calls[k] + 1 ELSE calls[k]
    BY <1>1, <1>2, <1>7 DEF Call, TypeOK
  <2>2. \A k \in Indices : calls'[k] > 0 <=> calls[k] > 0 \/ k = index[w]
    BY <1>1, <2>1 DEF TypeOK
  <2>3. QED
    BY <1>7, <2>2 DEF Asked
<1>9. w \in Present /\ Present' = Present
  BY <1>1, <1>2, <1>3 DEF Present, TypeOK
<1>10. Broken' \in {Broken, Broken \union {w}}
  <2>1. CASE GetTrace(w)
    BY <2>1 DEF GetTrace, Broken
  <2>2. CASE GetFails(w)
    BY <1>1, <2>2 DEF GetFails, Die, Broken, TypeOK
  <2>3. QED
    BY <2>1, <2>2
<1>11. Outcome' = Outcome
  BY <1>2 DEF Outcome
<1>12. QED
  BY <1>2, <1>6, <1>7, <1>8, <1>9, <1>10, <1>11 DEF Abstract!Ask

\* The steps of a worker.
LEMMA MapWorker ==
    ASSUME MapInv, NEW w \in Workers, Worker(w)
    PROVE  Abstract!Next \/ UNCHANGED Abstract!vars
<1>. USE FirstWorker DEF controllerVars, argVars
<1>1. TypeOK /\ Quiet /\ Handed /\ Stopped /\ Marked /\ Settled
  BY DEF MapInv, IndInv
<1>2. next' = next /\ index' = index /\ ts' = ts /\ Outcome' = Outcome
  BY DEF Worker, Wake, Exit, Proceed, GetTrace, GetFails, GetNothing, Finish, Post, Outcome
<1>3. CASE GetTrace(w) \/ GetFails(w)
  BY <1>3, MapAsk DEF Abstract!Next
<1>4. CASE Wake(w) \/ Proceed(w)
  <2>1. code' = code /\ calls' = calls
        /\ wpc' \in {[wpc EXCEPT ![w] = "woken"], [wpc EXCEPT ![w] = "get"]}
        /\ wpc[w] \in {"wait", "woken"}
    BY <1>4 DEF Wake, Proceed, WGoto
  <2>2. \A v \in Workers : HasIndex(v)' <=> HasIndex(v)
    BY <1>1, <1>2, <1>4, <2>1 DEF Wake, Proceed, WGoto, HasIndex, TypeOK
  <2>3. Present' = Present /\ Asked' = Asked /\ Broken' = Broken
    BY <1>1, <2>1 DEF Present, Asked, Broken, TypeOK
  <2>4. QED
    BY <1>2, <2>2, <2>3, SameJobs, Hidden
<1>5. CASE Finish(w)
  <2>1. wpc[w] = "got" /\ wpc' = [wpc EXCEPT ![w] = "post"] /\ code' = [code EXCEPT ![w] = Idle]
        /\ calls' = calls /\ signal' = signal
    BY <1>5 DEF Finish, WGoto
  <2>2. code[w] = Busy
    BY <1>1, <2>1 DEF Marked
  <2>3. \A v \in Workers : HasIndex(v)' <=> HasIndex(v)
    BY <1>1, <1>2, <2>1 DEF HasIndex, TypeOK
  <2>4. Present' = Present /\ Asked' = Asked /\ Broken' = Broken
    BY <1>1, <2>1, <2>2 DEF Present, Asked, Broken, TypeOK, Idle, Busy, Error
  <2>5. QED
    BY <1>2, <2>3, <2>4, SameJobs, Hidden
<1>6. CASE Exit(w) \/ Post(w)
  <2>1. calls' = calls /\ signal' = signal /\ wpc[w] \in {"woken", "post", "dying"}
        /\ wpc' \in {[wpc EXCEPT ![w] = "wait"], [wpc EXCEPT ![w] = "exited"]}
    BY <1>6 DEF Exit, Post, WGoto
  <2>2. \A v \in Workers : HasIndex(v)' <=> HasIndex(v)
    BY <1>1, <1>2, <1>6, <2>1 DEF Exit, Post, HasIndex, TypeOK
  <2>3. Jobs' = Jobs /\ Asked' = Asked
    BY <1>2, <2>1, <2>2, SameJobs DEF Asked
  <2>4. Broken' = Broken
    <3>1. CASE Exit(w)
      BY <1>1, <3>1 DEF Exit, Marked, Broken, TypeOK, Busy, Error
    <3>2. CASE Post(w)
      BY <3>2 DEF Post, Broken
    <3>3. QED
      BY <1>6, <3>1, <3>2
  <2>5. CASE wpc'[w] = "wait"
    <3>1. Present' = Present
      BY <1>1, <2>1, <2>5 DEF Present, TypeOK
    <3>2. QED
      BY <1>2, <2>3, <2>4, <3>1, Hidden
  <2>6. CASE wpc'[w] = "exited"
    <3>1. Present' = Present \ {w}
      BY <1>1, <2>1, <2>6 DEF Present, TypeOK
    <3>2. ~HasIndex(w)
      <4>1. CASE Exit(w)
        BY <4>1 DEF Exit, HasIndex
      <4>2. CASE Post(w)
        <5>1. wpc[w] = "dying" /\ code[w] = Error
          BY <1>1, <2>1, <2>6, <4>2 DEF Post, WGoto, TypeOK, Marked
        <5>2. QED
          BY <1>1, <5>1 DEF HasIndex, Handed, TypeOK, Busy, Error
      <4>3. QED
        BY <1>6, <4>1, <4>2
    <3>3. Abstract!Leave(w)
      BY <1>1, <1>2, <2>3, <2>4, <3>1, <3>2, JobOf DEF Abstract!Leave
    <3>4. QED
      BY <3>3 DEF Abstract!Next
  <2>7. QED
    BY <1>1, <2>1, <2>5, <2>6 DEF TypeOK
<1>7. CASE GetNothing(w)
  <2>1. wpc[w] = "get" /\ ~ts[w] /\ wpc' = [wpc EXCEPT ![w] = "dying"]
        /\ code' = [code EXCEPT ![w] = Error] /\ calls' = calls /\ signal' = signal
    BY <1>7 DEF GetNothing, Die, WGoto
  <2>2. \A v \in Workers : HasIndex(v)' <=> HasIndex(v)
    BY <1>1, <1>2, <2>1 DEF HasIndex, TypeOK
  <2>3. Jobs' = Jobs /\ Asked' = Asked
    BY <1>2, <2>1, <2>2, SameJobs DEF Asked
  <2>4. Present' = Present /\ Broken' = Broken \union {w}
    BY <1>1, <2>1 DEF Present, Broken, TypeOK
  <2>5. Outcome = "failing"
    <3>1. ctl \in {"kill", "join"}
      BY <1>1, <2>1 DEF Stopped, Ended, TypeOK, Handed, Running, Quiet
    <3>2. ret # 0
      BY <1>1, <2>1, <3>1 DEF Settled
    <3>3. QED
      BY <3>1, <3>2 DEF Outcome
  <2>6. Jobs = [Jobs EXCEPT ![w] = NoJob]
    <3>1. Jobs[w] = NoJob
      BY <2>1 DEF Jobs, HasIndex
    <3>2. QED
      BY <3>1 DEF Jobs
  <2>7. Abstract!Dismiss(w)
    BY <1>2, <2>3, <2>4, <2>5, <2>6 DEF Abstract!Dismiss
  <2>8. QED
    BY <2>7 DEF Abstract!Next
<1>8. QED
  BY <1>3, <1>4, <1>5, <1>6, <1>7 DEF Worker

\* Every step of the controller and the workers, with every failure, is a step of a pool in
\* which indices are given to free workers one by one, or is not seen.
THEOREM Implements == Spec => ImplementsWorkerPool
<1>1. MapInv /\ [Next]_vars => [Abstract!Next]_(Abstract!vars)
  <2>. SUFFICES ASSUME MapInv, [Next]_vars PROVE Abstract!Next \/ UNCHANGED Abstract!vars
    OBVIOUS
  <2>1. CASE Return \/ UNCHANGED vars
    BY <2>1, Hidden DEF Return, vars, controllerVars, argVars, Present, Ended, Jobs, HasIndex,
                        Asked, Broken, Outcome
  <2>2. QED
    BY <2>1, MapController, MapWorker DEF Next, Terminated
<1>2. QED
  BY <1>1, MapInit, MapInvAlways, PTL DEF Spec, ImplementsWorkerPool, Abstract!Spec

=============================================================================
