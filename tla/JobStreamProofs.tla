--------------------------- MODULE JobStreamProofs ---------------------------
(***************************************************************************)
(* The numbering of the event log, for any number of workers, clients,     *)
(* events and faults: no insert can hit UNIQUE (job_id, seq), and the      *)
(* finished event has the highest number.  The inductive invariant says    *)
(* that the counter is ahead of everything numbered so far, and that it is *)
(* missing only before the first event and after the last.                 *)
(***************************************************************************)
EXTENDS JobStream, FiniteSetTheorems, WellFoundedInduction, TLAPS

\* The types of the emitters' state.
EmitType == /\ log \subseteq Nat \ {0}
            /\ ended \in Nat
            /\ counter \in Nat \union {NoCounter}
            /\ stage \in Stages
            /\ todo \in Nat
            /\ step \in [Emitters -> {"idle", "numbered", "inserted"}]
            /\ number \in [Emitters -> Nat]

After == {"summary", "verdict", "goodbye", "failing", "complain", "done"}

\* Nobody emits outside its time: the workers between the reading of the items and
\* wg.Wait, Main when MayEmit says so; nobody before the first event has a number.
Phases == /\ stage \in {"begin", "items"} => \A w \in Workers : step[w] = "idle"
          /\ stage \in After => todo = 0 /\ \A w \in Workers : step[w] = "idle"
          /\ stage \in {"items", "working", "verdict", "failing", "done"} => step[Main] = "idle"
          /\ stage = "dead" => \A p \in Emitters : step[p] = "idle"

\* The counter is ahead of every number handed out.
Ahead == /\ counter # NoCounter =>
              /\ \A s \in log : s <= counter
              /\ \A p \in Emitters :
                   step[p] = "numbered" => number[p] \in 1..counter
              /\ stage \in After /\ step[Main] = "numbered" => number[Main] = counter
         /\ counter = NoCounter =>
              /\ \A p \in Emitters : step[p] = "idle"
              /\ stage \notin {"done", "dead"} => stage = "begin" /\ log = {}

\* The finished event is written last, by Main.
Finished == ended # 0 => /\ stage \in {"goodbye", "done", "dead"}
                         /\ stage = "goodbye" => step[Main] = "inserted"
                         /\ ended \in log
                         /\ \A s \in log : s <= ended

IInv == EmitType /\ Phases /\ Ahead /\ NumbersAreFresh /\ Finished

-----------------------------------------------------------------------------
\* The highest row of an empty log is 0.
LEMMA MaxOfNone == Max({} \union {0}) = 0
BY DEF Max

\* The streams, the clients and a stop leave the emitters' state alone.
LEMMA StreamFrame ==
  ASSUME IInv, UNCHANGED <<log, ended, stage, todo, counter, step, number>>
  PROVE  IInv'
BY DEF IInv, EmitType, Phases, Ahead, NumbersAreFresh, Finished, After

\* A number taken is higher than every number before it.
LEMMA TakeNumberStep ==
  ASSUME IInv, NEW p \in Emitters, TakeNumber(p) PROVE IInv'
<1> USE DEF IInv, EmitType
<1>1. UNCHANGED <<log, ended, stage, terminal>> /\ step[p] = "idle" /\ MayEmit(p)
  BY DEF TakeNumber
<1>2. stage \notin {"done", "dead"}
  BY <1>1, ConstantsOK DEF MayEmit, Phases, After, Emitters, Stages
<1>3. counter = NoCounter => log = {} /\ stage = "begin"
  BY <1>2 DEF Ahead
<1>4. /\ counter' \in Nat \ {0}
      /\ \A s \in log : s < counter'
      /\ counter # NoCounter => counter' = counter + 1
  <2>1. CASE counter # NoCounter
    BY <2>1, <1>1 DEF TakeNumber, Ahead
  <2>2. CASE counter = NoCounter
    <3>1. counter' = Max(log \union {0}) + 1 \/ counter' = 1
      BY <2>2 DEF TakeNumber
    <3>2. log = {} /\ Max(log \union {0}) = 0
      BY <2>2, <1>3, MaxOfNone
    <3> QED BY <3>1, <3>2, <2>2
  <2> QED BY <2>1, <2>2
<1>5. /\ number' = [number EXCEPT ![p] = counter']
      /\ step' = [step EXCEPT ![p] = "numbered"]
      /\ todo' = IF p = Main THEN todo ELSE todo - 1
  BY DEF TakeNumber
<1>6. p # Main => todo > 0 /\ stage = "working"
  BY <1>1, <1>2 DEF MayEmit, Phases, After, Stages
<1>7. EmitType'
  BY <1>1, <1>4, <1>5, <1>6
<1>8. Phases'
  BY <1>1, <1>2, <1>5, <1>6, ConstantsOK DEF Phases, After, MayEmit, Emitters
<1>9. \A q \in Emitters : (q # p /\ step[q] = "numbered") => number[q] < counter'
  BY <1>4 DEF Ahead
<1>10. Ahead'
  <2>1. counter' # NoCounter /\ number'[p] = counter' /\ \A s \in log' : s <= counter'
    BY <1>1, <1>4, <1>5 DEF NoCounter
  <2>2. \A q \in Emitters : step'[q] = "numbered" => number'[q] \in 1..counter'
    <3> SUFFICES ASSUME NEW q \in Emitters, step'[q] = "numbered"
                 PROVE  number'[q] \in 1..counter'
      OBVIOUS
    <3>1. CASE q = p
      BY <3>1, <2>1, <1>4
    <3>2. CASE q # p
      <4>1. step[q] = "numbered" /\ number'[q] = number[q]
        BY <3>2, <1>5
      <4>2. counter # NoCounter /\ counter \in Nat /\ number[q] \in 1..counter
        BY <4>1 DEF Ahead
      <4> QED BY <4>1, <4>2, <1>4
    <3> QED BY <3>1, <3>2
  <2>3. stage' \in After /\ step'[Main] = "numbered" => number'[Main] = counter'
    BY <2>1, <1>1, <1>6 DEF After
  <2> QED BY <2>1, <2>2, <2>3 DEF Ahead
<1>11. NumbersAreFresh'
  BY <1>1, <1>4, <1>5, <1>9 DEF NumbersAreFresh
<1>12. Finished'
  BY <1>1, <1>5, <1>6, <1>2 DEF Finished, MayEmit
<1> QED BY <1>7, <1>8, <1>10, <1>11, <1>12

\* An insert uses the number up.
LEMMA InsertStep ==
  ASSUME IInv, NEW p \in Emitters, Insert(p) PROVE IInv'
<1> USE DEF IInv, EmitType
<1>1. /\ step[p] = "numbered" /\ log' = log \union {number[p]}
      /\ step' = [step EXCEPT ![p] = "inserted"]
      /\ ended' = IF p = Main /\ stage = "goodbye" THEN number[p] ELSE ended
      /\ UNCHANGED <<counter, number, stage, todo>>
  BY DEF Insert
<1>2. counter # NoCounter /\ counter \in Nat /\ number[p] \in 1..counter
  BY <1>1 DEF Ahead
<1>3. EmitType'
  <2>1. log' \subseteq Nat \ {0}
    <3>1. number[p] \in Nat \ {0}
      BY <1>2
    <3>2. log' = log \union {number[p]}
      BY <1>1
    <3> HIDE DEF IInv, EmitType
    <3>3. log \subseteq Nat \ {0}
      BY DEF IInv, EmitType
    <3> QED BY <3>1, <3>2, <3>3
  <2>2. ended' \in Nat
    BY <1>1
  <2> QED BY <2>1, <2>2, <1>1
<1>4. Phases'
  BY <1>1 DEF Phases, After
<1>5. Ahead'
  BY <1>1, <1>2 DEF Ahead
<1>6. NumbersAreFresh'
  BY <1>1 DEF NumbersAreFresh
<1>7. Finished'
  <2>1. CASE p = Main /\ stage = "goodbye"
    <3>1. ended' = number[p] /\ number[p] = counter
      BY <2>1, <1>1, <1>2 DEF Ahead, After
    <3>2. \A s \in log' : s <= counter
      BY <1>1, <1>2 DEF Ahead
    <3> QED BY <3>1, <3>2, <2>1, <1>1 DEF Finished
  <2>2. CASE ~(p = Main /\ stage = "goodbye")
    <3>1. ended' = ended
      BY <2>2, <1>1
    <3>2. CASE ended = 0
      BY <3>1, <3>2 DEF Finished
    <3>3. CASE ended # 0
      <4>1. stage \in {"goodbye", "done", "dead"} /\ (stage = "goodbye" => step[Main] = "inserted")
        BY <3>3 DEF Finished
      <4>2. p # Main => stage \notin {"goodbye", "done", "dead"}
        BY <1>1 DEF Phases, After, Emitters
      <4>3. p = Main => stage \notin {"done", "dead"}
        BY <1>1 DEF Phases
      <4> QED BY <4>1, <4>2, <4>3, <2>2
    <3> QED BY <3>2, <3>3
  <2> QED BY <2>1, <2>2
<1> QED BY <1>3, <1>4, <1>5, <1>6, <1>7

\* After an emission Main goes on; finish drops the counter when all is written.
LEMMA ProceedStep ==
  ASSUME IInv, NEW p \in Emitters, Proceed(p), step[p] # "idle",
         step' = [step EXCEPT ![p] = "idle"],
         UNCHANGED <<log, ended, number, todo>>,
         stage = "goodbye" /\ ended # 0 => step[Main] = "inserted"
  PROVE  IInv'
<1> USE DEF IInv, EmitType
<1>1. CASE p # Main
  <2>1. UNCHANGED <<stage, counter>>
    BY <1>1 DEF Proceed
  <2>2. Phases'
    BY <2>1, <1>1 DEF Phases, After
  <2>3. Ahead'
    BY <2>1, <1>1 DEF Ahead, After, Emitters
  <2>4. NumbersAreFresh'
    BY <2>1 DEF NumbersAreFresh
  <2>5. Finished'
    BY <2>1, <1>1 DEF Finished, Emitters
  <2> QED BY <2>1, <2>2, <2>3, <2>4, <2>5
<1>2. CASE p = Main
  <2>1. stage \in {"begin", "summary", "goodbye", "complain"}
    BY <1>2 DEF Phases, Stages, Emitters
  <2>2. stage' = CASE stage = "begin"   -> "items"
                   [] stage = "summary" -> "verdict"
                   [] OTHER             -> "done"
    BY <1>2 DEF Proceed
  <2>3. counter' = IF stage = "goodbye" THEN NoCounter ELSE counter
    BY <1>2 DEF Proceed
  <2>4. \A w \in Workers : step[w] = "idle"
    BY <2>1 DEF Phases, After
  <2>5. \A q \in Emitters : step'[q] = "idle"
    BY <2>4, <1>2 DEF Emitters
  <2>6. stage = "begin" => stage' = "items"
    BY <2>2
  <2>7. stage # "begin" => stage' \in {"verdict", "done"} /\ todo = 0
    BY <2>1, <2>2 DEF Phases, After
  <2>8. stage' \in {"items", "verdict", "done"}
    BY <2>6, <2>7
  <2>9. EmitType'
    BY <2>3, <2>8 DEF Stages
  <2>10. Phases'
    BY <2>5, <2>7, <2>8, <2>6, ConstantsOK DEF Phases, After, Emitters
  <2>11. counter' = NoCounter => stage' \in {"done", "dead"}
    BY <2>2, <2>3, <1>2 DEF Ahead, Emitters
  <2>12. Ahead'
    BY <2>3, <2>5, <2>11 DEF Ahead, Emitters
  <2>13. NumbersAreFresh'
    BY <2>5 DEF NumbersAreFresh
  <2>14. Finished'
    BY <2>2, <2>1 DEF Finished
  <2> QED BY <2>9, <2>10, <2>12, <2>13, <2>14
<1> QED BY <1>1, <1>2

\* The invariant is preserved by every step of an emission ...
LEMMA EmitStep ==
  ASSUME IInv, NEW p \in Emitters, Emit(p) PROVE IInv'
<1>1. CASE TakeNumber(p)
  BY <1>1, TakeNumberStep
<1>2. CASE Insert(p)
  BY <1>2, InsertStep
<1>3. CASE InsertFails(p)
  BY <1>3, ProceedStep DEF InsertFails, IInv, Finished
<1>4. CASE Notify(p)
  BY <1>4, ProceedStep DEF Notify, IInv, Finished
<1> QED BY <1>1, <1>2, <1>3, <1>4 DEF Emit

\* ... by the steps of the job, a crash and a restart ...
LEMMA JobStep ==
  ASSUME IInv, Job \/ Crash \/ ReapStale PROVE IInv'
<1> USE DEF IInv, EmitType
<1>1. CASE ListPendingJobItems
  <2>1. /\ stage = "items" /\ stage' \in {"working", "failing"}
        /\ todo' \in Nat /\ (stage' = "failing" => todo' = 0)
        /\ UNCHANGED <<log, ended, counter, step, number>>
    BY <1>1 DEF ListPendingJobItems, emitVars
  <2> QED BY <2>1 DEF Phases, Ahead, NumbersAreFresh, Finished, Stages, After
<1>2. CASE WorkersDone
  <2>1. /\ stage = "working" /\ stage' = "summary" /\ todo = 0
        /\ \A w \in Workers : step[w] = "idle"
        /\ UNCHANGED <<log, ended, counter, step, number, todo>>
    BY <1>2 DEF WorkersDone, emitVars
  <2> QED BY <2>1 DEF Phases, Ahead, NumbersAreFresh, Finished, Stages, After
<1>3. CASE FinishJob
  <2>1. /\ stage \in {"verdict", "failing"} /\ stage' \in {"goodbye", "complain"}
        /\ UNCHANGED <<log, ended, counter, step, number, todo>>
    BY <1>3 DEF FinishJob, emitVars
  <2> QED BY <2>1 DEF Phases, Ahead, NumbersAreFresh, Finished, Stages, After
<1>4. CASE Crash
  <2>1. /\ stage' = "dead" /\ step' = [p \in Emitters |-> "idle"] /\ counter' = NoCounter
        /\ UNCHANGED <<log, ended, number, todo>>
    BY <1>4 DEF Crash
  <2> QED BY <2>1 DEF Phases, Ahead, NumbersAreFresh, Finished, Stages, After, Emitters
<1>5. CASE ReapStale
  BY <1>5, StreamFrame DEF ReapStale, emitVars
<1> QED BY <1>1, <1>2, <1>3, <1>4, <1>5 DEF Job

\* ... and by the streams.
LEMMA ClientStep ==
  ASSUME IInv, NEW c \in Clients, Connect(c) \/ Stream(c) \/ Tick(c) \/ Break(c)
  PROVE  IInv'
<1>1. UNCHANGED <<jobVars, emitVars>>
  BY DEF Connect, Stream, Tick, Break, Subscribe, DrainBatch, DrainNothing, HangUp, Close,
         GoOn, Wake
<1> QED BY <1>1, StreamFrame DEF jobVars, emitVars

\* The inductive invariant, from which the two theorems follow.
THEOREM Numbering == Spec => []IInv
<1>1. Init => IInv
  BY ConstantsOK DEF Init, IInv, EmitType, Phases, Ahead, NumbersAreFresh, Finished, Stages,
     After, Emitters, NoCounter
<1>2. IInv /\ [Next]_vars => IInv'
  <2> SUFFICES ASSUME IInv, [Next]_vars PROVE IInv'
    OBVIOUS
  <2>1. CASE \E p \in Emitters : Emit(p)
    BY <2>1, EmitStep
  <2>2. CASE Job \/ Crash \/ ReapStale
    BY <2>2, JobStep
  <2>3. CASE \E c \in Clients : Connect(c) \/ Stream(c) \/ Tick(c) \/ Break(c)
    BY <2>3, ClientStep
  <2>4. CASE StopNotify
    BY <2>4, StreamFrame DEF StopNotify, jobVars, emitVars
  <2>5. CASE UNCHANGED vars
    BY <2>5, StreamFrame DEF vars, jobVars, emitVars
  <2> QED BY <2>1, <2>2, <2>3, <2>4, <2>5 DEF Next, Rest
<1> QED BY <1>1, <1>2, PTL DEF Spec

\* The emitters' state has its types: the counter, above all, is missing or a number.
THEOREM TypeCorrect == Spec => []EmitType
<1>1. IInv => EmitType
  BY DEF IInv
<1> QED BY <1>1, Numbering, PTL

\* No two emitters hold the same number, and no insert collides with a row: nextSeq
\* is enough, even though the number is taken and used in two steps.
THEOREM NumbersStayFresh == Spec => []NumbersAreFresh
<1>1. IInv => NumbersAreFresh
  BY DEF IInv
<1> QED BY <1>1, Numbering, PTL

\* The finished event is the last of the log: finish emits it after wg.Wait.
THEOREM FinishedStaysLast == Spec => []FinishedIsLast
<1>1. IInv => FinishedIsLast
  <2> SUFFICES ASSUME IInv, ended # 0 PROVE ended = Max(log)
    BY DEF FinishedIsLast
  <2>1. ended \in log /\ log \subseteq Nat /\ \A s \in log : s <= ended
    BY DEF IInv, EmitType, Finished
  <2>2. \A x \in log : (\A y \in log : x >= y) => x = ended
    BY <2>1
  <2>3. \A y \in log : ended >= y
    BY <2>1
  <2> QED BY <2>1, <2>2, <2>3 DEF Max
<1> QED BY <1>1, Numbering, PTL

-----------------------------------------------------------------------------
(* The rows a stream reads are in order.                                   *)

\* A family of finite sets has a member that contains no other: induction on finite sets.
LEMMA SmallestSet ==
  ASSUME NEW F, F # {}, \A X \in F : IsFiniteSet(X)
  PROVE  \E X \in F : \A Y \in F : Y \subseteq X => Y = X
<1> DEFINE U == UNION F
<1>1. F \subseteq FiniteSubsetsOf(U)
  BY DEF FiniteSubsetsOf
<1>2. IsWellFoundedOn(StrictSubsetOrdering(U), FiniteSubsetsOf(U))
  BY FS_StrictSubsetOrderingWellFounded
<1>3. \E X \in F : \A Y \in F : ~(<<Y, X>> \in StrictSubsetOrdering(U))
  <2> HIDE DEF U
  <2> QED BY <1>1, <1>2, WFMin
<1>4. PICK X \in F : \A Y \in F : ~(<<Y, X>> \in StrictSubsetOrdering(U))
  BY <1>3
<1>5. ASSUME NEW Y \in F, Y \subseteq X, Y # X PROVE FALSE
  <2>1. <<Y, X>> \in StrictSubsetOrdering(U)
    BY <1>5 DEF StrictSubsetOrdering
  <2> QED BY <2>1, <1>4
<1> QED BY <1>5

\* A finite set of numbers that is not empty has a highest one.
LEMMA HasHighest ==
  ASSUME NEW S \in SUBSET Nat, IsFiniteSet(S), S # {}
  PROVE  \E m \in S : \A s \in S : s <= m
<1> DEFINE F == {X \in SUBSET S : X # {} /\ ~ \E m \in X : \A s \in X : s <= m}
<1>1. SUFFICES ASSUME F # {} PROVE FALSE
  OBVIOUS
<1>2. \A X \in F : IsFiniteSet(X)
  BY FS_Subset
<1>3. PICK X \in F : \A Y \in F : Y \subseteq X => Y = X
  <2> HIDE DEF F
  <2> QED BY <1>1, <1>2, SmallestSet
<1>4. PICK x \in X : TRUE
  OBVIOUS
<1>5. CASE X = {x}
  BY <1>5
<1>6. CASE X # {x}
  <2>1. X \ {x} \notin F /\ X \ {x} # {} /\ X \ {x} \in SUBSET S
    BY <1>3, <1>4, <1>6
  <2>2. PICK m \in X \ {x} : \A s \in X \ {x} : s <= m
    BY <2>1
  <2>3. CASE x <= m
    BY <2>2, <2>3
  <2>4. CASE m < x
    BY <2>2, <2>4, <1>4
  <2> QED BY <2>3, <2>4, <2>2, <1>4
<1> QED BY <1>5, <1>6

\* Among the numbers of a finite set each place is taken by one of them.
LEMMA PlacesTaken ==
  ASSUME NEW S \in SUBSET Nat, IsFiniteSet(S)
  PROVE  \A k \in 1..Cardinality(S) : \E s \in S : Cardinality({t \in S : t <= s}) = k
<1> DEFINE Taken(X) == \A k \in 1..Cardinality(X) : \E s \in X : Cardinality({t \in X : t <= s}) = k
           F == {X \in SUBSET S : ~Taken(X)}
<1>1. SUFFICES ASSUME F # {} PROVE FALSE
  OBVIOUS
<1>2. \A X \in F : IsFiniteSet(X)
  BY FS_Subset
<1>3. PICK X \in F : \A Y \in F : Y \subseteq X => Y = X
  <2> HIDE DEF F
  <2> QED BY <1>1, <1>2, SmallestSet
<1>4. IsFiniteSet(X) /\ X \in SUBSET Nat /\ Cardinality(X) \in Nat
  BY <1>2, FS_CardinalityType
<1>5. X # {}
  <2> SUFFICES ASSUME X = {} PROVE Taken(X)
    BY <1>3
  <2> QED BY FS_EmptySet
<1>6. PICK m \in X : \A s \in X : s <= m
  BY <1>4, <1>5, HasHighest
<1> DEFINE Y == X \ {m}
<1>7. Y \in SUBSET S /\ Y \subseteq X /\ Y # X
  BY <1>6
<1>8. Taken(Y)
  BY <1>3, <1>7
<1>9. Cardinality(Y) = Cardinality(X) - 1 /\ IsFiniteSet(Y)
  BY <1>4, <1>6, FS_RemoveElement
<1>10. ASSUME NEW k \in 1..Cardinality(X)
       PROVE  \E s \in X : Cardinality({t \in X : t <= s}) = k
  <2>1. CASE k = Cardinality(X)
    <3>1. {t \in X : t <= m} = X
      BY <1>6
    <3> QED BY <2>1, <3>1
  <2>2. CASE k # Cardinality(X)
    <3>1. k \in 1..Cardinality(Y)
      BY <2>2, <1>4, <1>9
    <3>2. PICK s \in Y : Cardinality({t \in Y : t <= s}) = k
      BY <3>1, <1>8
    <3>3. {t \in Y : t <= s} = {t \in X : t <= s}
      BY <1>4, <1>6
    <3> QED BY <3>2, <3>3
  <2> QED BY <2>1, <2>2
<1>11. Taken(X)
  BY <1>10
<1> QED BY <1>3, <1>11

Ascending(q) == \A m, n \in DOMAIN q : m < n => q[m] < q[n]

\* ListJobEventsAfter returns rows of the log beyond n, in order, and some unless there are none.
LEMMA RowsInOrder ==
  ASSUME log \subseteq Nat, IsFiniteSet(log), NEW n \in Nat
  PROVE  /\ EventsAfter(n) \in Seq(log)
         /\ Ascending(EventsAfter(n))
         /\ \A k \in DOMAIN EventsAfter(n) : EventsAfter(n)[k] > n
<1> DEFINE rest == {s \in log : s > n}
           Place(s) == Cardinality({t \in rest : t <= s})
           top == Min({Batch, Cardinality(rest)})
           Row(k) == CHOOSE s \in rest : Place(s) = k
           rows == [k \in 1..top |-> Row(k)]
<1>1. EventsAfter(n) = rows
  BY DEF EventsAfter
<1>2. IsFiniteSet(rest) /\ rest \in SUBSET Nat /\ Cardinality(rest) \in Nat
  BY FS_Subset, FS_CardinalityType
<1>3. top \in Nat /\ top <= Cardinality(rest)
  <2>1. \E x \in {Batch, Cardinality(rest)} : \A y \in {Batch, Cardinality(rest)} : x <= y
    BY <1>2, ConstantsOK
  <2>2. top \in {Batch, Cardinality(rest)} /\ \A y \in {Batch, Cardinality(rest)} : top <= y
    BY <2>1 DEF Min
  <2> QED BY <2>2, <1>2, ConstantsOK
<1>4. ASSUME NEW k \in 1..top PROVE Row(k) \in rest /\ Place(Row(k)) = k
  <2>1. k \in 1..Cardinality(rest)
    BY <1>2, <1>3
  <2>2. \E s \in rest : Place(s) = k
    BY <2>1, <1>2, PlacesTaken
  <2> HIDE DEF rest, Place
  <2> QED BY <2>2
<1>5. rows \in Seq(log)
  <2>1. \A k \in 1..top : Row(k) \in log
    BY <1>4
  <2> HIDE DEF Row, top
  <2> QED BY <1>3, <2>1
<1>6. ASSUME NEW i \in 1..top, NEW k \in 1..top, i < k PROVE rows[i] < rows[k]
  <2>1. /\ Row(i) \in rest /\ Place(Row(i)) = i
        /\ Row(k) \in rest /\ Place(Row(k)) = k
    BY <1>4
  <2>2. ASSUME Row(k) <= Row(i) PROVE FALSE
    <3>1. {t \in rest : t <= Row(k)} \in SUBSET {t \in rest : t <= Row(i)}
      <4> HIDE DEF Row
      <4> QED BY <2>1, <2>2, <1>2
    <3>2. IsFiniteSet({t \in rest : t <= Row(i)})
      BY <1>2, FS_Subset
    <3>3. Place(Row(k)) <= Place(Row(i))
      <4> HIDE DEF Row, rest
      <4> QED BY <3>1, <3>2, FS_Subset
    <3> QED BY <3>3, <2>1, <1>6
  <2>3. Row(i) \in Nat /\ Row(k) \in Nat
    BY <2>1, <1>2
  <2>4. rows[i] = Row(i) /\ rows[k] = Row(k)
    OBVIOUS
  <2> HIDE DEF Row, rows
  <2> QED BY <2>2, <2>3, <2>4
<1>7. \A k \in 1..top : rows[k] > n
  BY <1>4
<1>8. DOMAIN rows = 1..top
  OBVIOUS
<1> HIDE DEF rows, top
<1> QED BY <1>1, <1>5, <1>6, <1>7, <1>8 DEF Ascending

\* What a client has received is in order, and its stream goes on from there.
Sorted(c) == /\ got[c] \in Seq(Nat)
             /\ Ascending(got[c])
             /\ lastSeq[c] \in Nat
             /\ at[c] \in Streaming => lastSeq[c] = ResumeFrom(c)
SortedInv == /\ IsFiniteSet(log)
             /\ got \in [Clients -> Seq(Nat)] /\ lastSeq \in [Clients -> Nat]
             /\ at \in [Clients -> Streaming \union {"off", "cut", "over"}]
             /\ \A c \in Clients : Sorted(c)

\* A prefix of the rows beyond the last one received keeps the order.
LEMMA OrderKept ==
  ASSUME NEW q \in Seq(Nat), NEW r \in Seq(Nat), Ascending(q), Ascending(r),
         NEW last \in Nat, last = IF q = <<>> THEN 0 ELSE Last(q),
         \A k \in DOMAIN r : r[k] > last, NEW n \in 0..Len(r)
  PROVE  /\ q \o SubSeq(r, 1, n) \in Seq(Nat)
         /\ Ascending(q \o SubSeq(r, 1, n))
<1> DEFINE p == SubSeq(r, 1, n)
           a == q \o p
<1>1. p \in Seq(Nat) /\ Len(p) = n /\ \A k \in 1..n : p[k] = r[k]
  OBVIOUS
<1>2. a \in Seq(Nat) /\ Len(a) = Len(q) + n
  BY <1>1
<1>3. \A k \in 1..Len(a) : a[k] = IF k <= Len(q) THEN q[k] ELSE r[k - Len(q)]
  BY <1>1, <1>2
<1>4. \A k \in 1..Len(q) : q[k] <= last
  BY DEF Ascending, Last
<1>0. /\ DOMAIN a = 1..Len(a) /\ DOMAIN q = 1..Len(q) /\ DOMAIN r = 1..Len(r)
  BY <1>2
<1>8. Len(q) \in Nat /\ n \in Nat /\ Len(r) \in Nat /\ n <= Len(r) /\ Len(a) = Len(q) + n
  BY <1>2
<1> HIDE DEF a, p
<1>5. ASSUME NEW i \in 1..Len(a), NEW k \in 1..Len(a), i < k PROVE a[i] < a[k]
  <2>1. CASE k <= Len(q)
    <3>1. a[i] = q[i] /\ a[k] = q[k] /\ i \in DOMAIN q /\ k \in DOMAIN q
      BY <1>0, <1>3, <1>5, <2>1
    <3> QED BY <1>5, <3>1 DEF Ascending
  <2>2. CASE i > Len(q)
    <3>1. /\ i - Len(q) \in 1..Len(r) /\ k - Len(q) \in 1..Len(r)
          /\ i - Len(q) < k - Len(q)
      <4>1. PICK u \in Nat, z \in Nat : u = Len(q) /\ z = Len(r)
        BY <1>8
      <4>2. n \in Nat /\ i \in Nat /\ k \in Nat /\ u < i /\ i < k /\ k <= u + n /\ n <= z
        BY <1>8, <1>5, <2>2, <4>1
      <4>3. i - u \in Int /\ k - u \in Int /\ 1 <= i - u /\ i - u < k - u /\ k - u <= n
        BY <4>2
      <4>4. i - u \in 1..z /\ k - u \in 1..z
        BY <4>2, <4>3
      <4> QED BY <4>1, <4>3, <4>4
    <3>2. r[i - Len(q)] < r[k - Len(q)]
      <4>1. \A x, y \in 1..Len(r) : x < y => r[x] < r[y]
        BY <1>0, Zenon DEF Ascending
      <4>2. PICK x \in 1..Len(r), y \in 1..Len(r) : x = i - Len(q) /\ y = k - Len(q)
        BY <3>1
      <4> QED BY <3>1, <4>1, <4>2
    <3> QED BY <1>3, <1>5, <2>2, <3>2
  <2>3. CASE i <= Len(q) /\ k > Len(q)
    <3>0. k - Len(q) \in 1..Len(r)
      BY <1>8, <2>3
    <3>1. PICK x \in 1..Len(r) : x = k - Len(q)
      BY <3>0
    <3>2. a[i] = q[i] /\ a[k] = r[x] /\ i \in 1..Len(q)
      BY <1>0, <1>3, <2>3, <3>1
    <3>3. q[i] <= last
      BY <1>4, <3>2
    <3>4. last < r[x]
      BY <1>0, <3>1
    <3>5. q[i] \in Nat /\ r[x] \in Nat
      <4>1. \A S, t : t \in Seq(S) => \A m \in 1..Len(t) : t[m] \in S
        OBVIOUS
      <4> QED BY <3>1, <3>2, <4>1
    <3>6. \A y, z \in Nat : y <= last /\ last < z => y < z
      OBVIOUS
    <3> QED BY <3>2, <3>3, <3>4, <3>5, <3>6
  <2> QED BY <2>1, <2>2, <2>3
<1>6. Ascending(a)
  BY <1>0, <1>5 DEF Ascending
<1> QED BY <1>2, <1>6 DEF a, p

\* A step of one stream that delivers nothing.
LEMMA NothingDelivered ==
  ASSUME SortedInv, NEW c \in Clients, NEW s \in Streaming \union {"off", "cut", "over"},
         at' = [at EXCEPT ![c] = s], s \in Streaming => at[c] \in Streaming,
         UNCHANGED <<log, lastSeq, got>>
  PROVE  SortedInv'
BY DEF SortedInv, Sorted, ResumeFrom

LEMMA SeqOfNumbers ==
  ASSUME NEW S \in SUBSET Nat, NEW q \in Seq(S)
  PROVE  q \in Seq(Nat)
<1>1. \A k \in 1..Len(q) : q[k] \in Nat
  <2>1. \A k \in 1..Len(q) : q[k] \in S
    OBVIOUS
  <2> QED BY <2>1
<1>2. Len(q) \in Nat /\ q = [k \in 1..Len(q) |-> q[k]]
  OBVIOUS
<1> QED BY <1>1, <1>2

\* What a drain is about to send, or has sent in part, continues what the client has.
LEMMA RowsContinue ==
  ASSUME IInv, SortedInv, NEW c \in Clients, at[c] \in Streaming,
         NEW r, r = EventsAfter(lastSeq[c]), NEW n \in 0..Len(r)
  PROVE  /\ r \in Seq(Nat)
         /\ got[c] \o SubSeq(r, 1, n) \in Seq(Nat)
         /\ Ascending(got[c] \o SubSeq(r, 1, n))
<1>1. log \subseteq Nat /\ IsFiniteSet(log)
  BY DEF IInv, EmitType, SortedInv
<1>2. PICK last \in Nat : last = lastSeq[c]
  BY DEF SortedInv
<1>3. /\ r \in Seq(log) /\ Ascending(r)
      /\ \A k \in DOMAIN r : r[k] > last
  BY <1>1, <1>2, RowsInOrder
<1>4. r \in Seq(Nat)
  BY <1>1, <1>3, SeqOfNumbers
<1>5. PICK q \in Seq(Nat) : q = got[c]
  BY DEF SortedInv
<1>6. Ascending(q) /\ last = IF q = <<>> THEN 0 ELSE Last(q)
  BY <1>2, <1>5 DEF SortedInv, Sorted, ResumeFrom
<1>7. q \o SubSeq(r, 1, n) \in Seq(Nat) /\ Ascending(q \o SubSeq(r, 1, n))
  BY <1>3, <1>4, <1>6, OrderKept
<1> QED BY <1>4, <1>5, <1>7

\* A stream never breaks the order, whatever is lost and resumed.
LEMMA StreamSorted ==
  ASSUME IInv, SortedInv, NEW c \in Clients, Connect(c) \/ Stream(c) \/ Tick(c) \/ Break(c)
  PROVE  SortedInv'
<1> USE DEF emitVars
<1>1. CASE Connect(c)
  <2>1. /\ lastSeq' = [lastSeq EXCEPT ![c] = ResumeFrom(c)]
        /\ at' = [at EXCEPT ![c] = "subscribe"]
        /\ UNCHANGED <<log, got>>
    BY <1>1 DEF Connect
  <2>2. ResumeFrom(c) \in Nat
    BY DEF SortedInv, ResumeFrom, Last
  <2> QED BY <2>1, <2>2 DEF SortedInv, Sorted, ResumeFrom, Streaming
<1>2. CASE Subscribe(c) \/ DrainNothing(c) \/ GoOn(c) \/ Wake(c) \/ Tick(c)
  BY <1>2, NothingDelivered DEF Subscribe, DrainNothing, GoOn, Wake, Tick, Streaming
<1>3. CASE HangUp(c) \/ Close(c)
  BY <1>3, NothingDelivered DEF HangUp, Close, Leave, AfterLoss, Streaming
<1>4. CASE DrainBatch(c)
  <2>1. PICK r : r = EventsAfter(lastSeq[c])
    OBVIOUS
  <2>2. /\ at[c] \in Streaming /\ r # <<>>
        /\ got' = [got EXCEPT ![c] = got[c] \o r]
        /\ lastSeq' = [lastSeq EXCEPT ![c] = Last(r)]
        /\ at' = [at EXCEPT ![c] = IF Len(r) = Batch THEN "drain" ELSE "judge"]
        /\ UNCHANGED log
    BY <1>4, <2>1 DEF DrainBatch, Streaming
  <2>3. r \in Seq(Nat)
    <3>1. PICK last \in Nat : last = lastSeq[c]
      BY DEF SortedInv
    <3>2. r \in Seq(log) /\ log \subseteq Nat
      BY <2>1, <3>1, RowsInOrder DEF IInv, EmitType, SortedInv
    <3> QED BY <3>2, SeqOfNumbers
  <2>4. SubSeq(r, 1, Len(r)) = r /\ Len(r) \in 0..Len(r) /\ Len(r) > 0
    BY <2>2, <2>3
  <2>5. got[c] \o r \in Seq(Nat) /\ Ascending(got[c] \o r)
    BY <2>1, <2>2, <2>4, RowsContinue
  <2>6. PICK q \in Seq(Nat) : q = got[c]
    BY DEF SortedInv
  <2>7. q \o r # <<>> /\ Last(q \o r) = Last(r) /\ Last(r) \in Nat
    BY <2>3, <2>4 DEF Last
  <2>8. Sorted(c)'
    <3>1. got'[c] = q \o r /\ lastSeq'[c] = Last(r)
      BY <2>2, <2>6 DEF SortedInv
    <3> QED BY <2>5, <2>6, <2>7, <3>1 DEF Sorted, ResumeFrom
  <2>9. \A d \in Clients \ {c} : Sorted(d)'
    BY <2>2 DEF SortedInv, Sorted, ResumeFrom
  <2> QED BY <2>2, <2>5, <2>7, <2>8, <2>9 DEF SortedInv, Streaming
<1>5. CASE Break(c)
  <2>1. PICK r : r = EventsAfter(lastSeq[c])
    OBVIOUS
  <2>2. PICK n \in 0..Len(r) : got' = [got EXCEPT ![c] = got[c] \o SubSeq(r, 1, n)]
    BY <1>5, <2>1 DEF Break
  <2>3. PICK s \in {"off", "cut", "over"} : at' = [at EXCEPT ![c] = s]
    BY <1>5 DEF Break, Leave, AfterLoss
  <2>4. at[c] \in Streaming /\ UNCHANGED <<log, lastSeq>>
    BY <1>5 DEF Break, Streaming
  <2>5. got[c] \o SubSeq(r, 1, n) \in Seq(Nat) /\ Ascending(got[c] \o SubSeq(r, 1, n))
    BY <2>1, <2>4, RowsContinue
  <2>6. Sorted(c)'
    BY <2>2, <2>3, <2>4, <2>5 DEF SortedInv, Sorted, Streaming
  <2>7. \A d \in Clients \ {c} : Sorted(d)'
    BY <2>2, <2>3, <2>4 DEF SortedInv, Sorted, ResumeFrom
  <2> QED BY <2>2, <2>3, <2>4, <2>5, <2>6, <2>7 DEF SortedInv
<1> QED BY <1>1, <1>2, <1>3, <1>4, <1>5 DEF Stream

\* A client sees no event twice and sees them in order, over all its connections: a stream
\* resumes after the last number that arrived, and a row below it is never sent again.
THEOREM EventsInOrder == Spec => []InOrder
<1>1. Init => SortedInv
  <2> SUFFICES ASSUME Init PROVE SortedInv
    OBVIOUS
  <2>1. IsFiniteSet(log)
    BY FS_EmptySet DEF Init
  <2>2. \A c \in Clients : got[c] = <<>> /\ lastSeq[c] = 0 /\ at[c] = "off"
    BY DEF Init
  <2>3. \A c \in Clients : Sorted(c)
    <3> SUFFICES ASSUME NEW c \in Clients PROVE Sorted(c)
      OBVIOUS
    <3>1. <<>> \in Seq(Nat) /\ DOMAIN <<>> = 1..0
      OBVIOUS
    <3>2. Ascending(<<>>)
      BY <3>1 DEF Ascending
    <3>3. got[c] = <<>> /\ lastSeq[c] = 0 /\ at[c] \notin Streaming
      BY <2>2 DEF Streaming
    <3>4. Ascending(got[c])
      BY <3>2, <3>3
    <3>5. got[c] \in Seq(Nat)
      BY <3>1, <3>3
    <3> QED BY <3>3, <3>4, <3>5 DEF Sorted
  <2>4. got \in [Clients -> Seq(Nat)]
    <3>1. <<>> \in Seq(Nat)
      OBVIOUS
    <3> QED BY <3>1 DEF Init
  <2> QED BY <2>1, <2>3, <2>4 DEF Init, SortedInv, Streaming
<1>2. IInv /\ SortedInv /\ [Next]_vars => SortedInv'
  <2> SUFFICES ASSUME IInv, SortedInv, [Next]_vars PROVE SortedInv'
    OBVIOUS
  <2> USE DEF emitVars, streamVars, jobVars
  <2>0. ASSUME UNCHANGED <<at, lastSeq, got>>, IsFiniteSet(log') PROVE SortedInv'
    BY <2>0 DEF SortedInv, Sorted, ResumeFrom
  <2>1. ASSUME NEW p \in Emitters, Emit(p) PROVE SortedInv'
    <3>1. CASE Insert(p)
      <4>1. IsFiniteSet(log \union {number[p]})
        BY FS_AddElement DEF SortedInv
      <4> QED BY <2>0, <3>1, <4>1 DEF Insert
    <3>2. CASE TakeNumber(p) \/ InsertFails(p) \/ Notify(p)
      BY <2>0, <3>2 DEF TakeNumber, InsertFails, Notify, SortedInv
    <3> QED BY <2>1, <3>1, <3>2 DEF Emit
  <2>2. CASE Job \/ StopNotify \/ ReapStale \/ Rest \/ UNCHANGED vars
    BY <2>0, <2>2 DEF Job, ListPendingJobItems, WorkersDone, FinishJob, StopNotify, ReapStale,
                      Rest, vars, SortedInv
  <2>3. CASE Crash
    BY <2>3 DEF Crash, AfterLoss, SortedInv, Sorted, ResumeFrom, Streaming
  <2>4. CASE \E c \in Clients : Connect(c) \/ Stream(c) \/ Tick(c) \/ Break(c)
    BY <2>4, StreamSorted
  <2> QED BY <2>1, <2>2, <2>3, <2>4 DEF Next
<1>3. SortedInv => InOrder
  BY DEF SortedInv, Sorted, Ascending, InOrder
<1> QED BY <1>1, <1>2, <1>3, Numbering, PTL DEF Spec
=============================================================================
