-------------------------- MODULE CdcReaderProofs --------------------------
(***************************************************************************)
(* Proofs about CdcReader, for every set of streams, every offset, every   *)
(* set of safety intervals and every number of failures and sessions: a    *)
(* reader that is restarted skips nothing but what its predecessor left    *)
(* more than Offset behind the clock, and the readers of an index          *)
(* implement LogFeed.                                                      *)
(***************************************************************************)
EXTENDS CdcReader, TLAPS

-----------------------------------------------------------------------------
(* The inductive invariant.  OnlyLateLost is not inductive: a restart goes *)
(* back to start, or to the time at which the task ended when that has not *)
(* been taken over yet, so the time to go back to must be covered by what  *)
(* was delivered or is lost in every state of the actor and of its task.   *)

\* Before t every entry of s has come or is lost.
Covered(s, t) == high[s]..(t - 1) \subseteq lost[s]

ReaderTypes ==
    /\ now \in Nat /\ start \in Nat /\ ended \in Nat
    /\ pc \in {"select", "stopping", "creating", "finished"}
    /\ after \in {"select", "creating", "finished"}
    /\ handler \in {"none", "running", "ended"}
    /\ handler = "running" => safety \in SafetyIntervals
    /\ position \in [Streams -> Int]
    /\ high \in [Streams -> Int]
    /\ lost \in [Streams -> SUBSET Int]

\* No time that the actor has recorded is in the future or before the index.
TimesInv ==
    /\ Created <= start /\ start <= now
    /\ Created <= ended /\ ended <= now
    /\ \A s \in Streams : Created <= high[s] /\ high[s] <= now

\* The time the next reader starts at, whatever stops the present one first.
ResumeCovered ==
    /\ handler = "none" => \A s \in Streams : Covered(s, CdcStart)
    /\ handler = "ended" => \A s \in Streams : Covered(s, ended - Offset)

\* What is lost is before the time the next reader starts at, and before what
\* the present one reads.
LostBefore(t) == \A s \in Streams : \A x \in lost[s] : x < t
LostInv ==
    /\ handler = "ended" => LostBefore(ended - Offset)
    /\ handler # "ended" => LostBefore(start - Offset)
    /\ handler = "running" => \A s \in Streams : position[s] >= start - Offset

\* A reader is created only after stop() has waited for the task before it.
CreatingAlone == pc = "creating" => handler = "none"

ReaderInv ==
    /\ ReaderTypes
    /\ TimesInv
    /\ OnlyLateLost
    /\ ResumeCovered
    /\ LostInv
    /\ CreatingAlone

-----------------------------------------------------------------------------
\* The larger of two times is one of them and is below neither
\* (FiniteSetsExt's Max of a pair).
LEMMA MaxOfPair ==
    ASSUME NEW a \in Int, NEW b \in Int
    PROVE  /\ Max({a, b}) \in {a, b}
           /\ Max({a, b}) >= a /\ Max({a, b}) >= b
<1>1. \E x \in {a, b} : \A y \in {a, b} : x >= y
  <2>1. CASE a >= b
    BY <2>1
  <2>2. CASE b >= a
    BY <2>2
  <2> QED
    BY <2>1, <2>2
<1> QED
  BY <1>1 DEF Max

\* What Poll delivers: either the entry was delivered before, or it is the
\* next one of its stream that is not lost.
LEMMA PollDelivers ==
    ASSUME ReaderInv, CdcReaderAssumption, NEW s \in Streams, Poll(s)
    PROVE  \/ high' = high /\ position[s] + 1 <= high[s]
           \/ /\ position[s] \in high[s]..(now - 1)
              /\ position[s] \notin lost[s] /\ Covered(s, position[s])
              /\ high' = [high EXCEPT ![s] = position[s] + 1]
<1> DEFINE top == Max({high[s], position[s] + 1})
<1>1. /\ position[s] \in Int /\ high[s] \in Int /\ safety \in Nat /\ now \in Nat
      /\ position[s] + safety < now
  BY DEF ReaderInv, ReaderTypes, Poll, CdcReaderAssumption
<1>2. high' = [high EXCEPT ![s] = top]
  BY DEF Poll
<1>3. top \in {high[s], position[s] + 1} /\ top >= high[s] /\ top >= position[s] + 1
  <2>1. position[s] + 1 \in Int
    BY <1>1
  <2> QED
    BY <1>1, <2>1, MaxOfPair, Zenon
<1>4. (top = high[s] /\ position[s] + 1 <= high[s]) \/ (top = position[s] + 1 /\ high[s] <= position[s])
  <2> HIDE DEF top
  <2> QED
    BY <1>1, <1>3
<1>5. CASE top = high[s] /\ position[s] + 1 <= high[s]
  BY <1>2, <1>5 DEF ReaderInv, ReaderTypes
<1>6. CASE top = position[s] + 1 /\ high[s] <= position[s]
  <2>1. handler = "running"
    BY DEF Poll
  <2>2. Covered(s, position[s])
    BY <2>1 DEF ReaderInv, OnlyLateLost, Covered
  <2>3. position[s] \notin lost[s]
    <3>1. position[s] >= start - Offset /\ \A x \in lost[s] : x < start - Offset
      BY <2>1 DEF ReaderInv, LostInv, LostBefore
    <3>2. start - Offset \in Int
      BY DEF ReaderInv, ReaderTypes, CdcReaderAssumption
    <3> QED
      BY <1>1, <3>1, <3>2
  <2>4. position[s] \in high[s]..(now - 1)
    BY <1>1, <1>6
  <2> QED
    BY <1>2, <1>6, <2>2, <2>3, <2>4
<1> QED
  BY <1>4, <1>5, <1>6

\* The initial state satisfies the invariant.
LEMMA InitReaderInv ==
    ASSUME CdcReaderAssumption, Init
    PROVE  ReaderInv
BY DEF CdcReaderAssumption, Init, Created, ReaderInv, ReaderTypes, TimesInv, OnlyLateLost,
       ResumeCovered, Covered, LostInv, LostBefore, CreatingAlone, CdcStart

\* A reader that delivers an entry.
LEMMA PollInv ==
    ASSUME CdcReaderAssumption, ReaderInv, NEW s \in Streams, Poll(s)
    PROVE  ReaderInv'
<1>0. Offset \in Nat /\ Created = Offset /\ SafetyIntervals \subseteq Nat
  BY DEF CdcReaderAssumption, Created
<1>1. /\ position \in [Streams -> Int] /\ high \in [Streams -> Int] /\ now \in Nat /\ start \in Nat
      /\ position' = [position EXCEPT ![s] = @ + 1]
      /\ handler = "running" /\ safety \in Nat /\ position[s] + safety < now
      /\ UNCHANGED <<now, start, ended, pc, after, handler, safety, lost>>
  BY <1>0 DEF ReaderInv, ReaderTypes, Poll, env
<1>2. /\ high' \in [Streams -> Int]
      /\ \A t \in Streams : high[t] <= high'[t] /\ high'[t] <= now
      /\ \A t \in Streams : t # s => high'[t] = high[t]
      /\ high'[s] >= position[s] + 1
  <2>1. \A t \in Streams : high[t] <= now
    BY DEF ReaderInv, TimesInv
  <2>2. CASE high' = high /\ position[s] + 1 <= high[s]
    BY <1>1, <2>1, <2>2
  <2>3. CASE position[s] \in high[s]..(now - 1) /\ high' = [high EXCEPT ![s] = position[s] + 1]
    BY <1>1, <2>1, <2>3
  <2> QED
    BY <2>2, <2>3, PollDelivers
<1>3. ReaderTypes' /\ TimesInv'
  <2>1. position' \in [Streams -> Int]
    BY <1>1
  <2>2. ReaderTypes'
    BY <1>1, <1>2, <2>1 DEF ReaderInv, ReaderTypes
  <2>3. ASSUME NEW t \in Streams
        PROVE  Created <= high'[t]
    <3>1. Created <= high[t] /\ high[t] <= high'[t] /\ high[t] \in Int /\ high'[t] \in Int
      BY <1>1, <1>2 DEF ReaderInv, TimesInv
    <3> QED
      BY <1>0, <3>1
  <2> QED
    BY <1>1, <1>2, <2>2, <2>3 DEF ReaderInv, TimesInv
<1>4. OnlyLateLost'
  <2> SUFFICES ASSUME NEW t \in Streams
               PROVE  high'[t]..(position'[t] - 1) \subseteq lost[t]
    BY <1>1 DEF OnlyLateLost
  <2>1. CASE t = s
    <3>1. position'[s] = position[s] + 1 /\ position[s] \in Int /\ high'[s] \in Int
      BY <1>1, <1>2
    <3>2. high'[s]..(position'[s] - 1) = {}
      BY <1>2, <3>1
    <3> QED
      BY <2>1, <3>2
  <2>2. CASE t # s
    BY <1>1, <1>2, <2>2 DEF ReaderInv, OnlyLateLost
  <2> QED
    BY <2>1, <2>2
<1>5. LostInv'
  <2>1. LostBefore(start - Offset)
    BY <1>1 DEF ReaderInv, LostInv
  <2>2. \A t \in Streams : position'[t] >= start - Offset
    BY <1>0, <1>1 DEF ReaderInv, LostInv
  <2> QED
    BY <1>1, <2>1, <2>2 DEF LostInv, LostBefore
<1> QED
  BY <1>1, <1>3, <1>4, <1>5 DEF ReaderInv, ResumeCovered, CreatingAlone

\* The task ends: what it leaves behind the offset is lost from now on.
LEMMA EndHandlerInv ==
    ASSUME CdcReaderAssumption, ReaderInv, EndHandler
    PROVE  ReaderInv'
<1>0. Offset \in Nat /\ Created = Offset
  BY DEF CdcReaderAssumption, Created
<1>1. /\ now \in Nat /\ start \in Nat /\ high \in [Streams -> Int] /\ lost \in [Streams -> SUBSET Int]
      /\ handler = "running" /\ handler' = "ended" /\ ended' = now
      /\ lost' = [s \in Streams |-> lost[s] \cup high[s]..(now - Offset - 1)]
      /\ UNCHANGED <<now, start, pc, after, position, safety, high>>
  BY DEF ReaderInv, ReaderTypes, EndHandler, env
<1>2. lost' \in [Streams -> SUBSET Int]
  BY <1>0, <1>1
<1>3. ReaderTypes' /\ TimesInv'
  <2>1. ReaderTypes'
    BY <1>1, <1>2 DEF ReaderInv, ReaderTypes
  <2>2. Created <= now
    BY <1>0, <1>1 DEF ReaderInv, TimesInv
  <2> QED
    BY <1>1, <2>1, <2>2 DEF ReaderInv, TimesInv
<1>4. ResumeCovered'
  BY <1>1 DEF ResumeCovered, Covered
<1>5. LostInv'
  <2> SUFFICES ASSUME NEW s \in Streams, NEW x \in lost'[s]
               PROVE  x < now - Offset
    BY <1>1 DEF LostInv, LostBefore
  <2>1. CASE x \in lost[s]
    <3>1. x < start - Offset /\ start <= now /\ x \in Int
      BY <1>1, <2>1 DEF ReaderInv, LostInv, LostBefore, TimesInv
    <3> QED
      BY <1>0, <1>1, <3>1
  <2>2. CASE x \in high[s]..(now - Offset - 1)
    BY <1>0, <1>1, <2>2
  <2> QED
    BY <1>1, <2>1, <2>2
<1> QED
  BY <1>1, <1>3, <1>4, <1>5 DEF ReaderInv, OnlyLateLost, CreatingAlone

\* A reader that is created goes back to where the last one has to be
\* covered.
LEMMA CreateReaderInv ==
    ASSUME CdcReaderAssumption, ReaderInv, CreateReader
    PROVE  ReaderInv'
<1>0. Offset \in Nat
  BY DEF CdcReaderAssumption
<1>1. /\ handler = "none" /\ handler' = "running" /\ pc' = "select"
      /\ position' = [s \in Streams |-> start - Offset] /\ safety' \in SafetyIntervals
      /\ UNCHANGED <<now, start, after, ended, high, lost>>
  BY DEF ReaderInv, CreatingAlone, CreateReader, LogReader, ReaderParams, CdcStart, env
<1>2. position' \in [Streams -> Int]
  BY <1>0, <1>1 DEF ReaderInv, ReaderTypes
<1>3. ReaderTypes' /\ TimesInv'
  BY <1>1, <1>2 DEF ReaderInv, ReaderTypes, TimesInv
<1>4. OnlyLateLost'
  BY <1>1 DEF ReaderInv, ResumeCovered, Covered, CdcStart, OnlyLateLost
<1>5. LostInv'
  <2>1. \A s \in Streams : position'[s] = start - Offset /\ start - Offset \in Int
    BY <1>0, <1>1 DEF ReaderInv, ReaderTypes
  <2> QED
    BY <1>1, <2>1 DEF ReaderInv, LostInv, LostBefore
<1> QED
  BY <1>1, <1>3, <1>4, <1>5 DEF ReaderInv, ResumeCovered, CreatingAlone

\* stop() takes over where the task has ended.
LEMMA FinishStopInv ==
    ASSUME CdcReaderAssumption, ReaderInv, FinishStop
    PROVE  ReaderInv'
<1>1. /\ handler \in {"none", "ended"} /\ handler' = "none" /\ pc' = after
      /\ start' = (IF handler = "ended" THEN ended ELSE start)
      /\ UNCHANGED <<now, after, ended, position, safety, high, lost>>
  BY DEF ReaderInv, ReaderTypes, FinishStop, StartAfter, env
<1>2. ReaderTypes' /\ TimesInv'
  BY <1>1 DEF ReaderInv, ReaderTypes, TimesInv
<1>3. ResumeCovered' /\ LostInv'
  BY <1>1 DEF ReaderInv, ResumeCovered, Covered, CdcStart, LostInv, LostBefore
<1> QED
  BY <1>1, <1>2, <1>3 DEF ReaderInv, OnlyLateLost, CreatingAlone

\* Every step preserves the invariant.
LEMMA StepReaderInv ==
    ASSUME CdcReaderAssumption, ReaderInv, [Next]_vars
    PROVE  ReaderInv'
<1> USE DEF ReaderInv, ReaderTypes, TimesInv, OnlyLateLost, ResumeCovered, Covered, LostInv,
            LostBefore, CreatingAlone, CdcStart
<1>1. CASE Tick
  BY <1>1 DEF Tick, task, gauges
<1>2. CASE ChangeSession
  BY <1>2 DEF ChangeSession, task, gauges
<1>3. CASE DropIndex
  BY <1>3 DEF DropIndex, task, gauges
<1>4. CASE HandleSessionChange
  BY <1>4 DEF HandleSessionChange, Stop, env, task, gauges
<1>5. CASE HandleError
  BY <1>5 DEF HandleError, env, task
<1>6. CASE RestartAfterBackoff
  BY <1>6 DEF RestartAfterBackoff, Stop, env, task
<1>7. CASE LeaveLoop
  BY <1>7 DEF LeaveLoop, Stop, env, task, gauges
<1>8. CASE FailToCreateReader
  BY <1>8 DEF FailToCreateReader, ConsumerFactoryFails, env, task
<1>9. CASE UNCHANGED vars
  BY <1>9 DEF vars
<1> HIDE DEF ReaderInv
<1> QED
  BY <1>1, <1>2, <1>3, <1>4, <1>5, <1>6, <1>7, <1>8, <1>9, PollInv, EndHandlerInv, CreateReaderInv,
     FinishStopInv DEF Next, Actor, FailHandler, ShutdownHandler

-----------------------------------------------------------------------------
\* For every set of streams, offset and number of failures and sessions: a
\* reader that CdcReaderState::restart creates skips an entry that was never
\* delivered only if the reader before it ended when the entry was more than
\* CHECKPOINT_TIMESTAMP_OFFSET old.
THEOREM NoEntryLost == Spec => []OnlyLateLost
<1>1. Init => ReaderInv
  BY CdcReaderAssumption, InitReaderInv
<1>2. ReaderInv /\ [Next]_vars => ReaderInv'
  BY CdcReaderAssumption, StepReaderInv
<1>3. ReaderInv => OnlyLateLost
  BY DEF ReaderInv
<1> QED
  BY <1>1, <1>2, <1>3, PTL DEF Spec

\* Every step of the readers is a step of LogFeed or leaves what the index
\* was fed alone: the next entry of one stream comes, a reader ends, or time
\* goes on.
LEMMA StepFeeds ==
    ASSUME CdcReaderAssumption, ReaderInv, [Next]_vars
    PROVE  [Feed!Next]_(Feed!vars)
<1>1. CASE Tick
  BY <1>1 DEF Tick, task, Feed!Next, Feed!Tick
<1>2. ASSUME NEW s \in Streams, Poll(s)
      PROVE  [Feed!Next]_(Feed!vars)
  <2>1. now' = now /\ lost' = lost
    BY <1>2 DEF Poll, env
  <2>2. CASE high' = high
    BY <2>1, <2>2 DEF Feed!vars
  <2>3. CASE /\ position[s] \in high[s]..(now - 1)
             /\ position[s] \notin lost[s] /\ Covered(s, position[s])
             /\ high' = [high EXCEPT ![s] = position[s] + 1]
    BY <2>1, <2>3 DEF Covered, Feed!Next, Feed!Deliver
  <2> QED
    BY <1>2, <2>2, <2>3, PollDelivers
<1>3. CASE ChangeSession \/ DropIndex
  BY <1>3 DEF ChangeSession, DropIndex, task, Feed!vars
<1>4. CASE FailHandler \/ ShutdownHandler
  BY <1>4 DEF FailHandler, ShutdownHandler, EndHandler, env, Feed!Next, Feed!Interrupt
<1>5. CASE Actor
  BY <1>5 DEF Actor, HandleSessionChange, HandleError, RestartAfterBackoff, LeaveLoop,
              FinishStop, CreateReader, FailToCreateReader, env, task, Feed!vars
<1>6. CASE UNCHANGED vars
  BY <1>6 DEF vars, Feed!vars
<1> QED
  BY <1>1, <1>2, <1>3, <1>4, <1>5, <1>6 DEF Next

\* The readers of an index, with all their failures and restarts, implement
\* the promise of LogFeed: the entries of every stream come in its order, and
\* nothing is left out but what was late when a reader ended.
THEOREM ReadersImplementFeed == Spec => ImplementsFeed
<1>1. Init => ReaderInv
  BY CdcReaderAssumption, InitReaderInv
<1>2. ReaderInv /\ [Next]_vars => ReaderInv'
  BY CdcReaderAssumption, StepReaderInv
<1>3. Init => Feed!Init
  BY DEF Init, Feed!Init
<1>4. ReaderInv /\ [Next]_vars => [Feed!Next]_(Feed!vars)
  BY CdcReaderAssumption, StepFeeds
<1> QED
  BY <1>1, <1>2, <1>3, <1>4, PTL DEF Spec, ImplementsFeed, Feed!Spec
=============================================================================
