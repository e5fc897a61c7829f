----------------------- MODULE InterruptControlProofs -----------------------
(***************************************************************************)
(* Proofs about the interrupts and traps of InterruptControl, for all      *)
(* interrupts, priorities, vectors, soft traps, levels that software       *)
(* writes, nesting depths and DISI intervals, with resets and failing      *)
(* advances in every window:                                               *)
(*   InterruptsTyped     TypeOK, with the parity of the stack              *)
(*   RequestedFlagWaits  FlagDeferred, from where a flag that software     *)
(*                       raised can be between two instructions            *)
(*   HandlersNest        NestingOrdered                                    *)
(*   UsersAlone          OneUserInterrupt                                  *)
(*   SourcesPend         LevelSourceKept                                   *)
(* The first two hold without a hypothesis.  The others state theirs; each *)
(* excludes a case in which the program does not keep the property.        *)
(***************************************************************************)
EXTENDS InterruptControl, FiniteSetTheorems, SequenceTheorems, TLAPS
-----------------------------------------------------------------------------
\* The bounds of the numbers the model computes with Min and Max.
LEMMA MinBounds == \A a, b \in Int : Min({a, b}) \in {a, b} /\ Min({a, b}) <= a
BY DEF Min

LEMMA MaxBounds == \A a, b \in Int : /\ Max({a, b}) \in {a, b}
                                     /\ Max({a, b}) >= a /\ Max({a, b}) >= b
BY DEF Max

\* The table of traps has room for finitely many kinds.
LEMMA TrapsFinite == IsFiniteSet(SoftTrap) /\ IsFiniteSet(Traps)
<1>1. IsFiniteSet({"oscillator", "hard", "stack", "math"} \union {"soft"})
  <2>1. IsFiniteSet({} \union {"oscillator"})
    BY FS_EmptySet, FS_AddElement
  <2>2. IsFiniteSet(({} \union {"oscillator"}) \union {"hard"})
    BY <2>1, FS_AddElement
  <2>3. IsFiniteSet((({} \union {"oscillator"}) \union {"hard"}) \union {"stack"})
    BY <2>2, FS_AddElement
  <2>4. IsFiniteSet(((({} \union {"oscillator"}) \union {"hard"}) \union {"stack"})
                      \union {"math"})
    BY <2>3, FS_AddElement
  <2>5. ((({} \union {"oscillator"}) \union {"hard"}) \union {"stack"}) \union {"math"}
          = {"oscillator", "hard", "stack", "math"}
    OBVIOUS
  <2> QED BY <2>4, <2>5, FS_AddElement
<1>2. SoftTrap = {"oscillator", "hard", "stack", "math"} \union {"soft"}
  BY DEF SoftTrap
<1> QED BY <1>1, <1>2, FS_Subset, InterruptAssumption DEF InterruptAssumption

LEMMA TrapTables ==
    \A t \in SoftTrap : TrapPriority[t] \in 9 .. 15 /\ TrapDelay[t] \in 0 .. 2
BY DEF SoftTrap, TrapPriority, TrapDelay

\* What cpu->pending_soft_traps holds, and what its operations keep of it.
PendingTyped(p) == /\ DOMAIN p \subseteq Traps
                   /\ \A t \in DOMAIN p : p[t] \in 0 .. 2
                   /\ Cardinality(DOMAIN p) <= SoftTrapSlots

LEMMA ScheduleTyped ==
  ASSUME NEW p, PendingTyped(p), NEW t \in Traps
  PROVE  PendingTyped(schedule_soft_trap(p, t))
<1> DEFINE q == schedule_soft_trap(p, t)
<1>1. t \in SoftTrap /\ TrapDelay[t] \in 0 .. 2 /\ IsFiniteSet(DOMAIN p)
  BY TrapTables, TrapsFinite, FS_Subset, InterruptAssumption
  DEF InterruptAssumption, PendingTyped
<1>2. CASE t \in DOMAIN p
  <2>1. q = [u \in DOMAIN p |-> IF u = t THEN Min({p[u], TrapDelay[t]}) ELSE p[u]]
    BY <1>2 DEF schedule_soft_trap
  <2>2. Min({p[t], TrapDelay[t]}) \in 0 .. 2
    <3>1. p[t] \in 0 .. 2 /\ p[t] \in Int /\ TrapDelay[t] \in Int
      BY <1>1, <1>2 DEF PendingTyped
    <3>2. Min({p[t], TrapDelay[t]}) \in {p[t], TrapDelay[t]}
      BY <3>1, MinBounds
    <3> QED BY <3>1, <3>2, <1>1
  <2> QED BY <2>1, <2>2 DEF PendingTyped
<1>3. CASE t \notin DOMAIN p /\ Cardinality(DOMAIN p) < SoftTrapSlots
  <2>1. q = [u \in DOMAIN p \union {t} |-> IF u = t THEN TrapDelay[t] ELSE p[u]]
    BY <1>3 DEF schedule_soft_trap
  <2>2. Cardinality(DOMAIN p \union {t}) = Cardinality(DOMAIN p) + 1
        /\ Cardinality(DOMAIN p) \in Nat
    BY <1>1, <1>3, FS_AddElement, FS_CardinalityType
  <2>3. Cardinality(DOMAIN p \union {t}) <= SoftTrapSlots
    BY <2>2, <1>3, InterruptAssumption DEF InterruptAssumption
  <2> QED BY <2>1, <2>3, <1>1 DEF PendingTyped
<1>4. CASE t \notin DOMAIN p /\ ~(Cardinality(DOMAIN p) < SoftTrapSlots)
  BY <1>4 DEF schedule_soft_trap
<1> QED BY <1>2, <1>3, <1>4

LEMMA WithoutTyped ==
  ASSUME NEW p, PendingTyped(p), NEW t
  PROVE  PendingTyped(Without(p, t))
<1>1. Cardinality(DOMAIN p \ {t}) <= Cardinality(DOMAIN p)
      /\ Cardinality(DOMAIN p) \in Nat /\ Cardinality(DOMAIN p \ {t}) \in Nat
  BY TrapsFinite, FS_Subset, FS_CardinalityType DEF PendingTyped
<1> QED BY <1>1, InterruptAssumption DEF PendingTyped, Without, InterruptAssumption

LEMMA AdvanceTyped ==
  ASSUME NEW p, PendingTyped(p), NEW c \in Nat
  PROVE  PendingTyped(advance_pending_soft_traps(p, c))
<1>1. \A t \in DOMAIN p : Max({0, p[t] - c}) \in 0 .. 2
  <2> TAKE t \in DOMAIN p
  <2>1. p[t] \in 0 .. 2 /\ 0 \in Int /\ p[t] - c \in Int
    BY DEF PendingTyped
  <2>2. /\ Max({0, p[t] - c}) \in {0, p[t] - c}
        /\ Max({0, p[t] - c}) >= 0
    BY <2>1, MaxBounds
  <2> QED BY <2>1, <2>2
<1> QED BY <1>1 DEF PendingTyped, advance_pending_soft_traps

LEMMA AfterServiceTyped ==
  ASSUME NEW p, PendingTyped(p), NEW t
  PROVE  PendingTyped(AfterService(p, t))
BY WithoutTyped DEF AfterService

LEMMA CheckStackTyped ==
  ASSUME NEW p, PendingTyped(p), NEW q \in CheckStack(p)
  PROVE  PendingTyped(q)
<1>1. q = p \/ ("stack" \in Traps /\ q = schedule_soft_trap(p, "stack"))
  BY DEF CheckStack
<1> QED BY <1>1, ScheduleTyped
-----------------------------------------------------------------------------
(***************************************************************************)
(* Types.  TypeOK needs the parity of the stack, which RETFIE pops in      *)
(* pairs, and that an entry under way has an interrupt.                    *)
(***************************************************************************)
PhaseTyped == /\ phase \in {"boundary", "entry", "entry_low", "execute", "power_save",
                            "retire", "retired", "failed"}
              /\ power \in {"active", "saving"}
              /\ wait \in BOOLEAN /\ fresh \subseteq Irq

RequestTyped == /\ flags \subseteq Irq /\ enabled \subseteq Irq
                /\ deferred \subseteq Irq /\ deferred_next \subseteq Irq

MaskTyped == /\ gie \in BOOLEAN /\ gie_deferred \in BOOLEAN
             /\ gie_deferred_next \in BOOLEAN
             /\ nstdis \in BOOLEAN /\ disicnt \in 0 .. MaxDisi

ContextTyped == /\ ipl \in 0 .. 7 /\ ipl3 \in BOOLEAN
                /\ running \in Activation
                /\ stack \in Seq(Word)

EntryTyped == /\ entry.irq \in Irq \union {-1} /\ entry.high \in Word
              /\ entry.then \in {"boundary", "execute"}
              /\ phase \in {"entry", "entry_low"} => entry.irq \in Irq

TrapsTyped == PendingTyped(pending) /\ sources \subseteq Traps

StackParity == phase # "failed" => Len(stack) % 2 = IF phase = "entry_low" THEN 1 ELSE 0

TypeInv == /\ PhaseTyped /\ RequestTyped /\ MaskTyped /\ ContextTyped
           /\ EntryTyped /\ TrapsTyped /\ StackParity

LEMMA TypeInvTypes == TypeInv => TypeOK
BY DEF TypeInv, PhaseTyped, RequestTyped, MaskTyped, ContextTyped, EntryTyped,
       TrapsTyped, PendingTyped, TypeOK

LEMMA LevelTyped ==
  ASSUME ContextTyped
  PROVE  /\ level \in 0 .. 15 /\ interrupt_depth \in Nat
         /\ LowWord \in Word /\ HighWord \in Word
         /\ ~ipl3 => level = ipl
         /\ ipl3 => level >= 8
<1>1. level \in 0 .. 15 /\ (~ipl3 => level = ipl) /\ (ipl3 => level >= 8)
  BY DEF ContextTyped, level, Level
<1>2. interrupt_depth \in Nat
  BY DEF ContextTyped, interrupt_depth, Activation
<1>3. LowWord \in Word /\ HighWord \in Word
  BY <1>1 DEF ContextTyped, LowWord, HighWord, Word
<1> QED BY <1>1, <1>2, <1>3

\* The initial state and the state after a warm reset.
LEMMA InitTyped == Init => TypeInv
<1> SUFFICES ASSUME Init PROVE TypeInv
  OBVIOUS
<1>1. Main \in Activation
  BY DEF Main, Activation
<1>2. [half |-> "high", of |-> Main, level |-> 0] \in Word
  BY <1>1 DEF Word
<1>3. PhaseTyped /\ RequestTyped /\ StackParity
  <2>1. PhaseTyped /\ RequestTyped
    BY DEF Init, PhaseTyped, RequestTyped
  <2>2. Len(stack) = 0 /\ phase # "entry_low"
    BY DEF Init
  <2> QED BY <2>1, <2>2 DEF StackParity
<1>4. MaskTyped /\ ContextTyped
  <2>1. MaskTyped
    <3>1. 0 \in 0 .. MaxDisi
      BY InterruptAssumption DEF InterruptAssumption
    <3>2. disicnt \in 0 .. MaxDisi
      BY <3>1 DEF Init
    <3> QED BY <3>2 DEF Init, MaskTyped
  <2>2. stack \in Seq(Word)
    BY DEF Init
  <2>3. ipl \in 0 .. 7
    BY DEF Init
  <2>4. ipl3 \in BOOLEAN
    BY DEF Init
  <2>5. running \in Activation
    BY <1>1, Zenon DEF Init
  <2> QED BY <2>1, <2>2, <2>3, <2>4, <2>5 DEF ContextTyped
<1>5. EntryTyped
  <2>1. /\ NoEntry.irq = -1 /\ NoEntry.then = "boundary"
        /\ NoEntry.high = [half |-> "high", of |-> Main, level |-> 0]
    BY DEF NoEntry
  <2> QED BY <1>2, <2>1 DEF Init, EntryTyped
<1>6. TrapsTyped
  <2>1. DOMAIN pending = {}
    BY DEF Init
  <2> QED BY <2>1, FS_EmptySet, InterruptAssumption
          DEF Init, TrapsTyped, PendingTyped, InterruptAssumption
<1> QED BY <1>3, <1>4, <1>5, <1>6 DEF TypeInv

LEMMA WarmResetInit == WarmReset => Init'
BY DEF WarmReset, Init

LEMMA WarmResetTyped == WarmReset => TypeInv'
<1>1. Init' => TypeInv'
  BY InitTyped, PTL
<1> QED BY <1>1, WarmResetInit

LEMMA TurnOverTyped ==
  ASSUME RequestTyped, MaskTyped, NEW w \in BOOLEAN, NEW c \in Nat, TurnOver(w, c)
  PROVE  RequestTyped' /\ MaskTyped'
<1>1. RequestTyped'
  BY DEF RequestTyped, TurnOver, Deferred
<1>2. disicnt' \in 0 .. MaxDisi
  <2>1. disicnt \in Int /\ 0 \in Int /\ disicnt - c \in Int
    BY DEF MaskTyped
  <2>2. /\ disicnt' \in {0, disicnt - c}
        /\ disicnt' >= 0
    BY <2>1, MaxBounds DEF TurnOver
  <2> QED BY <2>2, InterruptAssumption DEF MaskTyped, InterruptAssumption
<1>3. gie_deferred' \in BOOLEAN
  BY Zenon DEF TurnOver
<1>4. MaskTyped'
  BY <1>2, <1>3 DEF MaskTyped, TurnOver
<1> QED BY <1>1, <1>4

\* dspic33_internal_enter_trap pushes one frame of the running activation.
LEMMA PushTyped ==
  ASSUME ContextTyped, NEW k \in {"trap", "dma"}, NEW pr \in 0 .. 15, PushTrap(k, pr)
  PROVE  /\ ContextTyped'
         /\ Len(stack') = Len(stack) + 2
         /\ \A i \in 1 .. Len(stack) : stack'[i] = stack[i]
         /\ stack'[Len(stack) + 1] = LowWord /\ stack'[Len(stack) + 2] = HighWord
         /\ running'.kind = k /\ running'.depth = interrupt_depth + 1
         /\ running'.level = pr
         /\ level' = pr /\ (ipl3' <=> pr > 7)
<1>1. stack \in Seq(Word) /\ LowWord \in Word /\ HighWord \in Word
  BY LevelTyped DEF ContextTyped
<1>2. stack' = stack \o <<LowWord, HighWord>>
  BY DEF PushTrap, TrapFrame
<1>3. /\ stack' \in Seq(Word) /\ Len(stack') = Len(stack) + 2
      /\ \A i \in 1 .. Len(stack) : stack'[i] = stack[i]
      /\ stack'[Len(stack) + 1] = LowWord /\ stack'[Len(stack) + 2] = HighWord
  <2> HIDE DEF LowWord, HighWord
  <2> QED BY <1>1, <1>2
<1>4. ipl' = pr % 8 /\ (ipl3' <=> pr > 7) /\ ipl3' \in BOOLEAN
  <2>1. ipl' = pr % 8 /\ ipl3' = (pr > 7)
    BY DEF PushTrap
  <2>2. (pr > 7) \in BOOLEAN
    OBVIOUS
  <2>3. (ipl3' <=> pr > 7) /\ ipl3' \in BOOLEAN
    BY <2>1, <2>2, Zenon
  <2> QED BY <2>1, <2>3
<1>5. ipl' \in 0 .. 7 /\ level' = pr
  BY <1>4 DEF level, Level
<1>6. running' = [kind |-> k, depth |-> interrupt_depth + 1, level |-> pr,
                  alone |-> FALSE]
  BY DEF PushTrap
<1>7. running' \in Activation
  BY <1>6, LevelTyped DEF Activation
<1> QED BY <1>3, <1>4, <1>5, <1>6, <1>7 DEF ContextTyped

\* dspic33_internal_service_pending_soft_trap enters one trap, above the level.
LEMMA SoftTrapPushed ==
  ASSUME ContextTyped, NEW p, PendingTyped(p), PushSoftTrap(p)
  PROVE  \E t \in DOMAIN p : /\ level < TrapPriority[t]
                             /\ TrapPriority[t] \in 9 .. 15
                             /\ PushTrap("trap", TrapPriority[t])
                             /\ pending' \in CheckStack(AfterService(p, t))
<1>1. PICK t \in Serviceable(p, level) : /\ PushTrap("trap", TrapPriority[t])
                                         /\ pending' \in CheckStack(AfterService(p, t))
  BY DEF PushSoftTrap
<1>2. t \in DOMAIN p /\ level < TrapPriority[t]
  <2>1. t \in DOMAIN p /\ TrapPriority[t] > level
    BY DEF Serviceable, Ripe
  <2>2. t \in SoftTrap
    BY <2>1, InterruptAssumption DEF PendingTyped, InterruptAssumption
  <2>3. level \in Int /\ TrapPriority[t] \in Int
    BY <2>2, LevelTyped, TrapTables
  <2> QED BY <2>1, <2>3
<1>3. TrapPriority[t] \in 9 .. 15
  BY <1>2, TrapTables, InterruptAssumption DEF PendingTyped, InterruptAssumption
<1> QED BY <1>1, <1>2, <1>3
\* The level of a status word, in IPL and IPL3.
LEMMA LevelSplit ==
  ASSUME NEW l \in 0 .. 15
  PROVE  l % 8 \in 0 .. 7 /\ l = Level(l % 8, l > 7)
BY DEF Level

\* RETFIE pops the words of one frame.
LEMMA FramePopped ==
  ASSUME ContextTyped, StackParity, Retfie
  PROVE  /\ ContextTyped'
         /\ Len(stack) \in Nat /\ Len(stack) >= 2 /\ Len(stack) % 2 = 0
         /\ Len(stack') = Len(stack) - 2
         /\ \A i \in 1 .. Len(stack) - 2 : stack'[i] = stack[i]
         /\ running' = stack[Len(stack) - 1].of
         /\ level' = stack[Len(stack)].level
<1> DEFINE n == Len(stack)
           high == stack[n]
<1>1. stack \in Seq(Word) /\ n \in Nat /\ n # 0 /\ n % 2 = 0
  BY DEF ContextTyped, StackParity, Retfie, Executes
<1>2. n >= 2
  BY <1>1
<1>3. Last(stack) = high /\ high \in Word /\ stack[n - 1] \in Word
  BY <1>1, <1>2 DEF Last
<1>4. /\ stack' = SubSeq(stack, 1, n - 2)
      /\ running' = stack[n - 1].of
      /\ ipl' = high.level % 8
      /\ ipl3' = (high.level > 7)
  BY <1>3 DEF Retfie
<1>5. /\ stack' \in Seq(Word) /\ Len(stack') = n - 2
      /\ \A i \in 1 .. n - 2 : stack'[i] = stack[i]
  <2>1. \A i \in 1 .. n - 2 : stack[i] \in Word
    BY <1>1
  <2>2. /\ SubSeq(stack, 1, n - 2) \in Seq(Word)
        /\ Len(SubSeq(stack, 1, n - 2)) = IF 1 <= n - 2 THEN n - 2 - 1 + 1 ELSE 0
        /\ \A i \in 1 .. n - 2 - 1 + 1 : SubSeq(stack, 1, n - 2)[i] = stack[1 + i - 1]
    BY <2>1, <1>1, SubSeqProperties
  <2>3. Len(stack') = n - 2
    <3>1. Len(stack') = IF 1 <= n - 2 THEN n - 2 - 1 + 1 ELSE 0
      BY <1>4, <2>2
    <3> HIDE DEF n
    <3> QED BY <1>1, <1>2, <3>1
  <2>4. ASSUME NEW i \in 1 .. n - 2 PROVE stack'[i] = stack[i]
    <3>1. i \in 1 .. n - 2 - 1 + 1 /\ 1 + i - 1 = i
      BY <1>1
    <3> QED BY <1>4, <2>2, <3>1
  <2> QED BY <1>4, <2>2, <2>3, <2>4
<1>6. high.level \in 0 .. 15 /\ running' \in Activation
  BY <1>3, <1>4 DEF Word
<1>7. (ipl3' <=> high.level > 7) /\ ipl3' \in BOOLEAN
  <2>1. (high.level > 7) \in BOOLEAN
    OBVIOUS
  <2> QED BY <1>4, <2>1, Zenon
<1>8. ipl' \in 0 .. 7 /\ level' = high.level
  <2> HIDE DEF high
  <2>1. high.level % 8 \in 0 .. 7 /\ high.level = Level(high.level % 8, high.level > 7)
    BY <1>6, LevelSplit
  <2>2. level' = Level(ipl', ipl3')
    BY DEF level
  <2>3. ipl3' = (high.level > 7)
    BY <1>4
  <2> QED BY <1>4, <2>1, <2>2, <2>3
<1> QED BY <1>1, <1>2, <1>4, <1>5, <1>6, <1>7, <1>8 DEF ContextTyped

LEMMA Kept ==
  /\ RequestTyped /\ UNCHANGED request => RequestTyped'
  /\ MaskTyped /\ UNCHANGED mask => MaskTyped'
  /\ ContextTyped /\ UNCHANGED context => ContextTyped' /\ Len(stack') = Len(stack)
  /\ TrapsTyped /\ UNCHANGED traps => TrapsTyped'
  /\ TrapsTyped /\ UNCHANGED pending => PendingTyped(pending')
  /\ TrapsTyped /\ pending' \in CheckStack(pending) /\ UNCHANGED sources => TrapsTyped'
<1>1. RequestTyped /\ UNCHANGED request => RequestTyped'
  BY DEF request, RequestTyped
<1>2. MaskTyped /\ UNCHANGED mask => MaskTyped'
  BY DEF mask, MaskTyped
<1>3. ContextTyped /\ UNCHANGED context => ContextTyped' /\ Len(stack') = Len(stack)
  BY DEF context, ContextTyped
<1>4. TrapsTyped /\ UNCHANGED pending => PendingTyped(pending')
  BY DEF TrapsTyped
<1>5. TrapsTyped /\ UNCHANGED traps => TrapsTyped'
  BY <1>4 DEF traps, TrapsTyped
<1>6. TrapsTyped /\ pending' \in CheckStack(pending) /\ UNCHANGED sources => TrapsTyped'
  BY CheckStackTyped DEF TrapsTyped
<1> QED BY <1>1, <1>2, <1>3, <1>4, <1>5, <1>6

\* Every instruction leaves the entry alone and runs from an even stack.
LEMMA ExecutesTyped ==
  ASSUME TypeInv, NEW f \in SUBSET Irq, Executes(f), UNCHANGED entry,
         power' \in {power, "saving"}
  PROVE  /\ PhaseTyped' /\ EntryTyped' /\ Len(stack) % 2 = 0
         /\ Len(stack') = Len(stack) => StackParity'
<1>1. PhaseTyped'
  BY DEF TypeInv, PhaseTyped, Executes
<1>2. EntryTyped'
  BY DEF TypeInv, EntryTyped, Executes
<1>3. Len(stack) % 2 = 0
  BY DEF TypeInv, StackParity, Executes
<1>4. Len(stack') = Len(stack) => StackParity'
  BY <1>3 DEF StackParity, Executes
<1> QED BY <1>1, <1>2, <1>3, <1>4

LEMMA AddressTrapTyped ==
  ASSUME TypeInv, NEW next \in {"boundary", "execute", "retire"},
         phase \notin {"entry_low", "failed"},
         EnterAddressTrap(next)
  PROVE  TypeInv'
<1>1. CASE WarmReset
  BY <1>1, WarmResetTyped
<1>2. CASE /\ PushTrap("trap", 14) /\ phase' = next /\ power' = "active"
           /\ pending' \in CheckStack(pending)
           /\ UNCHANGED <<request, mask, entry, sources, wait, fresh>>
  <2>1. ContextTyped' /\ Len(stack') = Len(stack) + 2
    BY <1>2, PushTyped DEF TypeInv
  <2>2. PhaseTyped' /\ EntryTyped'
    BY <1>2 DEF TypeInv, PhaseTyped, EntryTyped
  <2>3. RequestTyped' /\ MaskTyped' /\ TrapsTyped'
    BY <1>2, Kept DEF TypeInv
  <2>4. StackParity'
    <3>1. Len(stack) \in Nat
      BY DEF TypeInv, ContextTyped
    <3> QED BY <1>2, <2>1, <3>1 DEF TypeInv, StackParity
  <2> QED BY <2>1, <2>2, <2>3, <2>4 DEF TypeInv
<1> QED BY <1>1, <1>2 DEF EnterAddressTrap

LEMMA SoftTrapTyped ==
  ASSUME ContextTyped, NEW p, PendingTyped(p), PushSoftTrap(p)
  PROVE  ContextTyped' /\ Len(stack') = Len(stack) + 2 /\ PendingTyped(pending')
<1>1. PICK t \in DOMAIN p : /\ TrapPriority[t] \in 9 .. 15
                            /\ PushTrap("trap", TrapPriority[t])
                            /\ pending' \in CheckStack(AfterService(p, t))
  BY SoftTrapPushed
<1>2. TrapPriority[t] \in 0 .. 15
  BY <1>1
<1>3. ContextTyped' /\ Len(stack') = Len(stack) + 2
  BY <1>1, <1>2, PushTyped
<1>4. PendingTyped(pending')
  BY <1>1, AfterServiceTyped, CheckStackTyped
<1> QED BY <1>3, <1>4
\* dspic33_step and service_interrupt keep the types.
LEMMA DispatchTyped ==
  ASSUME TypeInv,
         DispatchTrap \/ DispatchInterrupt \/ Proceed \/ Wake \/ StaySaving \/ PushLow
           \/ PushHigh
  PROVE  TypeInv'
<1> USE DEF TypeInv
<1> Len(stack) \in Nat
  BY DEF ContextTyped
<1>1. CASE DispatchTrap
  <2>1. CASE WarmReset
    BY <2>1, WarmResetTyped
  <2>2. CASE /\ PushSoftTrap(pending)
             /\ phase' = "execute"
             /\ Forget
             /\ UNCHANGED <<request, mask, entry, sources, power>>
    <3>1. ContextTyped' /\ Len(stack') = Len(stack) + 2 /\ PendingTyped(pending')
      BY <2>2, SoftTrapTyped DEF TrapsTyped
    <3>2. phase = "boundary" /\ PhaseTyped' /\ EntryTyped' /\ TrapsTyped'
      BY <1>1, <2>2, <3>1 DEF DispatchTrap, PhaseTyped, EntryTyped, TrapsTyped, Forget
    <3>3. StackParity'
      BY <2>2, <3>1, <3>2 DEF StackParity
    <3> QED BY <2>2, <3>1, <3>2, <3>3, Kept
  <2> QED BY <1>1, <2>1, <2>2 DEF DispatchTrap
<1>2. ASSUME NEW next \in {"boundary", "execute"}, service_interrupt(next),
             phase \in {"boundary", "retired"}
      PROVE  TypeInv'
  <2>1. PICK i \in Irq :
           \/ /\ i \in Vectored
              /\ phase' = "entry"
              /\ entry' = [irq |-> i, high |-> HighWord, then |-> next]
              /\ Forget
              /\ UNCHANGED <<request, mask, context, traps, power>>
           \/ WarmReset
           \/ i \notin Vectored /\ EnterAddressTrap(next)
    BY <1>2 DEF service_interrupt
  <2>2. CASE EnterAddressTrap(next)
    BY <1>2, <2>2, AddressTrapTyped
  <2>3. CASE /\ phase' = "entry"
             /\ entry' = [irq |-> i, high |-> HighWord, then |-> next]
             /\ Forget
             /\ UNCHANGED <<request, mask, context, traps, power>>
    <3>1. entry'.irq = i /\ entry'.high = HighWord /\ entry'.then = next
      BY <2>3
    <3>2. PhaseTyped' /\ EntryTyped'
      BY <1>2, <2>3, <3>1, LevelTyped DEF PhaseTyped, EntryTyped, Forget
    <3>3. RequestTyped' /\ MaskTyped' /\ ContextTyped' /\ TrapsTyped'
          /\ Len(stack') = Len(stack)
      BY <2>3, Kept
    <3>4. StackParity'
      BY <1>2, <2>3, <3>3 DEF StackParity
    <3> QED BY <3>2, <3>3, <3>4
  <2> QED BY <2>1, <2>2, <2>3, WarmResetTyped
<1>3. CASE DispatchInterrupt
  BY <1>2, <1>3 DEF DispatchInterrupt
<1>4. CASE Proceed
  <2>1. PhaseTyped' /\ EntryTyped'
    BY <1>4 DEF Proceed, PhaseTyped, EntryTyped, Forget
  <2>2. RequestTyped' /\ MaskTyped' /\ ContextTyped' /\ TrapsTyped'
        /\ Len(stack') = Len(stack)
    BY <1>4, Kept DEF Proceed
  <2>3. StackParity'
    BY <1>4, <2>2 DEF Proceed, StackParity
  <2> QED BY <2>1, <2>2, <2>3
<1>5. CASE Wake
  <2> DEFINE next == IF phase = "retired" THEN "boundary" ELSE "execute"
  <2>1. CASE service_interrupt(next)
    BY <1>2, <1>5, <2>1 DEF Wake
  <2>2. CASE /\ phase' = next
             /\ power' = "active"
             /\ Forget
             /\ UNCHANGED <<request, mask, context, entry, traps>>
    <3>1. PhaseTyped' /\ EntryTyped'
      BY <2>2 DEF PhaseTyped, EntryTyped, Forget
    <3>2. RequestTyped' /\ MaskTyped' /\ ContextTyped' /\ TrapsTyped'
          /\ Len(stack') = Len(stack)
      BY <2>2, Kept
    <3>3. StackParity'
      BY <1>5, <2>2, <3>2 DEF Wake, StackParity
    <3> QED BY <3>1, <3>2, <3>3
  <2> QED BY <1>5, <2>1, <2>2 DEF Wake
<1>6. CASE StaySaving
  <2>1. PhaseTyped' /\ EntryTyped'
    BY <1>6 DEF StaySaving, PhaseTyped, EntryTyped, Forget
  <2>2. RequestTyped' /\ MaskTyped' /\ ContextTyped' /\ TrapsTyped'
        /\ Len(stack') = Len(stack)
    BY <1>6, Kept DEF StaySaving
  <2>3. StackParity'
    BY <1>6, <2>2 DEF StaySaving, StackParity
  <2> QED BY <2>1, <2>2, <2>3
<1>7. CASE PushLow
  <2>1. PhaseTyped' /\ EntryTyped' /\ TrapsTyped'
    BY <1>7, Kept DEF PushLow, PhaseTyped, EntryTyped
  <2>2. RequestTyped' /\ MaskTyped'
    BY <1>7, TurnOverTyped DEF PushLow
  <2>3. stack' = Append(stack, LowWord) /\ LowWord \in Word /\ stack \in Seq(Word)
    BY <1>7, LevelTyped DEF PushLow, ContextTyped
  <2>4. stack' \in Seq(Word) /\ Len(stack') = Len(stack) + 1
    BY <2>3
  <2>5. ipl' \in 0 .. 7
    <3>1. entry.irq \in Irq
      BY <1>7 DEF PushLow, EntryTyped
    <3>2. Priority[entry.irq] \in 0 .. 7
      BY <3>1, InterruptAssumption DEF InterruptAssumption
    <3> QED BY <1>7, <3>2 DEF PushLow, EntryLevel
  <2>6. ContextTyped'
    BY <1>7, <2>4, <2>5 DEF PushLow, ContextTyped
  <2>7. StackParity'
    BY <1>7, <2>4 DEF PushLow, StackParity
  <2> QED BY <2>1, <2>2, <2>6, <2>7
<1>8. CASE PushHigh
  <2>1. /\ NoEntry.irq = -1 /\ NoEntry.then = "boundary" /\ NoEntry.high \in Word
    BY InitTyped DEF NoEntry, Main, Word, Activation
  <2>2. PhaseTyped' /\ EntryTyped' /\ TrapsTyped'
    BY <1>8, <2>1, Kept DEF PushHigh, PhaseTyped, EntryTyped
  <2>3. RequestTyped' /\ MaskTyped'
    BY <1>8, TurnOverTyped DEF PushHigh
  <2>4. stack' = Append(stack, entry.high) /\ entry.high \in Word /\ stack \in Seq(Word)
    BY <1>8 DEF PushHigh, ContextTyped, EntryTyped
  <2>5. stack' \in Seq(Word) /\ Len(stack') = Len(stack) + 1
    BY <2>4
  <2>6. running' \in Activation
    <3>1. ipl \in 0 .. 15 /\ interrupt_depth + 1 \in Nat /\ nstdis \in BOOLEAN
      BY LevelTyped DEF ContextTyped, MaskTyped
    <3>2. running' = [kind |-> "user", depth |-> interrupt_depth + 1, level |-> ipl,
                      alone |-> nstdis]
      BY <1>8 DEF PushHigh
    <3> QED BY <3>1, <3>2, Zenon DEF Activation
  <2>7. ContextTyped'
    BY <1>8, <2>5, <2>6 DEF PushHigh, ContextTyped
  <2>8. StackParity'
    BY <1>8, <2>5 DEF PushHigh, StackParity, EntryTyped
  <2> QED BY <2>2, <2>3, <2>7, <2>8
<1> QED BY <1>1, <1>3, <1>4, <1>5, <1>6, <1>7, <1>8
\* What happens while the device clock runs, and what instructions do.
LEMMA ClockTyped ==
  ASSUME TypeInv,
         HostAdvance \/ RaiseInterrupt \/ RaiseOscillatorFail \/ DmaTrap
           \/ PeripheralReset \/ AdvanceFails \/ HostReset
  PROVE  TypeInv'
<1> USE DEF TypeInv
<1> Len(stack) \in Nat
  BY DEF ContextTyped
<1>1. CASE HostAdvance
  <2>1. RequestTyped' /\ MaskTyped'
    BY <1>1, TurnOverTyped DEF HostAdvance
  <2>2. ContextTyped' /\ TrapsTyped' /\ Len(stack') = Len(stack)
    BY <1>1, Kept DEF HostAdvance
  <2>3. PhaseTyped' /\ EntryTyped' /\ StackParity'
    BY <1>1, <2>2 DEF HostAdvance, PhaseTyped, EntryTyped, StackParity
  <2> QED BY <2>1, <2>2, <2>3
<1>2. CASE RaiseInterrupt
  <2>1. RequestTyped'
    BY <1>2 DEF RaiseInterrupt, RequestTyped
  <2>2. MaskTyped' /\ ContextTyped' /\ TrapsTyped' /\ Len(stack') = Len(stack)
    BY <1>2, Kept DEF RaiseInterrupt
  <2>3. PhaseTyped' /\ EntryTyped' /\ StackParity'
    BY <1>2, <2>2 DEF RaiseInterrupt, PhaseTyped, EntryTyped, StackParity
  <2> QED BY <2>1, <2>2, <2>3
<1>3. CASE RaiseOscillatorFail
  <2>1. TrapsTyped'
    BY <1>3, ScheduleTyped DEF RaiseOscillatorFail, TrapsTyped
  <2>2. RequestTyped' /\ MaskTyped' /\ ContextTyped' /\ Len(stack') = Len(stack)
    BY <1>3, Kept DEF RaiseOscillatorFail
  <2>3. PhaseTyped' /\ EntryTyped' /\ StackParity'
    BY <1>3, <2>2 DEF RaiseOscillatorFail, PhaseTyped, EntryTyped, StackParity
  <2> QED BY <2>1, <2>2, <2>3
<1>4. CASE DmaTrap
  <2>1. PushTrap("dma", 10) \/ PushTrap("dma", 9)
    BY <1>4 DEF DmaTrap
  <2>2. ContextTyped' /\ Len(stack') = Len(stack) + 2
    <3>1. CASE PushTrap("dma", 10)
      BY <3>1, PushTyped
    <3>2. CASE PushTrap("dma", 9)
      BY <3>2, PushTyped
    <3> QED BY <2>1, <3>1, <3>2
  <2>3. TrapsTyped'
    <3>1. CASE pending' \in CheckStack(pending) /\ UNCHANGED sources
      BY <3>1, Kept
    <3>2. CASE /\ "soft" \in Traps
               /\ sources' = sources \union {"soft"}
               /\ pending' \in CheckStack(schedule_soft_trap(pending, "soft"))
      BY <3>2, ScheduleTyped, CheckStackTyped DEF TrapsTyped
    <3> QED BY <1>4, <3>1, <3>2 DEF DmaTrap
  <2>4. RequestTyped' /\ MaskTyped'
    BY <1>4, Kept DEF DmaTrap
  <2>5. PhaseTyped' /\ EntryTyped' /\ StackParity'
    BY <1>4, <2>2 DEF DmaTrap, PhaseTyped, EntryTyped, StackParity
  <2> QED BY <2>2, <2>3, <2>4, <2>5
<1>5. CASE PeripheralReset \/ HostReset
  BY <1>5, WarmResetTyped DEF PeripheralReset, HostReset
<1>6. CASE AdvanceFails
  <2>1. RequestTyped' /\ MaskTyped' /\ ContextTyped' /\ TrapsTyped'
    BY <1>6, Kept DEF AdvanceFails
  <2>2. PhaseTyped' /\ EntryTyped' /\ StackParity'
    BY <1>6 DEF AdvanceFails, PhaseTyped, EntryTyped, StackParity
  <2> QED BY <2>1, <2>2
<1> QED BY <1>1, <1>2, <1>3, <1>4, <1>5, <1>6

LEMMA InstructionTyped ==
  ASSUME TypeInv, Instruction
  PROVE  TypeInv'
<1> USE DEF TypeInv
<1> Len(stack) \in Nat
  BY DEF ContextTyped
<1>1. CASE Plain
  <2>1. /\ Executes({}) /\ power' = power
        /\ UNCHANGED entry /\ UNCHANGED request /\ UNCHANGED mask
        /\ UNCHANGED context /\ UNCHANGED traps
    BY <1>1 DEF Plain
  <2> QED BY <2>1, Kept, ExecutesTyped
<1>2. CASE SetFlag
  <2>1. PICK i \in Irq \ flags :
              /\ Executes({i})
              /\ flags' = flags \union {i}
              /\ deferred_next' = deferred_next \union {i}
              /\ UNCHANGED <<enabled, deferred, mask, context, entry, traps, power>>
    BY <1>2 DEF SetFlag
  <2>2. RequestTyped'
    BY <2>1 DEF RequestTyped
  <2> QED BY <2>1, <2>2, Kept, ExecutesTyped
<1>3. CASE ClearFlag
  <2>1. PICK i \in flags :
              /\ Executes({})
              /\ flags' = flags \ {i}
              /\ deferred' = deferred \ {i}
              /\ deferred_next' = deferred_next \ {i}
              /\ UNCHANGED <<enabled, mask, context, entry, traps, power>>
    BY <1>3 DEF ClearFlag
  <2>2. RequestTyped'
    BY <2>1 DEF RequestTyped
  <2> QED BY <2>1, <2>2, Kept, ExecutesTyped
<1>4. CASE WriteIec
  <2>1. /\ Executes({}) /\ enabled' \subseteq Irq
        /\ UNCHANGED <<flags, deferred, deferred_next, mask, context, entry, traps, power>>
    BY <1>4 DEF WriteIec
  <2>2. RequestTyped'
    BY <2>1 DEF RequestTyped
  <2> QED BY <2>1, <2>2, Kept, ExecutesTyped
<1>5. CASE WriteGie
  <2>1. /\ Executes({})
        /\ UNCHANGED <<request, nstdis, disicnt, context, entry, traps, power>>
    BY <1>5 DEF WriteGie
  <2>2. gie' \in BOOLEAN /\ gie_deferred' \in BOOLEAN /\ gie_deferred_next' \in BOOLEAN
    BY <1>5, Zenon DEF WriteGie
  <2>3. MaskTyped'
    BY <2>1, <2>2 DEF MaskTyped
  <2> QED BY <2>1, <2>3, Kept, ExecutesTyped
<1>6. CASE WriteNstdis
  <2>1. /\ Executes({})
        /\ UNCHANGED <<request, gie, gie_deferred, gie_deferred_next, disicnt,
                       context, entry, traps, power>>
    BY <1>6 DEF WriteNstdis
  <2>2. nstdis' \in BOOLEAN
    BY <1>6, InterruptAssumption DEF WriteNstdis, InterruptAssumption
  <2>3. MaskTyped'
    BY <2>1, <2>2 DEF MaskTyped
  <2> QED BY <2>1, <2>3, Kept, ExecutesTyped
<1>7. CASE Disi
  <2>1. /\ Executes({}) /\ disicnt' \in 0 .. MaxDisi
        /\ UNCHANGED <<request, gie, gie_deferred, gie_deferred_next, nstdis,
                       context, entry, traps, power>>
    BY <1>7, InterruptAssumption DEF Disi, InterruptAssumption
  <2>2. MaskTyped'
    BY <2>1 DEF MaskTyped
  <2> QED BY <2>1, <2>2, Kept, ExecutesTyped
<1>8. CASE WriteLevel
  <2>1. /\ Executes({}) /\ UNCHANGED <<request, mask, running, stack, entry, traps, power>>
    BY <1>8 DEF WriteLevel
  <2>2. ipl' \in 0 .. 7 /\ ipl3' \in BOOLEAN
    BY <1>8, InterruptAssumption DEF WriteLevel, ContextTyped, InterruptAssumption
  <2>3. ContextTyped' /\ Len(stack') = Len(stack)
    BY <2>1, <2>2 DEF ContextTyped
  <2> QED BY <2>1, <2>3, Kept, ExecutesTyped
<1>9. CASE Retfie
  <2>1. ContextTyped' /\ Len(stack') = Len(stack) - 2
    BY <1>9, FramePopped
  <2>2. /\ Executes({}) /\ pending' \in CheckStack(pending)
        /\ UNCHANGED <<request, mask, entry, sources, power>>
    BY <1>9 DEF Retfie
  <2>3. PhaseTyped' /\ EntryTyped' /\ Len(stack) % 2 = 0
    BY <2>2, ExecutesTyped
  <2>4. StackParity'
    BY <2>1, <2>2, <2>3 DEF Executes, StackParity
  <2> QED BY <2>1, <2>2, <2>3, <2>4, Kept
<1>10. CASE PowerSave
  <2>1. PhaseTyped' /\ EntryTyped'
    BY <1>10 DEF PowerSave, PhaseTyped, EntryTyped
  <2>2. RequestTyped' /\ MaskTyped' /\ ContextTyped' /\ TrapsTyped'
        /\ Len(stack') = Len(stack)
    BY <1>10, Kept DEF PowerSave
  <2>3. StackParity'
    BY <1>10, <2>2 DEF PowerSave, StackParity
  <2> QED BY <2>1, <2>2, <2>3
<1>11. CASE WriteTrapSource
  <2>1. /\ Executes({}) /\ UNCHANGED <<request, mask, context, entry, power>>
    BY <1>11 DEF WriteTrapSource
  <2>2. PICK t \in Traps \intersect LevelSources :
          \/ sources' = sources \union {t} /\ pending' = schedule_soft_trap(pending, t)
          \/ sources' = sources \ {t} /\ pending' = Without(pending, t)
    BY <1>11 DEF WriteTrapSource
  <2>3. TrapsTyped'
    BY <2>2, ScheduleTyped, WithoutTyped DEF TrapsTyped
  <2> QED BY <2>1, <2>3, Kept, ExecutesTyped
<1>12. CASE StackError
  <2>1. /\ Executes({}) /\ UNCHANGED <<request, mask, context, entry, sources, power>>
        /\ "stack" \in Traps /\ pending' = schedule_soft_trap(pending, "stack")
    BY <1>12 DEF StackError
  <2>2. TrapsTyped'
    BY <2>1, ScheduleTyped DEF TrapsTyped
  <2> QED BY <2>1, <2>2, Kept, ExecutesTyped
<1>13. CASE AddressError
  BY <1>13, AddressTrapTyped DEF AddressError
<1>14. CASE ResetInstruction
  BY <1>14, WarmResetTyped DEF ResetInstruction
<1> QED BY <1>1, <1>2, <1>3, <1>4, <1>5, <1>6, <1>7, <1>8, <1>9, <1>10, <1>11, <1>12,
           <1>13, <1>14 DEF Instruction

\* The two ways in which Retire leaves the processor running.
RetireRuns(cycles) ==
    LET p == advance_pending_soft_traps(pending, cycles)
    IN  /\ \/ PushSoftTrap(p)
           \/ ~ServicesTrap(p) /\ pending' = p /\ UNCHANGED context
        /\ TurnOver(wait, cycles)
        /\ phase' = IF power = "saving" THEN "retired" ELSE "boundary"
        /\ UNCHANGED <<entry, sources, power, wait, fresh>>

LEMMA Retiring ==
  ASSUME Retire
  PROVE  phase = "retire" /\ (WarmReset \/ \E cycles \in 1 .. 2 : RetireRuns(cycles))
BY DEF Retire, RetireRuns

LEMMA RetireTyped ==
  ASSUME TypeInv, Retire
  PROVE  TypeInv'
<1> USE DEF TypeInv
<1> Len(stack) \in Nat
  BY DEF ContextTyped
<1>1. CASE WarmReset
  BY <1>1, WarmResetTyped
<1>2. ASSUME NEW cycles \in 1 .. 2, RetireRuns(cycles)
      PROVE  TypeInv'
  <2> DEFINE p == advance_pending_soft_traps(pending, cycles)
  <2>1. PendingTyped(p)
    BY AdvanceTyped DEF TrapsTyped
  <2>2. /\ ContextTyped' /\ PendingTyped(pending')
        /\ Len(stack') \in {Len(stack), Len(stack) + 2}
    <3>1. CASE PushSoftTrap(p)
      BY <2>1, <3>1, SoftTrapTyped
    <3>2. CASE pending' = p /\ UNCHANGED context
      BY <2>1, <3>2, Kept
    <3> QED BY <1>2, <3>1, <3>2 DEF RetireRuns
  <2>3. RequestTyped' /\ MaskTyped'
    <3>1. TurnOver(wait, cycles) /\ wait \in BOOLEAN /\ cycles \in Nat
      BY <1>2 DEF RetireRuns, PhaseTyped
    <3> QED BY <3>1, TurnOverTyped
  <2>4. PhaseTyped' /\ EntryTyped' /\ TrapsTyped'
    BY <1>2, <2>2 DEF RetireRuns, PhaseTyped, EntryTyped, TrapsTyped
  <2>5. StackParity'
    BY <1>2, <2>2, Retiring DEF RetireRuns, StackParity
  <2> QED BY <2>2, <2>3, <2>4, <2>5
<1> QED BY <1>1, <1>2, Retiring

LEMMA TypeStep == TypeInv /\ [Next]_vars => TypeInv'
<1> SUFFICES ASSUME TypeInv, [Next]_vars PROVE TypeInv'
  OBVIOUS
<1>1. CASE UNCHANGED vars
  BY <1>1 DEF vars, request, mask, context, traps, TypeInv, PhaseTyped, RequestTyped,
              MaskTyped, ContextTyped, EntryTyped, TrapsTyped, StackParity
<1>2. CASE Next
  BY <1>2, DispatchTyped, ClockTyped, InstructionTyped, RetireTyped DEF Next, Processor
<1> QED BY <1>1, <1>2

LEMMA TypeAlways == Spec => []TypeInv
BY InitTyped, TypeStep, PTL DEF Spec

\* The interrupt controller is well typed for every number of interrupts,
\* priorities and trap slots: the level stays in 0 .. 15, RETFIE always finds a
\* whole frame, and cpu->pending_soft_traps never overflows.
THEOREM InterruptsTyped == Spec => []TypeOK
<1>1. Spec => []TypeInv
  BY TypeAlways
<1> QED BY <1>1, TypeInvTypes, PTL
-----------------------------------------------------------------------------
(***************************************************************************)
(* Flags that software raises.  Such a flag is in interrupt_deferred_next  *)
(* while its instruction retires and in interrupt_deferred at the next     *)
(* boundary, or a trap has raised the level past every interrupt since.    *)
(***************************************************************************)
PowerKnown ==
    /\ phase \in {"execute", "power_save"} => power = "active"
    /\ phase = "retired" => power = "saving"
    /\ phase \in {"entry", "entry_low"} /\ entry.then = "boundary" => power = "saving"
    /\ power = "saving" => fresh = {}

FlagHeld ==
    /\ phase = "retire" => fresh \subseteq deferred_next \/ ipl3
    /\ phase = "boundary" => fresh \subseteq deferred \/ ipl3 \/ (wait /\ interrupt_depth = 0)

FlagInv == TypeInv /\ PowerKnown /\ FlagHeld

LEMMA FlagInit == Init => FlagInv
<1> SUFFICES ASSUME Init PROVE FlagInv
  OBVIOUS
<1>1. TypeInv
  BY InitTyped
<1>2. PowerKnown /\ FlagHeld
  BY DEF Init, PowerKnown, FlagHeld
<1> QED BY <1>1, <1>2 DEF FlagInv

LEMMA FlagReset == WarmReset => PowerKnown' /\ FlagHeld'
<1>1. Init' => FlagInv'
  BY FlagInit, PTL
<1> QED BY <1>1, WarmResetInit DEF FlagInv

\* An address trap leaves the level above every interrupt.
LEMMA FlagAddressTrap ==
  ASSUME FlagInv, NEW next \in {"boundary", "execute", "retire"}, EnterAddressTrap(next),
         power = "saving" \/ phase \in {"boundary", "execute"}
  PROVE  PowerKnown' /\ FlagHeld'
<1>1. CASE WarmReset
  BY <1>1, FlagReset
<1>2. CASE /\ PushTrap("trap", 14) /\ phase' = next /\ power' = "active"
           /\ UNCHANGED <<request, mask, entry, sources, wait, fresh>>
  <2>1. ipl3'
    BY <1>2, PushTyped DEF FlagInv, TypeInv
  <2> QED BY <1>2, <2>1 DEF PowerKnown, FlagHeld
<1> QED BY <1>1, <1>2 DEF EnterAddressTrap

LEMMA FlagService ==
  ASSUME FlagInv, NEW next \in {"boundary", "execute"}, service_interrupt(next),
         phase \in {"boundary", "retired"}, next = "boundary" => power = "saving"
  PROVE  PowerKnown' /\ FlagHeld'
<1>1. PICK i \in Irq :
         \/ /\ i \in Vectored
            /\ phase' = "entry"
            /\ entry' = [irq |-> i, high |-> HighWord, then |-> next]
            /\ Forget
            /\ UNCHANGED <<request, mask, context, traps, power>>
         \/ WarmReset
         \/ i \notin Vectored /\ EnterAddressTrap(next)
  BY DEF service_interrupt
<1>2. CASE EnterAddressTrap(next)
  BY <1>2, FlagAddressTrap DEF FlagInv, PowerKnown
<1>3. CASE /\ phase' = "entry"
           /\ entry' = [irq |-> i, high |-> HighWord, then |-> next]
           /\ Forget
           /\ UNCHANGED <<request, mask, context, traps, power>>
  <2>1. entry'.then = next
    BY <1>3
  <2> QED BY <1>3, <2>1 DEF FlagInv, PowerKnown, FlagHeld, Forget
<1> QED BY <1>1, <1>2, <1>3, FlagReset

LEMMA FlagStep == FlagInv /\ [Next]_vars => FlagInv'
<1> SUFFICES ASSUME FlagInv, [Next]_vars PROVE PowerKnown' /\ FlagHeld'
  BY TypeStep DEF FlagInv
<1> TypeInv /\ PowerKnown /\ FlagHeld
  BY DEF FlagInv
<1>1. CASE UNCHANGED vars
  BY <1>1 DEF vars, request, context, PowerKnown, FlagHeld, interrupt_depth
<1>2. CASE DispatchTrap
  <2>1. CASE WarmReset
    BY <2>1, FlagReset
  <2>2. CASE phase' = "execute" /\ Forget /\ UNCHANGED <<request, mask, entry, sources, power>>
    BY <1>2, <2>2 DEF DispatchTrap, PowerKnown, FlagHeld, Forget
  <2> QED BY <1>2, <2>1, <2>2 DEF DispatchTrap
<1>3. CASE DispatchInterrupt
  BY <1>3, FlagService DEF DispatchInterrupt
<1>4. CASE Proceed
  BY <1>4 DEF Proceed, PowerKnown, FlagHeld, Forget
<1>5. CASE Wake
  <2>1. CASE service_interrupt(IF phase = "retired" THEN "boundary" ELSE "execute")
    BY <1>5, <2>1, FlagService DEF Wake
  <2>2. CASE /\ phase' = IF phase = "retired" THEN "boundary" ELSE "execute"
             /\ power' = "active" /\ Forget
    BY <1>5, <2>2 DEF Wake, PowerKnown, FlagHeld, Forget
  <2> QED BY <1>5, <2>1, <2>2 DEF Wake
<1>6. CASE StaySaving
  BY <1>6 DEF StaySaving, PowerKnown, FlagHeld, Forget
<1>7. CASE PushLow
  BY <1>7 DEF PushLow, PowerKnown, FlagHeld
<1>8. CASE PushHigh
  BY <1>8 DEF PushHigh, TypeInv, EntryTyped, PowerKnown, FlagHeld
<1>9. CASE Instruction
  <2>1. CASE \/ Plain \/ ClearFlag \/ WriteIec \/ WriteGie \/ WriteNstdis \/ Disi
             \/ WriteLevel \/ Retfie \/ WriteTrapSource \/ StackError
    <3>1. Executes({}) /\ UNCHANGED power
      BY <2>1 DEF Plain, ClearFlag, WriteIec, WriteGie, WriteNstdis, Disi, WriteLevel,
                  Retfie, WriteTrapSource, StackError
    <3> QED BY <3>1 DEF Executes, PowerKnown, FlagHeld
  <2>2. CASE SetFlag
    BY <2>2 DEF SetFlag, Executes, PowerKnown, FlagHeld
  <2>3. CASE PowerSave
    BY <2>3 DEF PowerSave, PowerKnown, FlagHeld
  <2>4. CASE AddressError
    BY <2>4, FlagAddressTrap DEF AddressError
  <2>5. CASE ResetInstruction
    BY <2>5, FlagReset DEF ResetInstruction
  <2> QED BY <1>9, <2>1, <2>2, <2>3, <2>4, <2>5 DEF Instruction
<1>10. CASE Retire
  <2>1. CASE WarmReset
    BY <2>1, FlagReset
  <2>2. ASSUME NEW cycles \in 1 .. 2, RetireRuns(cycles)
        PROVE  PowerKnown' /\ FlagHeld'
    <3> DEFINE p == advance_pending_soft_traps(pending, cycles)
    <3>1. phase = "retire" /\ PowerKnown'
      BY <1>10, <2>2, Retiring DEF RetireRuns, TypeInv, PhaseTyped, PowerKnown
    <3>2. CASE PushSoftTrap(p)
      <4>1. PendingTyped(p)
        BY AdvanceTyped DEF TypeInv, TrapsTyped
      <4>2. PICK t \in DOMAIN p : /\ TrapPriority[t] \in 9 .. 15
                                  /\ PushTrap("trap", TrapPriority[t])
        BY <3>2, <4>1, SoftTrapPushed DEF TypeInv
      <4>3. TrapPriority[t] \in 0 .. 15 /\ TrapPriority[t] > 7
        BY <4>2
      <4>4. ipl3'
        BY <4>2, <4>3, PushTyped DEF TypeInv
      <4> QED BY <2>2, <3>1, <4>4 DEF RetireRuns, FlagHeld
    <3>3. CASE UNCHANGED context
      <4>1. ipl3' = ipl3 /\ interrupt_depth' = interrupt_depth /\ wait' = wait
            /\ fresh' = fresh
        BY <2>2, <3>3 DEF context, interrupt_depth, RetireRuns
      <4>2. deferred' = IF wait /\ interrupt_depth = 0 THEN {} ELSE deferred_next
        BY <2>2 DEF RetireRuns, TurnOver, Deferred
      <4>3. fresh \subseteq deferred' \/ ipl3 \/ (wait /\ interrupt_depth = 0)
        BY <3>1, <4>2 DEF FlagHeld
      <4>4. phase' # "retire"
        BY <2>2 DEF RetireRuns
      <4>5. FlagHeld'
        BY <4>1, <4>3, <4>4 DEF FlagHeld
      <4> QED BY <3>1, <4>5
    <3> QED BY <2>2, <3>1, <3>2, <3>3 DEF RetireRuns
  <2> QED BY <1>10, <2>1, <2>2, Retiring
<1>11. CASE HostAdvance
  BY <1>11 DEF HostAdvance, context, PowerKnown, FlagHeld
<1>12. CASE RaiseInterrupt \/ RaiseOscillatorFail
  <2>1. UNCHANGED <<phase, power, wait, fresh, deferred, deferred_next, ipl3, running, entry>>
    BY <1>12 DEF RaiseInterrupt, RaiseOscillatorFail, request, context
  <2> QED BY <2>1 DEF PowerKnown, FlagHeld, interrupt_depth
<1>13. CASE DmaTrap
  <2>1. PushTrap("dma", 10) \/ PushTrap("dma", 9)
    BY <1>13 DEF DmaTrap
  <2>2. ipl3'
    <3>1. CASE PushTrap("dma", 10)
      BY <3>1, PushTyped DEF TypeInv
    <3>2. CASE PushTrap("dma", 9)
      BY <3>2, PushTyped DEF TypeInv
    <3> QED BY <2>1, <3>1, <3>2
  <2> QED BY <1>13, <2>2 DEF DmaTrap, PowerKnown, FlagHeld
<1>14. CASE PeripheralReset \/ HostReset
  BY <1>14, FlagReset DEF PeripheralReset, HostReset
<1>15. CASE AdvanceFails
  BY <1>15 DEF AdvanceFails, PowerKnown, FlagHeld
<1> QED BY <1>1, <1>2, <1>3, <1>4, <1>5, <1>6, <1>7, <1>8, <1>9, <1>10, <1>11, <1>12,
           <1>13, <1>14, <1>15 DEF Next, Processor

\* No step enters an interrupt whose flag the last instruction raised, except
\* past the separate wait cycle of an instruction of the main program: between
\* the two the deferral, a second boundary or a trap's level is in the way.
THEOREM RequestedFlagWaits == Spec => FlagDeferred
<1> DEFINE Waits == phase = "boundary" /\ phase' = "entry" /\ entry'.irq \in fresh
                      => wait /\ interrupt_depth = 0
<1>1. FlagInv /\ [Next]_vars => [Waits]_vars
  <2> SUFFICES ASSUME FlagInv, Next,
                      phase = "boundary", phase' = "entry", entry'.irq \in fresh
               PROVE  wait /\ interrupt_depth = 0
    OBVIOUS
  <2>1. ~WarmReset
    BY DEF WarmReset
  <2>2. DispatchInterrupt \/ Wake
    BY <2>1 DEF Next, Processor, DispatchTrap, Proceed, StaySaving, PushLow, PushHigh,
            Instruction, Plain, SetFlag, ClearFlag, WriteIec, WriteGie, WriteNstdis, Disi,
            WriteLevel, Retfie, PowerSave, WriteTrapSource, StackError, AddressError,
            ResetInstruction, Executes, Retire, HostAdvance, RaiseInterrupt,
            RaiseOscillatorFail, DmaTrap, PeripheralReset, AdvanceFails, HostReset
  <2>3. service_interrupt("execute")
    BY <2>2 DEF DispatchInterrupt, Wake
  <2>4. PICK i \in Irq :
           /\ Selected(i)
           /\ \/ entry' = [irq |-> i, high |-> HighWord, then |-> "execute"]
              \/ EnterAddressTrap("execute")
    BY <2>1, <2>3 DEF service_interrupt
  <2>5. ~EnterAddressTrap("execute")
    BY <2>1 DEF EnterAddressTrap
  <2>6. entry'.irq = i
    BY <2>4, <2>5
  <2>7. ~ipl3 /\ i \notin deferred
    BY <2>4 DEF Selected, Selectable, Eligible, Requesting
  <2> QED BY <2>6, <2>7 DEF FlagInv, FlagHeld
<1>2. Spec => []FlagInv
  BY FlagInit, FlagStep, PTL DEF Spec
<1> QED BY <1>1, <1>2, PTL DEF Spec, FlagDeferred
-----------------------------------------------------------------------------
(***************************************************************************)
(* Level-sensitive trap sources.  The table of soft traps has fewer slots  *)
(* than there are kinds, and a kind that finds no slot is dropped; a       *)
(* program that raises no more kinds than there are slots loses none.      *)
(***************************************************************************)
EveryTrapHasSlot == Cardinality(Traps) <= SoftTrapSlots

LEMMA ScheduleKeeps ==
  ASSUME EveryTrapHasSlot, NEW p, PendingTyped(p), NEW t \in Traps
  PROVE  DOMAIN schedule_soft_trap(p, t) = DOMAIN p \union {t}
<1>1. CASE t \in DOMAIN p
  BY <1>1 DEF schedule_soft_trap
<1>2. CASE t \notin DOMAIN p
  <2>1. IsFiniteSet(DOMAIN p) /\ Cardinality(DOMAIN p) \in Nat
    BY TrapsFinite, FS_Subset, FS_CardinalityType DEF PendingTyped
  <2>2. Cardinality(DOMAIN p \union {t}) = Cardinality(DOMAIN p) + 1
    BY <1>2, <2>1, FS_AddElement
  <2>3. DOMAIN p \union {t} \subseteq Traps
    BY DEF PendingTyped
  <2>4. /\ Cardinality(DOMAIN p \union {t}) <= Cardinality(Traps)
        /\ Cardinality(Traps) \in Nat
    BY <2>3, TrapsFinite, FS_Subset, FS_CardinalityType
  <2>5. Cardinality(DOMAIN p) < SoftTrapSlots
    BY <2>1, <2>2, <2>4, InterruptAssumption DEF EveryTrapHasSlot, InterruptAssumption
  <2>6. schedule_soft_trap(p, t)
          = [u \in DOMAIN p \union {t} |-> IF u = t THEN TrapDelay[t] ELSE p[u]]
    BY <1>2, <2>5 DEF schedule_soft_trap
  <2> QED BY <2>6
<1> QED BY <1>1, <1>2

\* A check of the stack's limits loses no entry.
LEMMA CheckKeeps ==
  ASSUME EveryTrapHasSlot, NEW p, PendingTyped(p), NEW q \in CheckStack(p)
  PROVE  DOMAIN p \subseteq DOMAIN q
<1>1. q = p \/ ("stack" \in Traps /\ q = schedule_soft_trap(p, "stack"))
  BY DEF CheckStack
<1>2. CASE "stack" \in Traps /\ q = schedule_soft_trap(p, "stack")
  <2>1. DOMAIN schedule_soft_trap(p, "stack") = DOMAIN p \union {"stack"}
    BY <1>2, ScheduleKeeps
  <2> QED BY <1>2, <2>1
<1> QED BY <1>1, <1>2

LEMMA SourceReset == WarmReset => LevelSourceKept'
BY DEF WarmReset, LevelSourceKept

LEMMA SourceServiced ==
  ASSUME EveryTrapHasSlot, NEW p, PendingTyped(p), sources \subseteq DOMAIN p,
         PushSoftTrap(p), UNCHANGED sources
  PROVE  LevelSourceKept'
<1>1. PICK t \in Serviceable(p, level) : pending' \in CheckStack(AfterService(p, t))
  BY DEF PushSoftTrap
<1>2. sources \subseteq DOMAIN AfterService(p, t)
  BY DEF AfterService, Without
<1>3. DOMAIN AfterService(p, t) \subseteq DOMAIN pending'
  BY <1>1, AfterServiceTyped, CheckKeeps
<1> QED BY <1>2, <1>3 DEF LevelSourceKept

LEMMA SourceStep ==
  ASSUME EveryTrapHasSlot, TypeInv, LevelSourceKept, [Next]_vars
  PROVE  LevelSourceKept'
<1> PendingTyped(pending)
  BY DEF TypeInv, TrapsTyped
<1>1. ASSUME UNCHANGED traps
      PROVE  LevelSourceKept'
  BY <1>1 DEF traps, LevelSourceKept
<1>2. ASSUME NEW t \in Traps, pending' = schedule_soft_trap(pending, t),
             sources' \in {sources, sources \union {t}}
      PROVE  LevelSourceKept'
  <2>1. DOMAIN pending' = DOMAIN pending \union {t}
    BY <1>2, ScheduleKeeps
  <2> QED BY <1>2, <2>1 DEF LevelSourceKept
<1>3. ASSUME pending' \in CheckStack(pending), UNCHANGED sources
       PROVE  LevelSourceKept'
  BY <1>3, CheckKeeps DEF LevelSourceKept
<1>4. ASSUME NEW next, EnterAddressTrap(next)
      PROVE  LevelSourceKept'
  BY <1>4, <1>3, SourceReset DEF EnterAddressTrap
<1>5. CASE UNCHANGED vars
  BY <1>1, <1>5 DEF vars
<1>6. CASE DispatchTrap
  BY <1>6, SourceReset, SourceServiced DEF DispatchTrap, LevelSourceKept
<1>7. CASE DispatchInterrupt \/ Wake
  BY <1>1, <1>4, <1>7, SourceReset DEF DispatchInterrupt, Wake, service_interrupt
<1>8. CASE \/ Proceed \/ StaySaving \/ HostAdvance \/ RaiseInterrupt \/ AdvanceFails
           \/ PeripheralReset \/ HostReset
  BY <1>1, <1>8, SourceReset DEF Proceed, StaySaving, HostAdvance, RaiseInterrupt,
                                 AdvanceFails, PeripheralReset, HostReset
<1>9. CASE PushLow \/ PushHigh
  BY <1>3, <1>9 DEF PushLow, PushHigh
<1>10. CASE RaiseOscillatorFail
  BY <1>2, <1>10 DEF RaiseOscillatorFail
<1>11. CASE DmaTrap
  <2>1. CASE pending' \in CheckStack(pending) /\ UNCHANGED sources
    BY <1>3, <2>1
  <2>2. CASE /\ "soft" \in Traps
             /\ sources' = sources \union {"soft"}
             /\ pending' \in CheckStack(schedule_soft_trap(pending, "soft"))
    <3>1. DOMAIN schedule_soft_trap(pending, "soft") = DOMAIN pending \union {"soft"}
          /\ PendingTyped(schedule_soft_trap(pending, "soft"))
      BY <2>2, ScheduleKeeps, ScheduleTyped
    <3>2. DOMAIN pending \union {"soft"} \subseteq DOMAIN pending'
      BY <2>2, <3>1, CheckKeeps
    <3> QED BY <2>2, <3>2 DEF LevelSourceKept
  <2> QED BY <1>11, <2>1, <2>2 DEF DmaTrap
<1>12. CASE Instruction
  <2>1. CASE \/ Plain \/ SetFlag \/ ClearFlag \/ WriteIec \/ WriteGie \/ WriteNstdis
             \/ Disi \/ WriteLevel \/ PowerSave
    BY <1>1, <2>1 DEF Plain, SetFlag, ClearFlag, WriteIec, WriteGie, WriteNstdis, Disi,
                      WriteLevel, PowerSave
  <2>5. CASE Retfie
    BY <1>3, <2>5 DEF Retfie
  <2>2. CASE WriteTrapSource
    <3>1. PICK t \in Traps \intersect LevelSources :
            \/ sources' = sources \union {t} /\ pending' = schedule_soft_trap(pending, t)
            \/ sources' = sources \ {t} /\ pending' = Without(pending, t)
      BY <2>2 DEF WriteTrapSource
    <3>2. CASE sources' = sources \ {t} /\ pending' = Without(pending, t)
      BY <3>2 DEF Without, LevelSourceKept
    <3> QED BY <1>2, <3>1, <3>2
  <2>3. CASE StackError
    BY <1>2, <2>3 DEF StackError
  <2>4. CASE AddressError \/ ResetInstruction
    BY <1>4, <2>4, SourceReset DEF AddressError, ResetInstruction
  <2> QED BY <1>12, <2>1, <2>2, <2>3, <2>4, <2>5 DEF Instruction
<1>13. CASE Retire
  <2>1. ASSUME NEW cycles \in 1 .. 2, RetireRuns(cycles)
        PROVE  LevelSourceKept'
    <3> DEFINE p == advance_pending_soft_traps(pending, cycles)
    <3>1. DOMAIN p = DOMAIN pending /\ PendingTyped(p)
      BY AdvanceTyped DEF advance_pending_soft_traps
    <3> HIDE DEF p
    <3>2. UNCHANGED sources /\ (PushSoftTrap(p) \/ pending' = p)
      BY <2>1 DEF RetireRuns, p
    <3> QED BY <3>1, <3>2, SourceServiced DEF LevelSourceKept
  <2> QED BY <1>13, <2>1, SourceReset, Retiring
<1> QED BY <1>5, <1>6, <1>7, <1>8, <1>9, <1>10, <1>11, <1>12, <1>13
        DEF Next, Processor

\* If the program raises no more kinds of soft traps than the table has slots,
\* a level-sensitive source that is on is never without its entry, through
\* services, delays, reschedules and warm resets.
THEOREM SourcesPend ==
  ASSUME EveryTrapHasSlot
  PROVE  Spec => []LevelSourceKept
<1>1. Init => LevelSourceKept
  BY DEF Init, LevelSourceKept
<1>2. TypeInv /\ LevelSourceKept /\ [Next]_vars => LevelSourceKept'
  BY SourceStep
<1> QED BY <1>1, <1>2, TypeAlways, PTL DEF Spec
-----------------------------------------------------------------------------
(***************************************************************************)
(* The stack.  While an interrupt is being entered its low word is on the  *)
(* stack, or will be, for the activation its high word was captured for:   *)
(* nothing else may push in these two windows.  A DMA error that strikes   *)
(* there does, and then the frames do not hold, as Interrupt_frames shows. *)
(***************************************************************************)
NoErrorWhileEntering == DmaTrapPhases \intersect {"entry", "entry_low"} = {}

Entering == phase \in {"entry", "entry_low"}

FramesFormed ==
    \A i \in 1 .. Len(stack) :
        IF i % 2 = 1 THEN stack[i].half = "low"
        ELSE stack[i].half = "high" /\ stack[i].of = stack[i - 1].of

EntryHonest ==
    /\ phase = "entry" => entry.high = HighWord /\ ~ipl3 /\ ipl < Priority[entry.irq]
    /\ phase = "entry_low" => /\ entry.high.half = "high" /\ entry.high.of = running
                             /\ stack[Len(stack)].of = running
                             /\ ~ipl3 /\ entry.high.level < ipl

FrameInv == TypeInv /\ FramesFormed /\ EntryHonest /\ NestingOrdered

LEMMA FrameInvNests == FrameInv => NestingOrdered
BY DEF FrameInv

LEMMA FrameInit == Init => FrameInv
<1> SUFFICES ASSUME Init PROVE FramesFormed /\ EntryHonest /\ NestingOrdered
  BY InitTyped DEF FrameInv
<1>1. Len(stack) = 0 /\ phase = "boundary"
  BY DEF Init
<1> QED BY <1>1 DEF FramesFormed, EntryHonest, NestingOrdered

LEMMA FrameReset == WarmReset => FramesFormed' /\ EntryHonest' /\ NestingOrdered'
<1>1. Init' => FrameInv'
  BY FrameInit, PTL
<1> QED BY <1>1, WarmResetInit DEF FrameInv

LEMMA FramesUntouched ==
  ASSUME FramesFormed, NestingOrdered, UNCHANGED <<stack, running>>
  PROVE  FramesFormed' /\ NestingOrdered'
BY DEF FramesFormed, NestingOrdered, Entered

\* A trap that strikes between two words of no entry keeps the frames, and the
\* nesting if it is of the DMA controller or above the level.
LEMMA FramePushed ==
  ASSUME FrameInv, phase \notin {"entry_low", "failed"},
         NEW k \in {"trap", "dma"}, NEW pr \in 0 .. 15, PushTrap(k, pr),
         k = "dma" \/ level < pr \/ (level = 14 /\ pr = 14)
  PROVE  FramesFormed' /\ NestingOrdered'
<1> DEFINE n == Len(stack)
<1>1. TypeInv /\ ContextTyped /\ n \in Nat /\ n % 2 = 0
  BY DEF FrameInv, TypeInv, ContextTyped, StackParity
<1>2. /\ Len(stack') = n + 2
      /\ \A i \in 1 .. n : stack'[i] = stack[i]
      /\ stack'[n + 1] = LowWord /\ stack'[n + 2] = HighWord
      /\ running'.kind = k /\ running'.level = pr
  BY <1>1, PushTyped
<1>3. /\ LowWord.half = "low" /\ LowWord.of = running
      /\ HighWord.half = "high" /\ HighWord.of = running /\ HighWord.level = level
  BY DEF LowWord, HighWord
<1> HIDE DEF n
<1>4. FramesFormed'
  <2> SUFFICES ASSUME NEW i \in 1 .. n + 2
               PROVE  IF i % 2 = 1 THEN stack'[i].half = "low"
                      ELSE stack'[i].half = "high" /\ stack'[i].of = stack'[i - 1].of
    BY <1>2 DEF FramesFormed
  <2>1. CASE i \in 1 .. n
    <3>1. IF i % 2 = 1 THEN stack[i].half = "low"
          ELSE stack[i].half = "high" /\ stack[i].of = stack[i - 1].of
      BY <2>1 DEF FrameInv, FramesFormed, n
    <3>2. i % 2 # 1 => i - 1 \in 1 .. n
      BY <1>1, <2>1
    <3> QED BY <1>2, <2>1, <3>1, <3>2
  <2>2. CASE i = n + 1
    BY <1>1, <1>2, <1>3, <2>2
  <2>3. CASE i = n + 2
    <3>1. i % 2 # 1 /\ i - 1 = n + 1
      BY <1>1, <2>3
    <3> QED BY <1>2, <1>3, <2>3, <3>1
  <2> QED BY <1>1, <2>1, <2>2, <2>3
<1>5. NestingOrdered'
  <2> SUFFICES ASSUME NEW i \in 1 .. n + 2, stack'[i].half = "high", Entered(i)'.kind # "dma"
               PROVE  \/ stack'[i].level < Entered(i)'.level
                      \/ stack'[i].level = 14 /\ Entered(i)'.level = 14
    BY <1>2 DEF NestingOrdered
  <2>1. CASE i \in 1 .. n
    <3>1. Entered(i)' = Entered(i)
      <4>1. i # n + 2
        BY <1>1, <2>1
      <4>2. CASE i = n
        BY <1>2, <1>3, <4>1, <4>2 DEF Entered, n
      <4>3. CASE i # n
        <5>1. i + 1 \in 1 .. n
          BY <1>1, <2>1, <4>3
        <5> QED BY <1>2, <4>1, <4>3, <5>1 DEF Entered, n
      <4> QED BY <4>2, <4>3
    <3> QED BY <1>2, <2>1, <3>1 DEF FrameInv, NestingOrdered, n
  <2>2. CASE i = n + 1
    BY <1>2, <1>3, <2>2
  <2>3. CASE i = n + 2
    BY <1>2, <1>3, <2>3 DEF Entered
  <2> QED BY <1>1, <2>1, <2>2, <2>3
<1> QED BY <1>4, <1>5

\* What is left after RETFIE was in order before it.
LEMMA FrameReturned ==
  ASSUME FrameInv, Retfie
  PROVE  FramesFormed' /\ NestingOrdered'
<1> DEFINE n == Len(stack)
<1>1. /\ n \in Nat /\ n >= 2 /\ n % 2 = 0 /\ Len(stack') = n - 2
      /\ \A i \in 1 .. n - 2 : stack'[i] = stack[i]
      /\ running' = stack[n - 1].of
  BY FramePopped DEF FrameInv, TypeInv
<1> HIDE DEF n
<1>2. FramesFormed'
  <2> SUFFICES ASSUME NEW i \in 1 .. n - 2
               PROVE  IF i % 2 = 1 THEN stack'[i].half = "low"
                      ELSE stack'[i].half = "high" /\ stack'[i].of = stack'[i - 1].of
    BY <1>1 DEF FramesFormed
  <2>1. i \in 1 .. n /\ (i % 2 # 1 => i - 1 \in 1 .. n - 2)
    BY <1>1
  <2>2. IF i % 2 = 1 THEN stack[i].half = "low"
        ELSE stack[i].half = "high" /\ stack[i].of = stack[i - 1].of
    BY <2>1 DEF FrameInv, FramesFormed, n
  <2> QED BY <1>1, <2>1, <2>2
<1>3. NestingOrdered'
  <2> SUFFICES ASSUME NEW i \in 1 .. n - 2, stack'[i].half = "high", Entered(i)'.kind # "dma"
               PROVE  \/ stack'[i].level < Entered(i)'.level
                      \/ stack'[i].level = 14 /\ Entered(i)'.level = 14
    BY <1>1 DEF NestingOrdered
  <2>1. i \in 1 .. n /\ i # n
    BY <1>1
  <2>2. Entered(i)' = Entered(i)
    <3>1. CASE i = n - 2
      <4>1. i + 1 = n - 1
        BY <1>1, <3>1
      <4> QED BY <1>1, <2>1, <3>1, <4>1 DEF Entered, n
    <3>2. CASE i # n - 2
      <4>1. i + 1 \in 1 .. n - 2
        BY <1>1, <3>2
      <4> QED BY <1>1, <2>1, <3>2, <4>1 DEF Entered, n
    <3> QED BY <3>1, <3>2
  <2> QED BY <1>1, <2>1, <2>2 DEF FrameInv, NestingOrdered, n
<1> QED BY <1>2, <1>3
\* The two halves of an interrupt entry.
LEMMA FrameLow ==
  ASSUME FrameInv, PushLow
  PROVE  FramesFormed' /\ EntryHonest' /\ NestingOrdered'
<1> DEFINE n == Len(stack)
<1>1. /\ TypeInv /\ ContextTyped /\ stack \in Seq(Word) /\ LowWord \in Word
      /\ n \in Nat /\ n % 2 = 0 /\ phase = "entry"
  BY LevelTyped DEF FrameInv, TypeInv, ContextTyped, StackParity, PushLow
<1>2. stack' = Append(stack, LowWord) /\ phase' = "entry_low"
      /\ UNCHANGED <<ipl3, running, entry>> /\ ipl' = EntryLevel
  BY DEF PushLow
<1>3. LowWord.half = "low" /\ LowWord.of = running
  BY DEF LowWord
<1>4. /\ Len(stack') = n + 1 /\ stack'[n + 1] = LowWord
      /\ \A i \in 1 .. n : stack'[i] = stack[i]
  <2> HIDE DEF LowWord
  <2> QED BY <1>1, <1>2
<1> HIDE DEF n
<1>5. FramesFormed'
  <2> SUFFICES ASSUME NEW i \in 1 .. n + 1
               PROVE  IF i % 2 = 1 THEN stack'[i].half = "low"
                      ELSE stack'[i].half = "high" /\ stack'[i].of = stack'[i - 1].of
    BY <1>4 DEF FramesFormed
  <2>1. CASE i \in 1 .. n
    <3>1. IF i % 2 = 1 THEN stack[i].half = "low"
          ELSE stack[i].half = "high" /\ stack[i].of = stack[i - 1].of
      BY <2>1 DEF FrameInv, FramesFormed, n
    <3>2. i % 2 # 1 => i - 1 \in 1 .. n
      BY <1>1, <2>1
    <3> QED BY <1>4, <2>1, <3>1, <3>2
  <2>2. CASE i = n + 1
    BY <1>1, <1>3, <1>4, <2>2
  <2> QED BY <1>1, <2>1, <2>2
<1>6. NestingOrdered'
  <2> SUFFICES ASSUME NEW i \in 1 .. n + 1, stack'[i].half = "high", Entered(i)'.kind # "dma"
               PROVE  \/ stack'[i].level < Entered(i)'.level
                      \/ stack'[i].level = 14 /\ Entered(i)'.level = 14
    BY <1>4 DEF NestingOrdered
  <2>1. i \in 1 .. n
    BY <1>1, <1>3, <1>4
  <2>2. Entered(i)' = Entered(i)
    <3>1. CASE i = n
      BY <1>1, <1>3, <1>4, <2>1, <3>1 DEF Entered, n
    <3>2. CASE i # n
      <4>1. i + 1 \in 1 .. n /\ i # n + 1
        BY <1>1, <2>1, <3>2
      <4> QED BY <1>4, <3>2, <4>1 DEF Entered, n
    <3> QED BY <3>1, <3>2
  <2> QED BY <1>4, <2>1, <2>2 DEF FrameInv, NestingOrdered, n
<1>7. EntryHonest'
  <2>1. /\ entry.high = HighWord /\ ~ipl3 /\ ipl < Priority[entry.irq]
        /\ entry.irq \in Irq
    BY <1>1 DEF FrameInv, EntryHonest, TypeInv, EntryTyped
  <2>2. Priority[entry.irq] \in 0 .. 7 /\ ipl \in 0 .. 7 /\ level = ipl
    BY <1>1, <2>1, LevelTyped, InterruptAssumption DEF InterruptAssumption, ContextTyped
  <2>3. HighWord.half = "high" /\ HighWord.of = running /\ HighWord.level = level
    BY DEF HighWord
  <2>4. level < ipl'
    BY <1>2, <2>1, <2>2 DEF EntryLevel
  <2> QED BY <1>2, <1>3, <1>4, <2>1, <2>3, <2>4 DEF EntryHonest
<1> QED BY <1>5, <1>6, <1>7

LEMMA FrameHigh ==
  ASSUME FrameInv, PushHigh
  PROVE  FramesFormed' /\ EntryHonest' /\ NestingOrdered'
<1> DEFINE n == Len(stack)
<1>1. /\ TypeInv /\ stack \in Seq(Word) /\ entry.high \in Word
      /\ n \in Nat /\ n % 2 = 1 /\ phase = "entry_low"
      /\ ipl \in 0 .. 7
  BY DEF FrameInv, TypeInv, ContextTyped, EntryTyped, StackParity, PushHigh
<1>2. /\ entry.high.half = "high" /\ entry.high.of = running
      /\ stack[n].of = running /\ entry.high.level < ipl
  BY <1>1 DEF FrameInv, EntryHonest
<1>3. /\ stack' = Append(stack, entry.high)
      /\ running'.level = ipl
      /\ phase' = entry.then
  BY DEF PushHigh
<1>4. /\ Len(stack') = n + 1 /\ stack'[n + 1] = entry.high
      /\ \A i \in 1 .. n : stack'[i] = stack[i]
  BY <1>1, <1>3
<1> HIDE DEF n
<1>6. FramesFormed'
  <2> SUFFICES ASSUME NEW i \in 1 .. n + 1
               PROVE  IF i % 2 = 1 THEN stack'[i].half = "low"
                      ELSE stack'[i].half = "high" /\ stack'[i].of = stack'[i - 1].of
    BY <1>4 DEF FramesFormed
  <2>1. CASE i \in 1 .. n
    <3>1. IF i % 2 = 1 THEN stack[i].half = "low"
          ELSE stack[i].half = "high" /\ stack[i].of = stack[i - 1].of
      BY <2>1 DEF FrameInv, FramesFormed, n
    <3>2. i % 2 # 1 => i - 1 \in 1 .. n
      BY <1>1, <2>1
    <3> QED BY <1>4, <2>1, <3>1, <3>2
  <2>2. CASE i = n + 1
    <3>1. i % 2 # 1 /\ i - 1 = n /\ n \in 1 .. n
      BY <1>1, <2>2
    <3> QED BY <1>2, <1>4, <2>2, <3>1
  <2> QED BY <1>1, <2>1, <2>2
<1>7. NestingOrdered'
  <2> SUFFICES ASSUME NEW i \in 1 .. n + 1, stack'[i].half = "high", Entered(i)'.kind # "dma"
               PROVE  \/ stack'[i].level < Entered(i)'.level
                      \/ stack'[i].level = 14 /\ Entered(i)'.level = 14
    BY <1>4 DEF NestingOrdered
  <2>1. CASE i = n + 1
    BY <1>2, <1>3, <1>4, <2>1 DEF Entered
  <2>2. CASE i \in 1 .. n
    <3>1. stack[n].half = "low"
      BY <1>1 DEF FrameInv, FramesFormed, n
    <3>2. i # n /\ i + 1 \in 1 .. n /\ i # n + 1
      BY <1>1, <1>4, <2>2, <3>1
    <3>3. Entered(i)' = Entered(i)
      BY <1>4, <3>2 DEF Entered, n
    <3> QED BY <1>4, <2>2, <3>3 DEF FrameInv, NestingOrdered, n
  <2> QED BY <1>1, <2>1, <2>2
<1>8. EntryHonest'
  BY <1>1, <1>3 DEF EntryHonest, TypeInv, EntryTyped
<1> QED BY <1>6, <1>7, <1>8

LEMMA FrameAddressTrap ==
  ASSUME FrameInv, NEW next \in {"boundary", "execute", "retire"},
         phase \notin {"entry_low", "failed"},
         EnterAddressTrap(next)
  PROVE  FramesFormed' /\ EntryHonest' /\ NestingOrdered'
<1>1. CASE WarmReset
  BY <1>1, FrameReset
<1>2. CASE level <= 14 /\ PushTrap("trap", 14) /\ phase' = next
  <2>1. level < 14 \/ level = 14
    BY <1>2, LevelTyped DEF FrameInv, TypeInv
  <2>2. FramesFormed' /\ NestingOrdered'
    BY <1>2, <2>1, FramePushed
  <2> QED BY <1>2, <2>2 DEF EntryHonest
<1> QED BY <1>1, <1>2 DEF EnterAddressTrap

LEMMA FrameService ==
  ASSUME FrameInv, NEW next \in {"boundary", "execute"}, service_interrupt(next),
         phase \in {"boundary", "retired"}
  PROVE  FramesFormed' /\ EntryHonest' /\ NestingOrdered'
<1>1. PICK i \in Irq :
         /\ Selected(i)
         /\ \/ /\ phase' = "entry"
               /\ entry' = [irq |-> i, high |-> HighWord, then |-> next]
               /\ UNCHANGED context
            \/ WarmReset
            \/ EnterAddressTrap(next)
  BY DEF service_interrupt
<1>2. CASE EnterAddressTrap(next)
  BY <1>2, FrameAddressTrap
<1>3. CASE /\ phase' = "entry"
           /\ entry' = [irq |-> i, high |-> HighWord, then |-> next]
           /\ UNCHANGED context
  <2>1. FramesFormed' /\ NestingOrdered'
    BY <1>3, FramesUntouched DEF context, FrameInv
  <2>2. ~ipl3 /\ Priority[i] > ipl
    BY <1>1 DEF Selected, Selectable, Eligible
  <2>3. ipl < Priority[i]
    BY <2>2, InterruptAssumption DEF FrameInv, TypeInv, ContextTyped, InterruptAssumption
  <2>4. entry'.irq = i /\ entry'.high = HighWord /\ HighWord' = HighWord
    BY <1>3 DEF context, HighWord, level
  <2> QED BY <1>3, <2>1, <2>2, <2>3, <2>4 DEF EntryHonest, context
<1> QED BY <1>1, <1>2, <1>3, FrameReset

LEMMA FrameSoftTrap ==
  ASSUME FrameInv, NEW p, PendingTyped(p), PushSoftTrap(p),
         phase \notin {"entry_low", "failed"}
  PROVE  FramesFormed' /\ NestingOrdered'
<1>1. PICK t \in DOMAIN p : /\ level < TrapPriority[t]
                            /\ TrapPriority[t] \in 9 .. 15
                            /\ PushTrap("trap", TrapPriority[t])
  BY SoftTrapPushed DEF FrameInv, TypeInv
<1>2. TrapPriority[t] \in 0 .. 15
  BY <1>1
<1> QED BY <1>1, <1>2, FramePushed
LEMMA FrameStep ==
  ASSUME NoErrorWhileEntering, FrameInv, [Next]_vars
  PROVE  FrameInv'
<1> SUFFICES FramesFormed' /\ EntryHonest' /\ NestingOrdered'
  BY TypeStep DEF FrameInv
<1> TypeInv /\ FramesFormed /\ EntryHonest /\ NestingOrdered
  BY DEF FrameInv
<1>1. ASSUME UNCHANGED <<stack, running>>, ~Entering'
      PROVE  FramesFormed' /\ EntryHonest' /\ NestingOrdered'
  BY <1>1, FramesUntouched DEF Entering, EntryHonest
<1>2. ASSUME UNCHANGED <<phase, entry>>, UNCHANGED context
      PROVE  FramesFormed' /\ EntryHonest' /\ NestingOrdered'
  <2>1. FramesFormed' /\ NestingOrdered' /\ HighWord' = HighWord
    BY <1>2, FramesUntouched DEF context, HighWord, level
  <2> QED BY <1>2, <2>1 DEF context, EntryHonest
<1>3. CASE UNCHANGED vars
  BY <1>2, <1>3 DEF vars
<1>4. CASE DispatchTrap
  <2>1. CASE PushSoftTrap(pending) /\ phase' = "execute"
    <3>1. FramesFormed' /\ NestingOrdered'
      BY <1>4, <2>1, FrameSoftTrap DEF DispatchTrap, TypeInv, TrapsTyped
    <3> QED BY <2>1, <3>1 DEF EntryHonest
  <2> QED BY <1>4, <2>1, FrameReset DEF DispatchTrap
<1>5. CASE DispatchInterrupt
  BY <1>5, FrameService DEF DispatchInterrupt
<1>6. CASE Proceed \/ StaySaving
  BY <1>1, <1>6 DEF Proceed, StaySaving, context, Entering
<1>7. CASE Wake
  <2> DEFINE next == IF phase = "retired" THEN "boundary" ELSE "execute"
  <2>1. CASE service_interrupt(next)
    BY <1>7, <2>1, FrameService DEF Wake
  <2>2. CASE phase' = next /\ UNCHANGED context
    BY <1>1, <2>2 DEF context, Entering
  <2> QED BY <1>7, <2>1, <2>2 DEF Wake
<1>8. CASE PushLow
  BY <1>8, FrameLow
<1>9. CASE PushHigh
  BY <1>9, FrameHigh
<1>10. CASE Instruction
  <2>1. CASE \/ Plain \/ SetFlag \/ ClearFlag \/ WriteIec \/ WriteGie \/ WriteNstdis
             \/ Disi \/ WriteLevel \/ PowerSave \/ WriteTrapSource \/ StackError
    <3>1. phase' = "retire" /\ UNCHANGED <<stack, running>>
      BY <2>1 DEF Plain, SetFlag, ClearFlag, WriteIec, WriteGie, WriteNstdis, Disi,
                  WriteLevel, PowerSave, WriteTrapSource, StackError, Executes, context
    <3> QED BY <1>1, <3>1 DEF Entering
  <2>2. CASE Retfie
    BY <2>2, FrameReturned DEF Retfie, Executes, EntryHonest
  <2>3. CASE AddressError
    BY <2>3, FrameAddressTrap DEF AddressError
  <2>4. CASE ResetInstruction
    BY <2>4, FrameReset DEF ResetInstruction
  <2> QED BY <1>10, <2>1, <2>2, <2>3, <2>4 DEF Instruction
<1>11. CASE Retire
  <2>1. ASSUME NEW cycles \in 1 .. 2, RetireRuns(cycles)
        PROVE  FramesFormed' /\ EntryHonest' /\ NestingOrdered'
    <3> DEFINE p == advance_pending_soft_traps(pending, cycles)
    <3>1. PendingTyped(p) /\ phase = "retire"
      BY <1>11, AdvanceTyped, Retiring DEF TypeInv, TrapsTyped
    <3>2. phase' \notin {"entry", "entry_low"}
      BY <2>1 DEF RetireRuns
    <3>3. CASE PushSoftTrap(p)
      <4>1. FramesFormed' /\ NestingOrdered'
        BY <3>1, <3>3, FrameSoftTrap
      <4> QED BY <3>2, <4>1 DEF EntryHonest
    <3>4. CASE UNCHANGED context
      BY <1>1, <3>2, <3>4 DEF context, Entering
    <3> QED BY <2>1, <3>3, <3>4 DEF RetireRuns
  <2> QED BY <1>11, <2>1, FrameReset, Retiring
<1>12. CASE HostAdvance \/ RaiseInterrupt \/ RaiseOscillatorFail
  BY <1>2, <1>12 DEF HostAdvance, RaiseInterrupt, RaiseOscillatorFail
<1>13. CASE PeripheralReset \/ HostReset
  BY <1>13, FrameReset DEF PeripheralReset, HostReset
<1>14. CASE AdvanceFails
  BY <1>1, <1>14 DEF AdvanceFails, context, Entering
<1>15. CASE DmaTrap
  <2>1. phase \notin {"entry", "entry_low", "failed"} /\ phase' = phase
    BY <1>15 DEF DmaTrap, NoErrorWhileEntering, ClockRuns
  <2>2. PushTrap("dma", 10) \/ PushTrap("dma", 9)
    BY <1>15 DEF DmaTrap
  <2>3. FramesFormed' /\ NestingOrdered'
    <3>1. CASE PushTrap("dma", 10)
      BY <2>1, <3>1, FramePushed
    <3>2. CASE PushTrap("dma", 9)
      BY <2>1, <3>2, FramePushed
    <3> QED BY <2>2, <3>1, <3>2
  <2> QED BY <2>1, <2>3 DEF EntryHonest
<1> QED BY <1>3, <1>4, <1>5, <1>6, <1>7, <1>8, <1>9, <1>10, <1>11, <1>12, <1>15, <1>13,
           <1>14 DEF Next, Processor

LEMMA FrameAlways ==
  ASSUME NoErrorWhileEntering
  PROVE  Spec => []FrameInv
<1>1. FrameInv /\ [Next]_vars => FrameInv'
  BY FrameStep
<1> QED BY <1>1, FrameInit, PTL DEF Spec

\* If no DMA error strikes while an interrupt is being entered, every handler is
\* entered at a level above the one it preempts, whatever levels the program
\* writes and whatever strikes in the other windows.
THEOREM HandlersNest ==
  ASSUME NoErrorWhileEntering
  PROVE  Spec => []NestingOrdered
BY FrameAlways, FrameInvNests, PTL
-----------------------------------------------------------------------------
(***************************************************************************)
(* NSTDIS.  An interrupt taken with it set raises the level to 7, a trap   *)
(* to 8 or more, and an interrupt is only entered from a level below that  *)
(* it raises to, so at most 6.  So it is entered over such a handler only  *)
(* where the level saved with the frame is below that of the activation:   *)
(* the handler, or that of the trap over it, has given its level up.  No   *)
(* assumption on what the handlers write is needed.                        *)
(***************************************************************************)
LevelRaised(a) == /\ a.kind \in {"trap", "dma"} => a.level >= 8
                  /\ a.kind = "user" /\ a.alone => a.level = 7

LevelsRaised == /\ LevelRaised(running)
                /\ \A i \in 1 .. Len(stack) : LevelRaised(stack[i].of)
                /\ phase = "entry_low" /\ nstdis => ipl = 7

MainBelow == \A i \in 1 .. Len(stack) : stack[i].half = "high" => Entered(i).kind # "main"

UserInv == FrameInv /\ LevelsRaised /\ MainBelow /\ OneUserInterrupt

LEMMA UserInit == Init => UserInv
<1> SUFFICES ASSUME Init PROVE LevelsRaised /\ MainBelow /\ OneUserInterrupt
  BY FrameInit DEF UserInv
<1>1. Len(stack) = 0 /\ running.kind = "main" /\ phase = "boundary"
  BY DEF Init, Main
<1> QED BY <1>1 DEF LevelsRaised, LevelRaised, MainBelow, OneUserInterrupt

LEMMA UserReset == WarmReset => LevelsRaised' /\ MainBelow' /\ OneUserInterrupt'
<1>1. Init' => UserInv'
  BY UserInit, PTL
<1> QED BY <1>1, WarmResetInit DEF UserInv

LEMMA UserUntouched ==
  ASSUME UserInv, UNCHANGED <<stack, running>>,
         phase' # "entry_low" \/ UNCHANGED <<phase, nstdis, ipl>>
  PROVE  LevelsRaised' /\ MainBelow' /\ OneUserInterrupt'
<1>1. LevelsRaised'
  BY DEF UserInv, LevelsRaised, LevelRaised
<1>2. MainBelow'
  BY DEF UserInv, MainBelow, Entered
<1>3. OneUserInterrupt'
  BY DEF UserInv, OneUserInterrupt, Entered, GaveUpLevel
<1> QED BY <1>1, <1>2, <1>3

\* Words below n, with what was entered over them, keep the two properties of n.
LEMMA UserBelow ==
  ASSUME UserInv, NEW n \in 0 .. Len(stack),
         \A i \in 1 .. n : stack'[i] = stack[i],
         \A i \in 1 .. n : stack[i].half = "high" => Entered(i)' = Entered(i),
         NEW j \in 1 .. n, stack[j].half = "high"
  PROVE  /\ Entered(j)'.kind # "main"
         /\ \A i \in 1 .. j :
               Entered(j)'.kind = "user" /\ stack'[i].of.kind = "user" /\ stack'[i].of.alone
                 => \E k \in i .. j : GaveUpLevel(k)'
<1>1. Len(stack) \in Nat /\ j \in 1 .. Len(stack) /\ Entered(j)' = Entered(j)
  BY DEF UserInv, FrameInv, TypeInv, ContextTyped
<1>2. Entered(j)'.kind # "main"
  BY <1>1 DEF UserInv, MainBelow
<1>3. ASSUME NEW i \in 1 .. j, Entered(j)'.kind = "user",
             stack'[i].of.kind = "user", stack'[i].of.alone
      PROVE  \E k \in i .. j : GaveUpLevel(k)'
  <2>1. i \in 1 .. n /\ stack[i].of.kind = "user" /\ stack[i].of.alone
    BY <1>1, <1>3
  <2>2. PICK k \in i .. j : GaveUpLevel(k)
    BY <1>1, <1>3, <2>1 DEF UserInv, OneUserInterrupt
  <2>3. k \in 1 .. n
    BY <1>1, <2>1
  <2>4. GaveUpLevel(k)'
    BY <2>2, <2>3 DEF GaveUpLevel
  <2> QED BY <2>4
<1> QED BY <1>2, <1>3

\* A trap raises the level to 8 or more, and no interrupt has been entered over it.
LEMMA UserPushed ==
  ASSUME UserInv, phase \notin {"entry_low", "failed"}, phase' # "entry_low",
         NEW k \in {"trap", "dma"}, NEW pr \in 9 .. 15, PushTrap(k, pr)
  PROVE  LevelsRaised' /\ MainBelow' /\ OneUserInterrupt'
<1> DEFINE n == Len(stack)
<1>1. ContextTyped /\ n \in Nat
  BY DEF UserInv, FrameInv, TypeInv, ContextTyped
<1>2. /\ Len(stack') = n + 2
      /\ \A i \in 1 .. n : stack'[i] = stack[i]
      /\ stack'[n + 1] = LowWord /\ stack'[n + 2] = HighWord
      /\ running'.kind = k /\ running'.level = pr
  <2>1. pr \in 0 .. 15
    OBVIOUS
  <2> QED BY <1>1, <2>1, PushTyped
<1>3. LowWord.half = "low" /\ LowWord.of = running /\ HighWord.of = running
  BY DEF LowWord, HighWord
<1> HIDE DEF n
<1>4. LevelsRaised'
  <2>1. LevelRaised(running')
    BY <1>2 DEF LevelRaised
  <2>2. LevelRaised(running) /\ \A i \in 1 .. n : LevelRaised(stack[i].of)
    BY DEF UserInv, LevelsRaised, n
  <2>3. ASSUME NEW i \in 1 .. n + 2 PROVE LevelRaised(stack'[i].of)
    <3>1. CASE i \in 1 .. n
      BY <1>2, <2>2, <3>1
    <3>2. CASE i \notin 1 .. n
      <4>1. stack'[i].of = running
        BY <1>1, <1>2, <1>3, <3>2
      <4> QED BY <2>2, <4>1
    <3> QED BY <3>1, <3>2
  <2> QED BY <1>2, <2>1, <2>3 DEF LevelsRaised, LevelRaised
<1>5. ASSUME NEW i \in 1 .. n PROVE Entered(i)' = Entered(i)
  <2>1. i # n + 2
    BY <1>1
  <2>2. CASE i = n
    BY <1>2, <1>3, <2>1, <2>2 DEF Entered, n
  <2>3. CASE i # n
    <3>1. i + 1 \in 1 .. n
      BY <1>1, <2>3
    <3> QED BY <1>2, <2>1, <2>3, <3>1 DEF Entered, n
  <2> QED BY <2>2, <2>3
<1>6. ASSUME NEW j \in 1 .. n + 2, stack'[j].half = "high"
      PROVE  /\ Entered(j)'.kind # "main"
             /\ \A i \in 1 .. j :
                  Entered(j)'.kind = "user" /\ stack'[i].of.kind = "user" /\ stack'[i].of.alone
                     => \E l \in i .. j : GaveUpLevel(l)'
  <2>1. CASE j \in 1 .. n
    <3>1. n \in 0 .. Len(stack) /\ stack[j].half = "high"
      BY <1>1, <1>2, <1>6, <2>1 DEF n
    <3> QED BY <1>2, <1>5, <2>1, <3>1, UserBelow
  <2>2. CASE j = n + 1
    BY <1>2, <1>3, <1>6, <2>2
  <2>3. CASE j = n + 2
    BY <1>2, <2>3 DEF Entered
  <2> QED BY <1>1, <2>1, <2>2, <2>3
<1>7. MainBelow' /\ OneUserInterrupt'
  BY <1>2, <1>6 DEF MainBelow, OneUserInterrupt
<1> QED BY <1>4, <1>7

LEMMA UserReturned ==
  ASSUME UserInv, Retfie
  PROVE  LevelsRaised' /\ MainBelow' /\ OneUserInterrupt'
<1> DEFINE n == Len(stack)
<1>1. /\ n \in Nat /\ n >= 2 /\ Len(stack') = n - 2
      /\ \A i \in 1 .. n - 2 : stack'[i] = stack[i]
      /\ running' = stack[n - 1].of
      /\ phase' = "retire"
  BY FramePopped DEF UserInv, FrameInv, TypeInv, Retfie, Executes
<1> HIDE DEF n
<1>2. n - 2 \in 0 .. n /\ n - 1 \in 1 .. n /\ \A i \in 1 .. n - 2 : i \in 1 .. n
  BY <1>1
<1>3. LevelsRaised'
  <2>1. \A i \in 1 .. n : LevelRaised(stack[i].of)
    BY DEF UserInv, LevelsRaised, n
  <2> QED BY <1>1, <1>2, <2>1 DEF LevelsRaised, LevelRaised
<1>4. ASSUME NEW i \in 1 .. n - 2 PROVE Entered(i)' = Entered(i)
  <2>1. i # n
    BY <1>1
  <2>2. CASE i = n - 2
    <3>1. i + 1 = n - 1
      BY <1>1, <2>2
    <3> QED BY <1>1, <2>1, <2>2, <3>1 DEF Entered, n
  <2>3. CASE i # n - 2
    <3>1. i + 1 \in 1 .. n - 2
      BY <1>1, <2>3
    <3> QED BY <1>1, <2>1, <2>3, <3>1 DEF Entered, n
  <2> QED BY <2>2, <2>3
<1>5. ASSUME NEW j \in 1 .. n - 2, stack'[j].half = "high"
      PROVE  /\ Entered(j)'.kind # "main"
             /\ \A i \in 1 .. j :
                  Entered(j)'.kind = "user" /\ stack'[i].of.kind = "user" /\ stack'[i].of.alone
                     => \E l \in i .. j : GaveUpLevel(l)'
  <2>1. n - 2 \in 0 .. Len(stack) /\ stack[j].half = "high"
    BY <1>1, <1>2, <1>5 DEF n
  <2> QED BY <1>1, <1>4, <2>1, UserBelow
<1>6. MainBelow' /\ OneUserInterrupt'
  BY <1>1, <1>5 DEF MainBelow, OneUserInterrupt
<1> QED BY <1>3, <1>6

\* The two halves of an entry: it enters nothing yet, and it raises the level.
LEMMA UserLow ==
  ASSUME UserInv, PushLow
  PROVE  LevelsRaised' /\ MainBelow' /\ OneUserInterrupt'
<1> DEFINE n == Len(stack)
<1>1. stack \in Seq(Word) /\ LowWord \in Word /\ n \in Nat
  BY LevelTyped DEF UserInv, FrameInv, TypeInv, ContextTyped
<1>2. stack' = Append(stack, LowWord) /\ nstdis' = nstdis
      /\ running' = running /\ ipl' = EntryLevel
  BY DEF PushLow, TurnOver
<1>3. LowWord.half = "low" /\ LowWord.of = running
  BY DEF LowWord
<1>4. /\ Len(stack') = n + 1 /\ stack'[n + 1] = LowWord
      /\ \A i \in 1 .. n : stack'[i] = stack[i]
  <2> HIDE DEF LowWord
  <2> QED BY <1>1, <1>2
<1> HIDE DEF n
<1>5. LevelsRaised'
  <2>1. nstdis' => ipl' = 7
    BY <1>2 DEF EntryLevel
  <2>2. LevelRaised(running) /\ \A i \in 1 .. n : LevelRaised(stack[i].of)
    BY DEF UserInv, LevelsRaised, n
  <2>3. \A i \in 1 .. n + 1 : LevelRaised(stack'[i].of)
    BY <1>1, <1>3, <1>4, <2>2
  <2> QED BY <1>2, <1>4, <2>1, <2>2, <2>3 DEF LevelsRaised, LevelRaised
<1>6. ASSUME NEW i \in 1 .. n PROVE Entered(i)' = Entered(i)
  <2>1. CASE i = n
    BY <1>1, <1>3, <1>4, <2>1 DEF Entered, n
  <2>2. CASE i # n
    <3>1. i + 1 \in 1 .. n /\ i # n + 1
      BY <1>1, <2>2
    <3> QED BY <1>4, <2>2, <3>1 DEF Entered, n
  <2> QED BY <2>1, <2>2
<1>7. ASSUME NEW j \in 1 .. n + 1, stack'[j].half = "high"
      PROVE  /\ Entered(j)'.kind # "main"
             /\ \A i \in 1 .. j :
                  Entered(j)'.kind = "user" /\ stack'[i].of.kind = "user" /\ stack'[i].of.alone
                     => \E l \in i .. j : GaveUpLevel(l)'
  <2>1. j \in 1 .. n
    BY <1>1, <1>3, <1>4, <1>7
  <2>2. n \in 0 .. Len(stack) /\ stack[j].half = "high"
    BY <1>1, <1>4, <1>7, <2>1 DEF n
  <2> QED BY <1>4, <1>6, <2>1, <2>2, UserBelow
<1>8. MainBelow' /\ OneUserInterrupt'
  BY <1>4, <1>7 DEF MainBelow, OneUserInterrupt
<1> QED BY <1>5, <1>8

LEMMA UserHigh ==
  ASSUME UserInv, PushHigh
  PROVE  LevelsRaised' /\ MainBelow' /\ OneUserInterrupt'
<1> DEFINE n == Len(stack)
<1>1. /\ stack \in Seq(Word) /\ entry.high \in Word
      /\ n \in Nat /\ n % 2 = 1 /\ phase = "entry_low"
      /\ ipl \in 0 .. 7 /\ running \in Activation
  BY DEF UserInv, FrameInv, TypeInv, ContextTyped, EntryTyped, StackParity, PushHigh
<1>2. /\ entry.high.half = "high" /\ entry.high.of = running
      /\ stack[n].of = running /\ entry.high.level < ipl
  BY <1>1 DEF UserInv, FrameInv, EntryHonest
<1>3. /\ stack' = Append(stack, entry.high)
      /\ running'.kind = "user" /\ running'.level = ipl /\ running'.alone = nstdis
      /\ phase' # "entry_low"
  BY DEF PushHigh, UserInv, FrameInv, TypeInv, EntryTyped
<1>4. /\ Len(stack') = n + 1 /\ stack'[n + 1] = entry.high
      /\ \A i \in 1 .. n : stack'[i] = stack[i]
  BY <1>1, <1>3
<1> HIDE DEF n
<1>5. LevelRaised(running) /\ \A i \in 1 .. n : LevelRaised(stack[i].of)
  BY DEF UserInv, LevelsRaised, n
<1>6. LevelsRaised'
  <2>1. nstdis => ipl = 7
    BY <1>1 DEF UserInv, LevelsRaised
  <2>2. LevelRaised(running')
    BY <1>3, <2>1 DEF LevelRaised
  <2>3. \A i \in 1 .. n + 1 : LevelRaised(stack'[i].of)
    BY <1>1, <1>2, <1>4, <1>5
  <2> QED BY <1>3, <1>4, <2>2, <2>3 DEF LevelsRaised, LevelRaised
<1>7. n % 2 = 1 /\ n \in 1 .. Len(stack) /\ stack[n].half = "low"
  <2>1. n % 2 = 1 /\ n \in 1 .. Len(stack)
    BY <1>1 DEF n
  <2> QED BY <2>1 DEF UserInv, FrameInv, FramesFormed
<1>8. ASSUME NEW i \in 1 .. n, stack[i].half = "high" PROVE Entered(i)' = Entered(i)
  <2>1. i # n /\ i + 1 \in 1 .. n /\ i # n + 1
    BY <1>1, <1>7, <1>8
  <2> QED BY <1>4, <2>1 DEF Entered, n
<1>9. ASSUME NEW j \in 1 .. n + 1, stack'[j].half = "high"
      PROVE  /\ Entered(j)'.kind # "main"
             /\ \A i \in 1 .. j :
                  Entered(j)'.kind = "user" /\ stack'[i].of.kind = "user" /\ stack'[i].of.alone
                     => \E l \in i .. j : GaveUpLevel(l)'
  <2>1. CASE j \in 1 .. n
    <3>1. n \in 0 .. Len(stack) /\ stack[j].half = "high"
      BY <1>1, <1>4, <1>9, <2>1 DEF n
    <3> QED BY <1>4, <1>8, <2>1, <3>1, UserBelow
  <2>2. CASE j = n + 1
    <3>1. Entered(j)' = running'
      BY <1>4, <2>2 DEF Entered
    <3> SUFFICES ASSUME NEW i \in 1 .. n + 1,
                        stack'[i].of.kind = "user", stack'[i].of.alone
                 PROVE  \E l \in i .. n + 1 : GaveUpLevel(l)'
      BY <1>3, <2>2, <3>1
    <3>2. ASSUME running.level >= 7
          PROVE  \E l \in i .. n + 1 : GaveUpLevel(l)'
      <4>1. PICK l \in i .. n + 1 : l = n + 1
        BY <1>1
      <4>2. entry.high.level < running.level
        <5>1. entry.high.level \in 0 .. 15 /\ running.level \in 0 .. 15
          BY <1>1, Zenon DEF Word, Activation
        <5>2. ipl \in 0 .. 7 /\ entry.high.level < ipl
          BY <1>1, <1>2, Zenon
        <5> QED BY <3>2, <5>1, <5>2
      <4>3. stack'[l] = entry.high
        BY <1>4, <4>1
      <4>4. GaveUpLevel(l)'
        BY <1>2, <4>2, <4>3, Zenon DEF GaveUpLevel
      <4> QED BY <4>4
    <3>3. CASE i \in {n, n + 1}
      <4>1. stack'[i].of = running
        BY <1>1, <1>2, <1>4, <3>3
      <4>2. running.level = 7
        BY <1>5, <4>1 DEF LevelRaised
      <4> QED BY <3>2, <4>2
    <3>4. CASE i \notin {n, n + 1}
      <4> DEFINE m == n - 1
      <4>1. m \in 1 .. Len(stack) /\ i \in 1 .. m /\ m \in 1 .. n /\ m % 2 # 1 /\ m + 1 = n
            /\ m # Len(stack)
        BY <1>1, <3>4 DEF n
      <4>2. stack[m].half = "high" /\ Entered(m) = running
        BY <1>2, <4>1 DEF UserInv, FrameInv, FramesFormed, Entered
      <4>3. i \in 1 .. n /\ m \in Nat /\ i \in 1 .. m
        BY <1>1, <4>1
      <4> HIDE DEF m
      <4>4. running.kind # "main"
        BY <4>1, <4>2 DEF UserInv, MainBelow
      <4>5. CASE running.kind \in {"trap", "dma"}
        <5>1. running.level >= 8 /\ running.level \in Int
          BY <1>1, <1>5, <4>5 DEF LevelRaised, Activation
        <5>2. running.level >= 7
          BY <5>1
        <5> QED BY <3>2, <5>2
      <4>6. CASE running.kind = "user"
        <5>1. stack[i].of.kind = "user" /\ stack[i].of.alone
          BY <1>4, <4>3
        <5>2. PICK l \in i .. m : GaveUpLevel(l)
          BY <4>1, <4>2, <4>3, <4>6, <5>1 DEF UserInv, OneUserInterrupt
        <5>3. l \in 1 .. n /\ l \in i .. n + 1
          BY <1>1, <4>1, <4>3, <5>2
        <5>4. GaveUpLevel(l)'
          BY <1>4, <5>2, <5>3 DEF GaveUpLevel
        <5> QED BY <5>3, <5>4
      <4>7. running.kind \in {"main", "user", "trap", "dma"}
        BY <1>1 DEF Activation
      <4> QED BY <4>4, <4>5, <4>6, <4>7
    <3> QED BY <3>3, <3>4
  <2> QED BY <1>1, <2>1, <2>2
<1>10. MainBelow' /\ OneUserInterrupt'
  BY <1>4, <1>9 DEF MainBelow, OneUserInterrupt
<1> QED BY <1>6, <1>10

LEMMA UserAddressTrap ==
  ASSUME UserInv, NEW next \in {"boundary", "execute", "retire"},
         phase \notin {"entry_low", "failed"}, EnterAddressTrap(next)
  PROVE  LevelsRaised' /\ MainBelow' /\ OneUserInterrupt'
<1>1. CASE WarmReset
  BY <1>1, UserReset
<1>2. CASE PushTrap("trap", 14) /\ phase' = next
  BY <1>2, UserPushed
<1> QED BY <1>1, <1>2 DEF EnterAddressTrap

LEMMA UserService ==
  ASSUME UserInv, NEW next \in {"boundary", "execute"}, service_interrupt(next),
         phase \in {"boundary", "retired"}
  PROVE  LevelsRaised' /\ MainBelow' /\ OneUserInterrupt'
<1>1. \/ phase' = "entry" /\ UNCHANGED context
      \/ WarmReset
      \/ EnterAddressTrap(next)
  BY DEF service_interrupt
<1>2. CASE EnterAddressTrap(next)
  BY <1>2, UserAddressTrap
<1>3. CASE phase' = "entry" /\ UNCHANGED context
  BY <1>3, UserUntouched DEF context
<1> QED BY <1>1, <1>2, <1>3, UserReset

LEMMA UserSoftTrap ==
  ASSUME UserInv, NEW p, PendingTyped(p), PushSoftTrap(p),
         phase \notin {"entry_low", "failed"}, phase' # "entry_low"
  PROVE  LevelsRaised' /\ MainBelow' /\ OneUserInterrupt'
<1>1. PICK t \in DOMAIN p : TrapPriority[t] \in 9 .. 15 /\ PushTrap("trap", TrapPriority[t])
  BY SoftTrapPushed DEF UserInv, FrameInv, TypeInv
<1> QED BY <1>1, UserPushed

LEMMA UserStep ==
  ASSUME NoErrorWhileEntering, UserInv, [Next]_vars
  PROVE  UserInv'
<1> SUFFICES LevelsRaised' /\ MainBelow' /\ OneUserInterrupt'
  BY FrameStep DEF UserInv
<1> TypeInv
  BY DEF UserInv, FrameInv
<1>1. CASE UNCHANGED vars
  BY <1>1, UserUntouched DEF vars, mask, context
<1>2. CASE DispatchTrap
  <2>1. CASE PushSoftTrap(pending) /\ phase' = "execute"
    BY <1>2, <2>1, UserSoftTrap DEF DispatchTrap, TypeInv, TrapsTyped
  <2> QED BY <1>2, <2>1, UserReset DEF DispatchTrap
<1>3. CASE DispatchInterrupt
  BY <1>3, UserService DEF DispatchInterrupt
<1>4. CASE Proceed \/ StaySaving \/ AdvanceFails
  BY <1>4, UserUntouched DEF Proceed, StaySaving, AdvanceFails, context
<1>5. CASE Wake
  <2> DEFINE next == IF phase = "retired" THEN "boundary" ELSE "execute"
  <2>1. CASE service_interrupt(next)
    BY <1>5, <2>1, UserService DEF Wake
  <2>2. CASE phase' = next /\ UNCHANGED context
    BY <2>2, UserUntouched DEF context
  <2> QED BY <1>5, <2>1, <2>2 DEF Wake
<1>6. CASE PushLow
  BY <1>6, UserLow
<1>7. CASE PushHigh
  BY <1>7, UserHigh
<1>8. CASE Instruction
  <2>1. CASE \/ Plain \/ SetFlag \/ ClearFlag \/ WriteIec \/ WriteGie \/ WriteNstdis
             \/ Disi \/ WriteLevel \/ PowerSave \/ WriteTrapSource \/ StackError
    <3>1. phase' = "retire" /\ UNCHANGED <<stack, running>>
      BY <2>1 DEF Plain, SetFlag, ClearFlag, WriteIec, WriteGie, WriteNstdis, Disi,
                  WriteLevel, PowerSave, WriteTrapSource, StackError, Executes, context
    <3> QED BY <3>1, UserUntouched
  <2>2. CASE Retfie
    BY <2>2, UserReturned
  <2>3. CASE AddressError
    BY <2>3, UserAddressTrap DEF AddressError
  <2>4. CASE ResetInstruction
    BY <2>4, UserReset DEF ResetInstruction
  <2> QED BY <1>8, <2>1, <2>2, <2>3, <2>4 DEF Instruction
<1>9. CASE Retire
  <2>1. ASSUME NEW cycles \in 1 .. 2, RetireRuns(cycles)
        PROVE  LevelsRaised' /\ MainBelow' /\ OneUserInterrupt'
    <3> DEFINE p == advance_pending_soft_traps(pending, cycles)
    <3>1. PendingTyped(p) /\ phase = "retire" /\ phase' # "entry_low"
      BY <1>9, <2>1, AdvanceTyped, Retiring DEF TypeInv, TrapsTyped, RetireRuns
    <3>2. CASE PushSoftTrap(p)
      BY <3>1, <3>2, UserSoftTrap
    <3>3. CASE UNCHANGED context
      BY <3>1, <3>3, UserUntouched DEF context
    <3> QED BY <2>1, <3>2, <3>3 DEF RetireRuns
  <2> QED BY <1>9, <2>1, UserReset, Retiring
<1>10. CASE HostAdvance \/ RaiseInterrupt \/ RaiseOscillatorFail
  BY <1>10, UserUntouched
     DEF HostAdvance, TurnOver, RaiseInterrupt, RaiseOscillatorFail, mask, context
<1>11. CASE DmaTrap
  <2>1. phase \notin {"entry_low", "failed"} /\ phase' # "entry_low"
    BY <1>11 DEF DmaTrap, NoErrorWhileEntering, ClockRuns
  <2>2. PushTrap("dma", 10) \/ PushTrap("dma", 9)
    BY <1>11 DEF DmaTrap
  <2>3. CASE PushTrap("dma", 10)
    BY <2>1, <2>3, UserPushed
  <2>4. CASE PushTrap("dma", 9)
    BY <2>1, <2>4, UserPushed
  <2> QED BY <2>2, <2>3, <2>4
<1>12. CASE PeripheralReset \/ HostReset
  BY <1>12, UserReset DEF PeripheralReset, HostReset
<1> QED BY <1>1, <1>2, <1>3, <1>4, <1>5, <1>6, <1>7, <1>8, <1>9, <1>10, <1>11, <1>12
        DEF Next, Processor

\* If no DMA error strikes while an interrupt is being entered, an interrupt that
\* was entered with NSTDIS set is preempted by another only after the handler, or
\* that of a trap over it, has given up its level; however many traps come in
\* between, in whatever order they return, and whatever levels the handlers write.
THEOREM UsersAlone ==
  ASSUME NoErrorWhileEntering
  PROVE  Spec => []OneUserInterrupt
<1>1. UserInv /\ [Next]_vars => UserInv'
  BY UserStep
<1>2. UserInv => OneUserInterrupt
  BY DEF UserInv
<1> QED BY <1>1, <1>2, UserInit, PTL DEF Spec
=============================================================================
