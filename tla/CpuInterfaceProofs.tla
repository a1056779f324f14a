------------------------- MODULE CpuInterfaceProofs -------------------------
(***************************************************************************)
(* Theorems about CpuInterface, for any tasks, any handlers of any         *)
(* urgencies above PendSV's, and any nesting depth.                        *)
(***************************************************************************)
EXTENDS CpuInterface, TLAPS

(* What a frame has added to the counter and not taken off again.          *)
Inside(f) == f.depth + (IF f.pc = "disable" THEN 1 ELSE 0)
                     - (IF f.pc = "enable" THEN 1 ELSE 0)

Interrupts == Handlers \union {PendSV}

Indices == 1 .. Len(frames)

(* One task with handlers above it; a frame is interrupted only outside of *)
(* its critical sections, PendSV only interrupts a task.                   *)
StackInv ==
    /\ frames[1].who \in Tasks \union {Main} /\ frames[1].base = 0
    /\ \A i \in Indices : i > 1 => frames[i].who \in Interrupts
    /\ \A i \in Indices : i < Len(frames) =>
          frames[i].depth = 0 /\ frames[i].pc \in {"run", "store_inc", "disable"}
    /\ \A i \in Indices : frames[i].who = PendSV =>
          i = 2 /\ frames[i].base = 0 /\ frames[i].depth = 0 /\ frames[i].pc = "run"
    /\ top.pc \in {"store_dec", "enable"} => top.depth > 0

(* A frame began with the counter at what the frames below it hold.        *)
ChainInv ==
    /\ \A i, j \in Indices : i < j =>
          frames[i].base + Inside(frames[i]) <= frames[j].base
    /\ \A i \in Indices : i < Len(frames) =>
          frames[i + 1].base = frames[i].base + Inside(frames[i])

(* The counter is the sum over all frames, and a register that is about to *)
(* be stored or tested is not out of date.                                 *)
NestInv ==
    /\ nest = top.base + Inside(top)
    /\ top.pc = "enable" => top.value = nest
    /\ monitor /\ top.pc \in {"store_inc", "store_dec"} => top.value = nest

(* When interrupts are disabled, and when they may be.                     *)
MaskInv ==
    /\ top.depth > 0 => primask
    /\ \A i \in Indices :
          frames[i].who \in Handlers /\ frames[i].stage # "entry" /\ frames[i].base > 0 => primask
    /\ frames[1].pc = "disable" /\ pend => primask
    /\ primask /\ started =>
          nest > 0 \/ top.pc = "enable" \/ (top.who = PendSV /\ top.stage = "masked")
    /\ pend => started

HasMasked(f) == f.who \in Handlers /\ f.stage = "masked"

(* The mask in effect below frame i of the stack fr.                       *)
Level(fr, i) ==
    IF \E j \in 1 .. Len(fr) : j < i /\ HasMasked(fr[j]) THEN TickMask ELSE 0

BasepriInv ==
    /\ basepri = Level(frames, Len(frames) + 1)
    /\ \A i \in Indices : HasMasked(frames[i]) => frames[i].mask = Level(frames, i)

(* A task that is switched out is outside of critical sections.            *)
ParkedInv ==
    \A t \in Tasks : /\ parked[t].who = t /\ parked[t].base = 0
                     /\ parked[t].depth = 0 /\ parked[t].pc \in {"run", "store_inc"}

Inv == /\ TypeOK
       /\ StackInv
       /\ ChainInv
       /\ NestInv
       /\ MaskInv
       /\ BasepriInv
       /\ ParkedInv

-----------------------------------------------------------------------------
LEMMA InsideType ==
    ASSUME NEW f \in Frames
    PROVE  /\ Inside(f) \in Int
           /\ f.pc \notin {"disable", "enable"} => Inside(f) = f.depth
           /\ f.pc = "disable" => Inside(f) = f.depth + 1
           /\ f.pc = "enable" => Inside(f) = f.depth - 1
BY DEF Inside, Frames

LEMMA TopType ==
    ASSUME TypeOK
    PROVE  /\ Len(frames) \in Nat \ {0}
           /\ Len(frames) \in Indices /\ 1 \in Indices
           /\ top = frames[Len(frames)]
           /\ top \in Frames
           /\ \A i \in Indices : frames[i] \in Frames
BY DEF TypeOK, top, Last, Indices

LEMMA NewFrame ==
    \A w \in Tasks \union Handlers \union {PendSV, Main}, b \in Nat :
       /\ Frame(w, b) \in Frames
       /\ Frame(w, b).who = w /\ Frame(w, b).base = b
       /\ Frame(w, b).pc = "run" /\ Frame(w, b).depth = 0
       /\ Frame(w, b).stage = "entry"
BY DEF Frame, Frames, NoMask

LEMMA ActiveFrames ==
    ASSUME TypeOK, NEW f \in Frames, Active(f)
    PROVE  /\ frames' \in Seq(Frames) \ {<< >>}
           /\ Len(frames') = Len(frames)
           /\ Indices' = Indices
           /\ frames'[Len(frames)] = f
           /\ top' = f
           /\ \A i \in Indices : i # Len(frames) => frames'[i] = frames[i]
<1>1. frames' = [frames EXCEPT ![Len(frames)] = f]
  BY DEF Active
<1>2. frames \in Seq(Frames) /\ Len(frames) \in Nat \ {0}
  BY TopType DEF TypeOK
<1>3. /\ frames' \in Seq(Frames)
      /\ Len(frames') = Len(frames)
  BY <1>1, <1>2
<1>4. /\ frames'[Len(frames)] = f
      /\ \A i \in Indices : i # Len(frames) => frames'[i] = frames[i]
  BY <1>1, <1>2 DEF Indices
<1> QED
  BY <1>2, <1>3, <1>4 DEF Indices, top, Last

LEMMA Initial == Init => Inv
<1> SUFFICES ASSUME Init PROVE Inv
  OBVIOUS
<1> DEFINE m == Frame(Main, 0)
<1>1. /\ m \in Frames
      /\ m.who = Main /\ m.base = 0 /\ m.pc = "run" /\ m.depth = 0 /\ m.stage = "entry"
  BY NewFrame
<1>2. \A t \in Tasks : /\ Frame(t, 0) \in Frames
                       /\ Frame(t, 0).who = t /\ Frame(t, 0).base = 0
                       /\ Frame(t, 0).pc = "run" /\ Frame(t, 0).depth = 0
  BY NewFrame
<1> HIDE DEF m
<1>3. frames = <<m>> /\ frames \in Seq(Frames) /\ Len(frames) = 1 /\ frames[1] = m
  BY <1>1 DEF Init, m
<1>4. TypeOK
  <2>1. parked \in [Tasks -> Frames]
    BY <1>2 DEF Init
  <2>2. frames \in Seq(Frames) \ {<< >>}
    BY <1>3
  <2> QED
    BY <2>1, <2>2 DEF Init, TypeOK
<1>5. top = m /\ Indices = {1}
  BY <1>3 DEF top, Last, Indices
<1>6. Inside(m) = 0
  BY <1>1, InsideType
<1>7. StackInv /\ ChainInv
  BY <1>1, <1>3, <1>5, CpuAssumption DEF StackInv, ChainInv
<1>8. NestInv
  BY <1>1, <1>5, <1>6 DEF NestInv, Init
<1>9. MaskInv
  BY <1>1, <1>3, <1>5 DEF MaskInv, Init
<1>10. ~HasMasked(m)
  BY <1>1 DEF HasMasked
<1>11. BasepriInv
  BY <1>3, <1>5, <1>10 DEF BasepriInv, Level, Init
<1>12. ParkedInv
  BY <1>2 DEF ParkedInv, Init
<1> QED
  BY <1>4, <1>7, <1>8, <1>9, <1>11, <1>12 DEF Inv

-----------------------------------------------------------------------------
(* Steps of the active frame: the rest of the stack stays as it is.        *)

LEMMA ActiveStack ==
    ASSUME TypeOK, StackInv, NEW f \in Frames, Active(f),
           f.who = top.who, f.base = top.base,
           f.who # PendSV \/ (f.depth = 0 /\ f.pc = "run"),
           f.pc \in {"store_dec", "enable"} => f.depth > 0
    PROVE  StackInv'
<1> USE TopType, ActiveFrames
<1>1. frames'[1].who \in Tasks \union {Main} /\ frames'[1].base = 0
  BY DEF StackInv
<1>2. \A i \in Indices' : i > 1 => frames'[i].who \in Interrupts
  BY DEF StackInv
<1>3. \A i \in Indices' : i < Len(frames') =>
         frames'[i].depth = 0 /\ frames'[i].pc \in {"run", "store_inc", "disable"}
  BY DEF StackInv
<1>4. \A i \in Indices' : frames'[i].who = PendSV =>
         i = 2 /\ frames'[i].base = 0 /\ frames'[i].depth = 0 /\ frames'[i].pc = "run"
  BY DEF StackInv
<1> QED
  BY <1>1, <1>2, <1>3, <1>4 DEF StackInv

LEMMA ActiveChain ==
    ASSUME TypeOK, ChainInv, NEW f \in Frames, Active(f), f.base = top.base
    PROVE  ChainInv'
<1> USE TopType, ActiveFrames
<1>1. \A i \in Indices : i < Len(frames) => frames'[i] = frames[i]
  OBVIOUS
<1>2. \A i \in Indices : frames'[i].base = frames[i].base
  OBVIOUS
<1>3. \A i \in Indices : i < Len(frames) => i + 1 \in Indices
  BY DEF Indices
<1>4. \A i, j \in Indices : i < j => i < Len(frames)
  BY DEF Indices
<1>5. \A i, j \in Indices' : i < j =>
         frames'[i].base + Inside(frames'[i]) <= frames'[j].base
  BY <1>1, <1>2, <1>4 DEF ChainInv
<1>6. \A i \in Indices' : i < Len(frames') =>
         frames'[i + 1].base = frames'[i].base + Inside(frames'[i])
  BY <1>1, <1>2, <1>3 DEF ChainInv
<1> QED
  BY <1>5, <1>6 DEF ChainInv

LEMMA ActiveBasepri ==
    ASSUME TypeOK, BasepriInv, NEW f \in Frames, Active(f),
           f.who = top.who, f.stage = top.stage, f.mask = top.mask,
           UNCHANGED basepri
    PROVE  BasepriInv'
<1> USE TopType, ActiveFrames
<1>1. \A i \in Indices : HasMasked(frames'[i]) = HasMasked(frames[i])
  BY DEF HasMasked
<1>2. \A i : Level(frames', i) = Level(frames, i)
  BY <1>1 DEF Level, Indices
<1>3. \A i \in Indices : frames'[i].mask = frames[i].mask
  OBVIOUS
<1> QED
  BY <1>1, <1>2, <1>3 DEF BasepriInv

-----------------------------------------------------------------------------
(* vd_cpu_disableInterrupts and vd_cpu_enableInterrupts.                   *)

LEMMA BasesBelow ==
    ASSUME Inv
    PROVE  /\ \A i \in Indices : frames[i].base \in Nat /\ frames[i].base <= top.base
           /\ frames[1].pc = "disable" /\ Len(frames) > 1 => top.base > 0
<1> USE TopType
<1>1. TypeOK /\ StackInv /\ ChainInv
  BY DEF Inv
<1>2. \A i \in Indices : frames[i].base \in Nat
  BY <1>1 DEF Frames
<1>3. \A i \in Indices : i < Len(frames) =>
         /\ Inside(frames[i]) \in Nat
         /\ frames[i].pc = "disable" => Inside(frames[i]) = 1
  BY <1>1, InsideType DEF StackInv
<1>4. \A i \in Indices : i < Len(frames) =>
         frames[i].base + Inside(frames[i]) <= top.base
  BY <1>1 DEF ChainInv
<1>5. top.base \in Nat
  BY <1>1, <1>2
<1>6. \A i \in Indices : i < Len(frames) =>
         /\ frames[i].base <= top.base
         /\ frames[i].pc = "disable" => top.base > 0
  BY <1>2, <1>3, <1>4, <1>5
<1>7. \A i \in Indices : i = Len(frames) \/ i < Len(frames)
  BY <1>1 DEF Indices
<1>8. \A i \in Indices : frames[i].base <= top.base
  BY <1>1, <1>5, <1>6, <1>7
<1>9. frames[1].pc = "disable" /\ Len(frames) > 1 => top.base > 0
  BY <1>1, <1>6
<1> QED
  BY <1>2, <1>8, <1>9

LEMMA SameStage ==
    ASSUME Inv, NEW f \in Frames, Active(f),
           f.who = top.who, f.base = top.base, f.stage = top.stage, f.mask = top.mask,
           f.who # PendSV, f.pc \in {"store_dec", "enable"} => f.depth > 0,
           UNCHANGED <<basepri, parked>>
    PROVE  StackInv' /\ ChainInv' /\ BasepriInv' /\ ParkedInv'
<1>1. TypeOK /\ StackInv /\ ChainInv /\ BasepriInv /\ ParkedInv
  BY DEF Inv
<1>2. StackInv'
  BY <1>1, ActiveStack
<1>3. ChainInv'
  BY <1>1, ActiveChain
<1>4. BasepriInv'
  BY <1>1, ActiveBasepri
<1>5. ParkedInv'
  BY <1>1 DEF ParkedInv
<1> QED
  BY <1>2, <1>3, <1>4, <1>5

(* PendSV's handler never enters the two functions.                        *)
LEMMA NotPendSV ==
    ASSUME Inv, top.pc # "run" \/ top.depth > 0
    PROVE  top.who # PendSV
BY TopType DEF Inv, StackInv

LEMMA LoadsToEnter == Inv /\ LoadToEnter => Inv'
<1> SUFFICES ASSUME Inv, LoadToEnter PROVE Inv'
  OBVIOUS
<1> DEFINE f == [top EXCEPT !.pc = "store_inc", !.value = nest]
<1>1. TypeOK /\ NestInv /\ MaskInv
  BY DEF Inv
<1>2. /\ top \in Frames /\ top.pc = "run" /\ top.who # PendSV
      /\ Active(f)
      /\ UNCHANGED <<nest, primask, basepri, pend, parked, started>> /\ monitor' = TRUE
  BY <1>1, TopType DEF LoadToEnter, At, MayEnter
<1>3. /\ f \in Frames /\ f.pc = "store_inc" /\ f.value = nest /\ f.depth = top.depth
      /\ f.who = top.who /\ f.base = top.base
      /\ f.stage = top.stage /\ f.mask = top.mask
  <2>1. nest \in Int
    BY <1>1 DEF TypeOK
  <2> QED
    BY <1>2, <2>1 DEF Frames
<1> HIDE DEF f
<1>4. Inside(f) = Inside(top)
  BY <1>2, <1>3, InsideType
<1>5. StackInv' /\ ChainInv' /\ BasepriInv' /\ ParkedInv'
  BY <1>2, <1>3, SameStage
<1>6. TypeOK'
  BY <1>1, <1>2, <1>3, ActiveFrames DEF TypeOK, NestInv
<1>7. NestInv'
  BY <1>1, <1>2, <1>3, <1>4, ActiveFrames DEF NestInv
<1>8. MaskInv'
  BY <1>1, <1>2, <1>3, TopType, ActiveFrames DEF MaskInv
<1> QED
  BY <1>5, <1>6, <1>7, <1>8 DEF Inv

LEMMA LoadsToExit == Inv /\ LoadToExit => Inv'
<1> SUFFICES ASSUME Inv, LoadToExit PROVE Inv'
  OBVIOUS
<1> DEFINE f == [top EXCEPT !.pc = "store_dec", !.value = nest]
<1>1. TypeOK /\ NestInv /\ MaskInv
  BY DEF Inv
<1>2. /\ top \in Frames /\ top.pc = "run" /\ top.depth > 0 /\ top.who # PendSV
      /\ Active(f)
      /\ UNCHANGED <<nest, primask, basepri, pend, parked, started>> /\ monitor' = TRUE
  BY <1>1, TopType, NotPendSV DEF LoadToExit, At, MayExit
<1>3. /\ f \in Frames /\ f.pc = "store_dec" /\ f.value = nest /\ f.depth = top.depth
      /\ f.who = top.who /\ f.base = top.base
      /\ f.stage = top.stage /\ f.mask = top.mask
  <2>1. nest \in Int
    BY <1>1 DEF TypeOK
  <2> QED
    BY <1>2, <2>1 DEF Frames
<1> HIDE DEF f
<1>4. Inside(f) = Inside(top)
  BY <1>2, <1>3, InsideType
<1>5. StackInv' /\ ChainInv' /\ BasepriInv' /\ ParkedInv'
  BY <1>2, <1>3, SameStage
<1>6. TypeOK'
  BY <1>1, <1>2, <1>3, ActiveFrames DEF TypeOK, NestInv
<1>7. NestInv'
  BY <1>1, <1>2, <1>3, <1>4, ActiveFrames DEF NestInv
<1>8. MaskInv'
  BY <1>1, <1>2, <1>3, TopType, ActiveFrames DEF MaskInv
<1> QED
  BY <1>5, <1>6, <1>7, <1>8 DEF Inv

LEMMA Disables == Inv /\ DisableInterrupts => Inv'
<1> SUFFICES ASSUME Inv, DisableInterrupts PROVE Inv'
  OBVIOUS
<1> DEFINE f == [top EXCEPT !.pc = "run", !.depth = @ + 1]
<1>1. TypeOK /\ NestInv /\ MaskInv
  BY DEF Inv
<1>2. /\ top \in Frames /\ top.pc = "disable" /\ top.who # PendSV
      /\ Active(f)
      /\ UNCHANGED <<nest, basepri, monitor, pend, parked, started>> /\ primask' = TRUE
  BY <1>1, TopType, NotPendSV DEF DisableInterrupts, At
<1>3. /\ f \in Frames /\ f.pc = "run" /\ f.depth = top.depth + 1
      /\ f.who = top.who /\ f.base = top.base
      /\ f.stage = top.stage /\ f.mask = top.mask
  <2>1. top.depth \in Nat /\ top.depth + 1 \in Nat
    BY <1>2 DEF Frames
  <2> QED
    BY <1>2, <2>1 DEF Frames
<1> HIDE DEF f
<1>4. Inside(f) = Inside(top) /\ f.depth \in Nat \ {0}
  <2>1. top.depth \in Nat
    BY <1>2 DEF Frames
  <2> QED
    BY <1>2, <1>3, <2>1, InsideType
<1>5. StackInv' /\ ChainInv' /\ BasepriInv' /\ ParkedInv'
  BY <1>2, <1>3, SameStage
<1>6. TypeOK'
  BY <1>1, <1>2, <1>3, ActiveFrames DEF TypeOK, NestInv
<1>7. NestInv'
  BY <1>1, <1>2, <1>3, <1>4, ActiveFrames DEF NestInv
<1>8. MaskInv'
  <2>1. nest > 0
    <3>1. top.base \in Nat /\ top.depth \in Nat
      BY <1>2 DEF Frames
    <3>2. nest = top.base + (top.depth + 1)
      BY <1>1, <1>2, InsideType DEF NestInv
    <3> QED
      BY <3>1, <3>2
  <2> QED
    BY <1>1, <1>2, <1>3, <2>1, ActiveFrames DEF MaskInv
<1> QED
  BY <1>5, <1>6, <1>7, <1>8 DEF Inv


(* A STREX that fails only reloads the counter.                            *)
LEMMA Reloads ==
    ASSUME Inv, top.pc \in {"store_inc", "store_dec"},
           Active([top EXCEPT !.value = nest]), monitor' = TRUE,
           UNCHANGED <<nest, primask, basepri, pend, parked, started>>
    PROVE  Inv'
<1> DEFINE f == [top EXCEPT !.value = nest]
<1>1. TypeOK /\ NestInv /\ MaskInv /\ StackInv
  BY DEF Inv
<1>2. top \in Frames /\ top.who # PendSV /\ Active(f)
  BY <1>1, TopType, NotPendSV
<1>3. /\ f \in Frames /\ f.value = nest /\ f.depth = top.depth /\ f.pc = top.pc
      /\ f.who = top.who /\ f.base = top.base
      /\ f.stage = top.stage /\ f.mask = top.mask
  <2>1. nest \in Int
    BY <1>1 DEF TypeOK
  <2> QED
    BY <1>2, <2>1 DEF Frames
<1> HIDE DEF f
<1>4. Inside(f) = Inside(top)
  BY <1>2, <1>3, InsideType
<1>5. StackInv' /\ ChainInv' /\ BasepriInv' /\ ParkedInv'
  BY <1>1, <1>2, <1>3, SameStage DEF StackInv
<1>6. TypeOK'
  BY <1>1, <1>2, <1>3, ActiveFrames DEF TypeOK
<1>7. NestInv'
  BY <1>1, <1>2, <1>3, <1>4, ActiveFrames DEF NestInv
<1>8. MaskInv'
  BY <1>1, <1>2, <1>3, TopType, ActiveFrames DEF MaskInv
<1> QED
  BY <1>5, <1>6, <1>7, <1>8 DEF Inv

(* Above a task there is no mask.                                          *)
LEMMA TaskUnmasked ==
    ASSUME Inv, Len(frames) = 1
    PROVE  /\ basepri = 0
           /\ top.who \notin Interrupts
           /\ pend /\ ~CanPreempt(PendSV) => primask
<1>1. top = frames[1] /\ top.who \in Tasks \union {Main}
  BY TopType DEF Inv, StackInv
<1>2. top.who \notin Interrupts
  BY <1>1, CpuAssumption DEF Interrupts
<1>3. basepri = 0
  BY <1>1, <1>2, TopType DEF Inv, BasepriInv, Level, HasMasked, Interrupts, Indices
<1>4. ~CanPreempt(PendSV) => primask
  BY <1>2, <1>3 DEF CanPreempt, Interrupts
<1> QED
  BY <1>2, <1>3, <1>4

LEMMA StoresIncremented == Inv /\ StoreIncremented => Inv'
<1> SUFFICES ASSUME Inv, StoreIncremented PROVE Inv'
  OBVIOUS
<1> DEFINE f == [top EXCEPT !.pc = "disable"]
<1>1. TypeOK /\ NestInv /\ MaskInv /\ top.pc = "store_inc"
  BY DEF Inv, StoreIncremented, At
<1>2. CASE ~monitor
  BY <1>1, <1>2, Reloads DEF StoreIncremented
<1>3. CASE monitor
  <2>1. /\ top \in Frames /\ top.who # PendSV
        /\ Active(f)
        /\ nest' = top.value + 1 /\ monitor' = FALSE
        /\ UNCHANGED <<primask, basepri, pend, parked, started>>
    BY <1>1, <1>3, TopType, NotPendSV DEF StoreIncremented
  <2>2. /\ f \in Frames /\ f.pc = "disable" /\ f.depth = top.depth
        /\ f.who = top.who /\ f.base = top.base
        /\ f.stage = top.stage /\ f.mask = top.mask
    BY <2>1 DEF Frames
  <2> HIDE DEF f
  <2>3. Inside(f) = Inside(top) + 1 /\ Inside(top) \in Int /\ top.base \in Nat
    <3>1. top.depth \in Nat /\ top.base \in Nat
      BY <2>1 DEF Frames
    <3> QED
      BY <1>1, <2>1, <2>2, <3>1, InsideType
  <2>4. StackInv' /\ ChainInv' /\ BasepriInv' /\ ParkedInv'
    BY <2>1, <2>2, SameStage
  <2>5. nest' = nest + 1 /\ nest \in Nat /\ nest' \in Nat
    <3>1. nest' = nest + 1
      BY <1>1, <1>3, <2>1 DEF NestInv
    <3>2. nest \in Nat
      BY <1>1 DEF TypeOK
    <3> QED
      BY <3>1, <3>2
  <2>6. TypeOK'
    BY <1>1, <2>1, <2>2, <2>5, ActiveFrames DEF TypeOK
  <2>7. NestInv'
    BY <1>1, <2>1, <2>2, <2>3, <2>5, ActiveFrames DEF NestInv
  <2>8. Len(frames) = 1 /\ pend => primask
    BY TaskUnmasked DEF StoreIncremented, At
  <2>9. frames'[1].pc = "disable" /\ pend' => primask'
    <3>1. CASE Len(frames) = 1
      BY <2>1, <2>8, <3>1
    <3>2. CASE Len(frames) # 1
      BY <1>1, <2>1, <2>2, <3>2, TopType, ActiveFrames DEF MaskInv
    <3> QED
      BY <3>1, <3>2
  <2>10. MaskInv'
    BY <1>1, <2>1, <2>2, <2>5, <2>9, TopType, ActiveFrames DEF MaskInv
  <2> QED
    BY <2>4, <2>6, <2>7, <2>10 DEF Inv
<1> QED
  BY <1>1, <1>2, <1>3

LEMMA StoresDecremented == Inv /\ StoreDecremented => Inv'
<1> SUFFICES ASSUME Inv, StoreDecremented PROVE Inv'
  OBVIOUS
<1> DEFINE f == [top EXCEPT !.pc = "enable", !.value = @ - 1]
<1>1. TypeOK /\ NestInv /\ MaskInv /\ top.pc = "store_dec"
  BY DEF Inv, StoreDecremented, At
<1>2. CASE ~monitor
  BY <1>1, <1>2, Reloads DEF StoreDecremented
<1>3. CASE monitor
  <2>1. /\ top \in Frames /\ top.who # PendSV /\ top.depth > 0
        /\ Active(f)
        /\ nest' = top.value - 1 /\ monitor' = FALSE
        /\ UNCHANGED <<primask, basepri, pend, parked, started>>
    BY <1>1, <1>3, TopType, NotPendSV DEF StoreDecremented, Inv, StackInv
  <2>2. /\ f \in Frames /\ f.pc = "enable" /\ f.depth = top.depth /\ f.value = top.value - 1
        /\ f.who = top.who /\ f.base = top.base
        /\ f.stage = top.stage /\ f.mask = top.mask
    <3>1. top.value - 1 \in Int
      BY <2>1 DEF Frames
    <3> QED
      BY <2>1, <3>1 DEF Frames
  <2> HIDE DEF f
  <2>3. /\ Inside(f) = Inside(top) - 1 /\ Inside(top) = top.depth
        /\ top.base \in Nat /\ top.depth \in Nat
    <3>1. top.depth \in Nat /\ top.base \in Nat
      BY <2>1 DEF Frames
    <3> QED
      BY <1>1, <2>1, <2>2, <3>1, InsideType
  <2>4. StackInv' /\ ChainInv' /\ BasepriInv' /\ ParkedInv'
    BY <2>1, <2>2, SameStage
  <2>5. nest' = nest - 1 /\ nest' \in Nat
    BY <1>1, <1>3, <2>1, <2>3 DEF NestInv
  <2>6. TypeOK'
    BY <1>1, <2>1, <2>2, <2>5, ActiveFrames DEF TypeOK
  <2>7. NestInv'
    BY <1>1, <1>3, <2>1, <2>2, <2>3, <2>5, ActiveFrames DEF NestInv
  <2>8. MaskInv'
    BY <1>1, <2>1, <2>2, TopType, ActiveFrames DEF MaskInv
  <2> QED
    BY <2>4, <2>6, <2>7, <2>8 DEF Inv
<1> QED
  BY <1>1, <1>2, <1>3

(* Interrupts are enabled only by the outermost section of all frames.     *)
LEMMA Enables == Inv /\ EnableIfOutermost => Inv'
<1> SUFFICES ASSUME Inv, EnableIfOutermost PROVE Inv'
  OBVIOUS
<1> DEFINE f == [top EXCEPT !.pc = "run", !.depth = @ - 1]
<1>1. TypeOK /\ NestInv /\ MaskInv /\ StackInv /\ top.pc = "enable"
  BY DEF Inv, EnableIfOutermost, At
<1>2. /\ top \in Frames /\ top.who # PendSV /\ top.depth > 0
      /\ Active(f)
      /\ primask' = IF top.value = 0 THEN FALSE ELSE primask
      /\ UNCHANGED <<nest, basepri, monitor, pend, parked, started>>
  BY <1>1, TopType, NotPendSV DEF EnableIfOutermost, StackInv
<1>3. top.depth \in Nat \ {0} /\ top.depth - 1 \in Nat /\ top.base \in Nat /\ nest \in Nat
  BY <1>1, <1>2 DEF Frames, TypeOK
<1>4. /\ f \in Frames /\ f.pc = "run" /\ f.depth = top.depth - 1
      /\ f.who = top.who /\ f.base = top.base
      /\ f.stage = top.stage /\ f.mask = top.mask
  BY <1>2, <1>3 DEF Frames
<1> HIDE DEF f
<1>5. Inside(f) = Inside(top) /\ Inside(top) = top.depth - 1
  BY <1>1, <1>2, <1>3, <1>4, InsideType
<1>6. StackInv' /\ ChainInv' /\ BasepriInv' /\ ParkedInv'
  BY <1>2, <1>4, SameStage
<1>7. TypeOK'
  BY <1>1, <1>2, <1>4, ActiveFrames DEF TypeOK
<1>8. NestInv'
  BY <1>1, <1>2, <1>4, <1>5, ActiveFrames DEF NestInv
<1>9. top.value = nest /\ nest = top.base + (top.depth - 1) /\ primask
  BY <1>1, <1>2, <1>5 DEF NestInv, MaskInv
<1>10. ASSUME top.value # 0 PROVE MaskInv'
  BY <1>1, <1>2, <1>3, <1>4, <1>9, <1>10, TopType, ActiveFrames DEF MaskInv
<1>11. ASSUME top.value = 0 PROVE MaskInv'
  <2>1. top.base = 0 /\ f.depth = 0
    BY <1>3, <1>4, <1>9, <1>11
  <2>2. \A i \in Indices : frames[i].base = 0
    BY <2>1, BasesBelow
  <2>3. frames'[1].pc # "disable"
    BY <1>1, <1>2, <1>4, <2>1, BasesBelow, TopType, ActiveFrames
  <2>4. \A i \in Indices : frames'[i].base = 0
    BY <1>1, <1>2, <1>4, <2>1, <2>2, ActiveFrames
  <2>5. ~primask'
    BY <1>2, <1>11
  <2>6. top'.depth = 0 /\ top'.stage = top.stage /\ top'.who # PendSV
    BY <1>1, <1>2, <1>4, <2>1, ActiveFrames
  <2> QED
    <3>1. Indices' = Indices
      BY <1>1, <1>2, <1>4, ActiveFrames
    <3>2. pend' => started'
      BY <1>1, <1>2 DEF MaskInv
    <3>3. \A i \in Indices' : ~(frames'[i].base > 0)
      BY <2>4, <3>1
    <3> QED
      BY <1>1, <1>2, <2>3, <2>5, <2>6, <3>2, <3>3 DEF MaskInv
<1>12. MaskInv'
  BY <1>10, <1>11
<1> QED
  BY <1>6, <1>7, <1>8, <1>12 DEF Inv

-----------------------------------------------------------------------------
(* u1_cpu_maskInterrupts and vd_cpu_unmaskInterrupts.                      *)

LEMMA Levels ==
    ASSUME TypeOK
    PROVE  /\ \A i : Level(frames, i) \in {0, TickMask}
           /\ TickMask \in Nat \ {0}
           /\ HasMasked(top) => Level(frames, Len(frames) + 1) = TickMask
           /\ ~HasMasked(top) => Level(frames, Len(frames) + 1) = Level(frames, Len(frames))
<1> USE TopType
<1>1. \A i : Level(frames, i) \in {0, TickMask}
  BY DEF Level
<1>2. TickMask \in Nat \ {0}
  BY CpuAssumption
<1>3. \A j \in 1 .. Len(frames) : j < Len(frames) + 1 <=> j < Len(frames) \/ j = Len(frames)
  OBVIOUS
<1>4. HasMasked(top) => Level(frames, Len(frames) + 1) = TickMask
  BY <1>3 DEF Level, Indices
<1>5. ~HasMasked(top) => Level(frames, Len(frames) + 1) = Level(frames, Len(frames))
  BY <1>3 DEF Level, Indices
<1> QED
  BY <1>1, <1>2, <1>4, <1>5

LEMMA LevelsKept ==
    ASSUME TypeOK, NEW f \in Frames, Active(f)
    PROVE  /\ \A i \in Indices : Level(frames', i) = Level(frames, i)
           /\ HasMasked(f) => Level(frames', Len(frames') + 1) = TickMask
           /\ ~HasMasked(f) => Level(frames', Len(frames') + 1) = Level(frames, Len(frames))
<1> USE TopType, ActiveFrames
<1>1. \A j \in 1 .. Len(frames) : j < Len(frames) + 1 <=> j < Len(frames) \/ j = Len(frames)
  OBVIOUS
<1>2. \A i \in Indices : \A j \in 1 .. Len(frames) : j < i => frames'[j] = frames[j]
  BY DEF Indices
<1>3. \A i \in Indices : Level(frames', i) = Level(frames, i)
  BY <1>2 DEF Level
<1>4. HasMasked(f) => Level(frames', Len(frames') + 1) = TickMask
  BY <1>1 DEF Level, Indices
<1>5. ~HasMasked(f) => Level(frames', Len(frames') + 1) = Level(frames, Len(frames))
  BY <1>1, <1>2 DEF Level, Indices
<1> QED
  BY <1>3, <1>4, <1>5

LEMMA Masks == Inv /\ MaskInterrupts => Inv'
<1> SUFFICES ASSUME Inv, MaskInterrupts PROVE Inv'
  OBVIOUS
<1> DEFINE f == [top EXCEPT !.stage = "masked", !.mask = basepri]
<1>1. TypeOK /\ StackInv /\ ChainInv /\ NestInv /\ MaskInv /\ BasepriInv /\ ParkedInv
  BY DEF Inv
<1>2. /\ top \in Frames /\ top.who \in Handlers /\ top.stage = "entry"
      /\ top.depth = 1 /\ top.pc = "run" /\ top.who # PendSV
      /\ Active(f)
      /\ basepri' = IF basepri = 0 \/ TickMask <= basepri THEN TickMask ELSE basepri
      /\ UNCHANGED <<nest, primask, monitor, pend, parked, started>>
  BY <1>1, TopType, CpuAssumption DEF MaskInterrupts, At, IsHandler
<1>3. /\ f \in Frames /\ f.pc = "run" /\ f.depth = 1 /\ f.value = top.value
      /\ f.who = top.who /\ f.base = top.base
      /\ f.stage = "masked" /\ f.mask = basepri
  <2>1. basepri \in Nat
    BY <1>1 DEF TypeOK
  <2> QED
    BY <1>2, <2>1 DEF Frames
<1> HIDE DEF f
<1>4. Inside(f) = Inside(top)
  BY <1>2, <1>3, InsideType
<1>5. basepri \in {0, TickMask} /\ basepri' = TickMask
  BY <1>1, <1>2, Levels DEF BasepriInv
<1>6. StackInv' /\ ChainInv'
  BY <1>1, <1>2, <1>3, ActiveStack, ActiveChain
<1>7. TypeOK'
  BY <1>1, <1>2, <1>3, <1>5, Levels, ActiveFrames DEF TypeOK
<1>8. NestInv'
  BY <1>1, <1>2, <1>3, <1>4, ActiveFrames DEF NestInv
<1>9. MaskInv'
  BY <1>1, <1>2, <1>3, TopType, ActiveFrames DEF MaskInv
<1>10. HasMasked(f) /\ ~HasMasked(top)
  BY <1>2, <1>3 DEF HasMasked
<1>11. basepri = Level(frames, Len(frames))
  BY <1>1, <1>10, Levels DEF BasepriInv
<1>12. BasepriInv'
  <2>1. \A i \in Indices : HasMasked(frames'[i]) => frames'[i].mask = Level(frames', i)
    BY <1>1, <1>2, <1>3, <1>11, TopType, ActiveFrames, LevelsKept DEF BasepriInv
  <2>2. basepri' = Level(frames', Len(frames') + 1)
    BY <1>1, <1>2, <1>3, <1>5, <1>10, LevelsKept
  <2> QED
    BY <1>1, <1>2, <1>3, <2>1, <2>2, ActiveFrames DEF BasepriInv
<1>13. ParkedInv'
  BY <1>1, <1>2 DEF ParkedInv
<1> QED
  BY <1>6, <1>7, <1>8, <1>9, <1>12, <1>13 DEF Inv

LEMMA Unmasks == Inv /\ UnmaskInterrupts => Inv'
<1> SUFFICES ASSUME Inv, UnmaskInterrupts PROVE Inv'
  OBVIOUS
<1> DEFINE f == [top EXCEPT !.stage = "left"]
<1>1. TypeOK /\ StackInv /\ ChainInv /\ NestInv /\ MaskInv /\ BasepriInv /\ ParkedInv
  BY DEF Inv
<1>2. /\ top \in Frames /\ top.who \in Handlers /\ top.stage = "masked"
      /\ top.depth = 1 /\ top.pc = "run" /\ top.who # PendSV
      /\ Active(f)
      /\ basepri' = top.mask
      /\ UNCHANGED <<nest, primask, monitor, pend, parked, started>>
  BY <1>1, TopType, CpuAssumption DEF UnmaskInterrupts, At, IsHandler
<1>3. /\ f \in Frames /\ f.pc = "run" /\ f.depth = 1 /\ f.value = top.value
      /\ f.who = top.who /\ f.base = top.base
      /\ f.stage = "left" /\ f.mask = top.mask
  BY <1>2 DEF Frames
<1> HIDE DEF f
<1>4. Inside(f) = Inside(top)
  BY <1>2, <1>3, InsideType
<1>5. ~HasMasked(f) /\ HasMasked(top)
  BY <1>2, <1>3 DEF HasMasked
<1>6. basepri' = Level(frames, Len(frames)) /\ basepri' \in Nat
  BY <1>1, <1>2, <1>5, TopType, Levels DEF BasepriInv
<1>7. StackInv' /\ ChainInv'
  BY <1>1, <1>2, <1>3, ActiveStack, ActiveChain
<1>8. TypeOK'
  BY <1>1, <1>2, <1>3, <1>6, ActiveFrames DEF TypeOK
<1>9. NestInv'
  BY <1>1, <1>2, <1>3, <1>4, ActiveFrames DEF NestInv
<1>10. MaskInv'
  BY <1>1, <1>2, <1>3, TopType, ActiveFrames DEF MaskInv
<1>11. BasepriInv'
  <2>1. \A i \in Indices : HasMasked(frames'[i]) => frames'[i].mask = Level(frames', i)
    BY <1>1, <1>2, <1>3, <1>5, TopType, ActiveFrames, LevelsKept DEF BasepriInv
  <2>2. basepri' = Level(frames', Len(frames') + 1)
    BY <1>1, <1>2, <1>3, <1>5, <1>6, LevelsKept
  <2> QED
    BY <1>1, <1>2, <1>3, <2>1, <2>2, ActiveFrames DEF BasepriInv
<1>12. ParkedInv'
  BY <1>1, <1>2 DEF ParkedInv
<1> QED
  BY <1>7, <1>8, <1>9, <1>10, <1>11, <1>12 DEF Inv

-----------------------------------------------------------------------------
(* PendSV is requested.                                                    *)

LEMMA FramesKept ==
    ASSUME Inv, UNCHANGED <<nest, basepri, monitor, frames, parked>>,
           primask' \in BOOLEAN, pend' \in BOOLEAN, started' \in BOOLEAN
    PROVE  /\ TypeOK' /\ StackInv' /\ ChainInv' /\ NestInv' /\ BasepriInv' /\ ParkedInv'
           /\ top' = top /\ Indices' = Indices
<1>1. top' = top /\ Indices' = Indices
  BY DEF top, Last, Indices
<1>2. TypeOK'
  BY DEF Inv, TypeOK
<1>3. StackInv' /\ ChainInv' /\ NestInv'
  BY <1>1 DEF Inv, StackInv, ChainInv, NestInv
<1>4. BasepriInv' /\ ParkedInv'
  BY <1>1 DEF Inv, BasepriInv, ParkedInv
<1> QED
  BY <1>1, <1>2, <1>3, <1>4

LEMMA Triggers == Inv /\ TriggerDispatcher => Inv'
<1> SUFFICES ASSUME Inv, TriggerDispatcher PROVE Inv'
  OBVIOUS
<1>1. /\ top.pc = "run" /\ started /\ pend' = TRUE /\ top.who # PendSV
      /\ top.depth > 0 \/ top.stage = "masked"
      /\ UNCHANGED <<nest, primask, basepri, monitor, frames, parked, started>>
  BY DEF TriggerDispatcher, At
<1>2. TypeOK /\ StackInv /\ MaskInv
  BY DEF Inv
<1>3. frames[1].pc = "disable" => primask
  <2>1. SUFFICES ASSUME frames[1].pc = "disable" PROVE primask
    OBVIOUS
  <2>2. Len(frames) > 1
    BY <1>1, <1>2, <2>1, TopType
  <2>3. top.base > 0
    BY <2>1, <2>2, BasesBelow
  <2>4. top.who \in Handlers
    BY <1>1, <1>2, <2>2, TopType DEF StackInv, Interrupts
  <2> QED
    BY <1>1, <1>2, <2>3, <2>4, TopType DEF MaskInv
<1>4. /\ TypeOK' /\ StackInv' /\ ChainInv' /\ NestInv' /\ BasepriInv' /\ ParkedInv'
      /\ top' = top /\ Indices' = Indices
  BY <1>1, <1>2, FramesKept DEF TypeOK
<1>5. MaskInv'
  BY <1>1, <1>2, <1>3, <1>4 DEF MaskInv
<1> QED
  BY <1>4, <1>5 DEF Inv

LEMMA Starts == Inv /\ Start => Inv'
<1> SUFFICES ASSUME Inv, Start PROVE Inv'
  OBVIOUS
<1>1. /\ top.pc = "run" /\ top.who = Main /\ top.depth = 0
      /\ started' = TRUE /\ pend' = TRUE /\ primask' = FALSE
      /\ UNCHANGED <<nest, basepri, monitor, frames, parked>>
  BY DEF Start, At
<1>2. TypeOK /\ StackInv
  BY DEF Inv
<1>3. Main \notin Interrupts
  BY CpuAssumption DEF Interrupts
<1>4. Len(frames) = 1
  <2>1. Len(frames) > 1 => top.who \in Interrupts
    BY <1>2, TopType DEF StackInv
  <2>2. ~(Len(frames) > 1)
    BY <1>1, <1>3, <2>1
  <2>3. Len(frames) \in Nat \ {0}
    BY <1>2, TopType
  <2> QED
    BY <2>2, <2>3
<1>5. Indices = {1} /\ frames[1] = top
  BY <1>4, <1>2, TopType DEF Indices
<1>6. /\ TypeOK' /\ StackInv' /\ ChainInv' /\ NestInv' /\ BasepriInv' /\ ParkedInv'
      /\ top' = top /\ Indices' = Indices
  BY <1>1, FramesKept
<1>7. MaskInv'
  BY <1>1, <1>3, <1>5, <1>6 DEF MaskInv, Interrupts
<1> QED
  BY <1>6, <1>7 DEF Inv

-----------------------------------------------------------------------------
(* Exception entry and return.                                             *)

(* Interrupts are enabled, so the frame that is interrupted is outside of  *)
(* its critical sections.                                                  *)
LEMMA Interruptible ==
    ASSUME Inv, ~primask
    PROVE  /\ top.depth = 0 /\ top.pc \in {"run", "store_inc", "disable"}
           /\ Inside(top) \in Nat
           /\ top.pc = "disable" => ~pend \/ Len(frames) > 1
<1>1. TypeOK /\ StackInv /\ MaskInv /\ top \in Frames
  BY TopType DEF Inv
<1>2. top.depth \in Nat
       /\ top.pc \in {"run", "store_inc", "disable", "store_dec", "enable"}
  BY <1>1 DEF Frames
<1>3. top.depth = 0
  BY <1>1, <1>2 DEF MaskInv
<1>4. top.pc \in {"run", "store_inc", "disable"}
  BY <1>1, <1>2, <1>3 DEF StackInv
<1>5. Inside(top) \in Nat
  BY <1>1, <1>3, <1>4, InsideType
<1>6. top.pc = "disable" => ~pend \/ Len(frames) > 1
  BY <1>1, TopType DEF MaskInv
<1> QED
  BY <1>3, <1>4, <1>5, <1>6

LEMMA Pushed ==
    ASSUME Inv, ~primask, NEW w \in Interrupts,
           w = PendSV => Len(frames) = 1 /\ nest = 0,
           frames' = Append(frames, Frame(w, nest)),
           monitor' = FALSE, pend' \in {pend, FALSE},
           UNCHANGED <<nest, primask, basepri, parked, started>>
    PROVE  Inv'
<1> DEFINE f == Frame(w, nest)
           n == Len(frames)
<1>1. TypeOK /\ StackInv /\ ChainInv /\ NestInv /\ MaskInv /\ BasepriInv /\ ParkedInv
  BY DEF Inv
<1>2. /\ f \in Frames /\ f.who = w /\ f.base = nest
      /\ f.pc = "run" /\ f.depth = 0 /\ f.stage = "entry"
  <2>1. w \in Tasks \union Handlers \union {PendSV, Main} /\ nest \in Nat
    BY <1>1 DEF Interrupts, TypeOK
  <2>2. SUFFICES ASSUME NEW b \in Nat, b = nest
                 PROVE  /\ Frame(w, b) \in Frames
                        /\ Frame(w, b).who = w /\ Frame(w, b).base = b
                        /\ Frame(w, b).pc = "run" /\ Frame(w, b).depth = 0
                        /\ Frame(w, b).stage = "entry"
    BY <2>1
  <2> QED
    BY <2>1, NewFrame, Zenon
<1>3. frames' = Append(frames, f) /\ frames \in Seq(Frames) /\ n \in Nat \ {0}
  BY <1>1, TopType DEF TypeOK
<1> HIDE DEF f
<1>4. /\ frames' \in Seq(Frames) /\ Len(frames') = n + 1 /\ frames' # << >>
      /\ frames'[n + 1] = f
      /\ \A i \in Indices : frames'[i] = frames[i]
  BY <1>2, <1>3 DEF Indices
<1>5. /\ \A i \in Indices' : i \in Indices \/ i = n + 1
      /\ \A i \in Indices' : i < n + 1 => i \in Indices
      /\ \A i, j \in Indices' : i < j => i \in Indices
      /\ \A i \in Indices : i \in Indices' /\ i \in Nat /\ i < n + 1 /\ i <= n
      /\ n + 1 \in Indices' /\ n + 1 > n /\ 1 \in Indices
  BY <1>3, <1>4 DEF Indices
<1>6. top' = f
  BY <1>4 DEF top, Last
<1>7. Inside(f) = 0
  BY <1>2, InsideType
<1>8. /\ top.depth = 0 /\ top.pc \in {"run", "store_inc", "disable"}
      /\ Inside(top) \in Nat
      /\ top = frames[n] /\ n \in Indices
  BY <1>1, Interruptible, TopType
<1>9. TypeOK'
  BY <1>1, <1>4 DEF TypeOK
<1>10. StackInv'
  <2>1. frames'[1].who \in Tasks \union {Main} /\ frames'[1].base = 0
    BY <1>1, <1>4, <1>5 DEF StackInv
  <2>2. \A i \in Indices' : i > 1 => frames'[i].who \in Interrupts
    BY <1>1, <1>2, <1>4, <1>5 DEF StackInv
  <2>3. \A i \in Indices' : i < Len(frames') =>
           frames'[i].depth = 0 /\ frames'[i].pc \in {"run", "store_inc", "disable"}
    <3>1. \A i \in Indices : i < n \/ i = n
      BY <1>3, <1>5
    <3>2. \A i \in Indices :
             frames[i].depth = 0 /\ frames[i].pc \in {"run", "store_inc", "disable"}
      BY <1>1, <1>8, <3>1 DEF StackInv
    <3>3. SUFFICES ASSUME NEW i \in Indices', i < n + 1
                   PROVE  frames'[i].depth = 0 /\ frames'[i].pc \in {"run", "store_inc", "disable"}
      BY <1>4
    <3>4. i \in Indices /\ frames'[i] = frames[i]
      BY <1>4, <1>5, <3>3
    <3> QED
      BY <3>2, <3>4
  <2>4. \A i \in Indices' : frames'[i].who = PendSV =>
           i = 2 /\ frames'[i].base = 0 /\ frames'[i].depth = 0 /\ frames'[i].pc = "run"
    <3>1. \A i \in Indices : frames'[i].who = PendSV =>
             i = 2 /\ frames'[i].base = 0 /\ frames'[i].depth = 0 /\ frames'[i].pc = "run"
      BY <1>1, <1>4 DEF StackInv
    <3>2. f.who = PendSV => n + 1 = 2 /\ f.base = 0 /\ f.depth = 0 /\ f.pc = "run"
      <4>1. f.who = PendSV => n = 1 /\ f.base = 0
        BY <1>2
      <4>2. n = 1 => n + 1 = 2
        BY <1>3
      <4> QED
        BY <1>2, <4>1, <4>2
    <3> QED
      BY <1>4, <1>5, <3>1, <3>2
  <2>5. top'.pc \notin {"store_dec", "enable"}
    BY <1>2, <1>6
  <2> QED
    BY <2>1, <2>2, <2>3, <2>4, <2>5 DEF StackInv
<1>11. ChainInv'
  <2>1. \A i \in Indices : i < n => frames[i].base + Inside(frames[i]) <= top.base
    BY <1>1, <1>8 DEF ChainInv
  <2>2. \A i \in Indices : frames[i] \in Frames
    BY <1>1, TopType
  <2>3. \A i \in Indices : Inside(frames[i]) \in Int /\ frames[i].base \in Nat
    BY <2>2, InsideType DEF Frames
  <2>4. nest = top.base + Inside(top)
    BY <1>1 DEF NestInv
  <2>5. \A i \in Indices : frames[i].base + Inside(frames[i]) <= nest
    <3>1. top.base \in Nat /\ frames[n].base + Inside(frames[n]) = nest
      BY <1>8, <2>3, <2>4
    <3>2. \A i \in Indices : i < n => frames[i].base + Inside(frames[i]) <= nest
      <4>1. nest = top.base + Inside(top) /\ Inside(top) \in Nat /\ nest \in Nat
        BY <1>8, <2>4, <3>1
      <4>2. SUFFICES ASSUME NEW i \in Indices, i < n
                     PROVE  frames[i].base + Inside(frames[i]) <= nest
        OBVIOUS
      <4>3. frames[i].base + Inside(frames[i]) <= top.base
        BY <2>1, <4>2
      <4>4. frames[i].base + Inside(frames[i]) \in Int
        BY <2>3, <4>2
      <4> QED
        BY <3>1, <4>1, <4>3, <4>4
    <3>3. \A i \in Indices : i < n \/ i = n
      BY <1>3, <1>5
    <3>4. nest \in Nat
      BY <1>1 DEF TypeOK
    <3> QED
      BY <3>1, <3>2, <3>3, <3>4
  <2>6. \A i, j \in Indices' : i < j =>
           frames'[i].base + Inside(frames'[i]) <= frames'[j].base
    <3>1. \A i, j \in Indices : i < j =>
             frames'[i].base + Inside(frames'[i]) <= frames'[j].base
      BY <1>1, <1>4 DEF ChainInv
    <3>2. \A i \in Indices :
             frames'[i].base + Inside(frames'[i]) <= frames'[n + 1].base
      BY <1>2, <1>4, <2>5
    <3> QED
      BY <1>5, <3>1, <3>2
  <2>7. \A i \in Indices' : i < Len(frames') =>
           frames'[i + 1].base = frames'[i].base + Inside(frames'[i])
    <3>1. SUFFICES ASSUME NEW i \in Indices', i < n + 1
                   PROVE  frames'[i + 1].base = frames'[i].base + Inside(frames'[i])
      BY <1>4
    <3>2. i \in Indices /\ frames'[i] = frames[i]
      BY <1>4, <1>5, <3>1
    <3>3. CASE i = n
      BY <1>2, <1>4, <1>8, <2>4, <3>2, <3>3
    <3>4. CASE i < n
      <4>1. i + 1 \in Indices
        BY <1>3, <3>2, <3>4 DEF Indices
      <4> QED
        BY <1>1, <1>4, <3>2, <3>4, <4>1 DEF ChainInv
    <3> QED
      BY <1>3, <1>5, <3>2, <3>3, <3>4
  <2> QED
    BY <2>6, <2>7 DEF ChainInv
<1>12. NestInv'
  BY <1>1, <1>2, <1>6, <1>7 DEF NestInv, TypeOK
<1>13. MaskInv'
  <2>1. \A i \in Indices' : ~(/\ frames'[i].who \in Handlers
                              /\ frames'[i].stage # "entry"
                              /\ frames'[i].base > 0)
    BY <1>1, <1>2, <1>4, <1>5 DEF MaskInv
  <2>2. frames'[1].pc = "disable" /\ pend' => primask'
    BY <1>1, <1>4, <1>5 DEF MaskInv, TypeOK
  <2>3. pend' => started'
    BY <1>1 DEF MaskInv, TypeOK
  <2>4. ~primask' /\ ~(top'.depth > 0)
    BY <1>2, <1>6
  <2> QED
    BY <2>1, <2>2, <2>3, <2>4, Zenon DEF MaskInv
<1>14. BasepriInv'
  <2>1. ~HasMasked(f)
    BY <1>2 DEF HasMasked
  <2>2. \A i \in Indices : Level(frames', i) = Level(frames, i)
    BY <1>4, <1>5 DEF Level, Indices
  <2>3. Level(frames', Len(frames') + 1) = Level(frames, n + 1)
    <3>1. \A j \in 1 .. Len(frames') : HasMasked(frames'[j]) => j \in 1 .. n /\ HasMasked(frames[j])
      BY <1>4, <1>5, <2>1 DEF Indices
    <3>2. \A j \in 1 .. n : HasMasked(frames[j]) => j \in 1 .. Len(frames') /\ HasMasked(frames'[j])
      BY <1>4, <1>5 DEF Indices
    <3>3. \A j \in 1 .. n : j < n + 1 /\ j < Len(frames') + 1
      BY <1>3, <1>4
    <3> QED
      BY <3>1, <3>2, <3>3 DEF Level
  <2> QED
    BY <1>1, <1>4, <1>5, <2>1, <2>2, <2>3 DEF BasepriInv
<1>15. ParkedInv'
  BY <1>1 DEF ParkedInv
<1> QED
  BY <1>9, <1>10, <1>11, <1>12, <1>13, <1>14, <1>15 DEF Inv

LEMMA TakesInterrupt == ASSUME Inv, NEW h \in Handlers, TakeInterrupt(h) PROVE Inv'
<1>1. h \in Interrupts /\ h # PendSV /\ ~primask
  BY CpuAssumption DEF Interrupts, TakeInterrupt, CanPreempt
<1> QED
  BY <1>1, Pushed DEF TakeInterrupt

(* PendSV is the least urgent exception: it interrupts tasks only, and     *)
(* none that has begun to enter a critical section.                        *)
LEMMA TakesPendSV == Inv /\ TakePendSV => Inv'
<1> SUFFICES ASSUME Inv, TakePendSV PROVE Inv'
  OBVIOUS
<1>1. ~primask /\ pend /\ PendSV \in Interrupts
  BY DEF TakePendSV, CanPreempt, Interrupts
<1>2. top.who \notin Interrupts
  <2>1. ASSUME top.who \in Interrupts PROVE FALSE
    <3>1. Urgency[PendSV] < Urgency[top.who]
      BY <2>1 DEF TakePendSV, CanPreempt, Interrupts
    <3>2. Urgency[PendSV] \in Nat /\ Urgency[top.who] \in Nat
      BY <2>1, CpuAssumption DEF Interrupts
    <3>3. top.who = PendSV \/ Urgency[top.who] < Urgency[PendSV]
      BY <2>1, CpuAssumption DEF Interrupts
    <3> QED
      BY <3>1, <3>2, <3>3
  <2> QED
    BY <2>1
<1>3. Len(frames) = 1
  <2>1. TypeOK /\ (Len(frames) > 1 => top.who \in Interrupts)
    BY TopType DEF Inv, StackInv
  <2>2. ~(Len(frames) > 1)
    BY <1>2, <2>1
  <2>3. Len(frames) \in Nat \ {0}
    BY <2>1, TopType
  <2> QED
    BY <2>2, <2>3
<1>4. nest = 0
  <2>1. /\ top.depth = 0 /\ top.pc \in {"run", "store_inc"} /\ top \in Frames
        /\ top.base = 0 /\ nest = top.base + Inside(top)
    BY <1>1, <1>3, Interruptible, TopType DEF Inv, StackInv, NestInv
  <2> QED
    BY <2>1, InsideType
<1> QED
  BY <1>1, <1>3, <1>4, Pushed DEF TakePendSV

LEMMA Shortened ==
    ASSUME NEW S, NEW s \in Seq(S), Len(s) > 1
    PROVE  LET r == SubSeq(s, 1, Len(s) - 1)
           IN  /\ r \in Seq(S) /\ r # << >> /\ Len(r) = Len(s) - 1
               /\ \A i \in 1 .. Len(s) - 1 : r[i] = s[i]
<1> DEFINE n == Len(s) - 1
           r == SubSeq(s, 1, n)
<1>1. n \in Nat \ {0} /\ n <= Len(s)
  <2>1. SUFFICES ASSUME NEW k \in Nat, k > 1
                 PROVE  k - 1 \in Nat \ {0} /\ k - 1 <= k
    OBVIOUS
  <2> QED
    BY <2>1
<1> HIDE DEF n
<1>2. Len(r) = n
  BY <1>1
<1>3. \A i \in 1 .. n : r[i] = s[i]
  BY <1>1
<1>4. r \in Seq(S)
  BY <1>1
<1>5. r # << >>
  BY <1>1, <1>2
<1> QED
  BY <1>2, <1>3, <1>4, <1>5 DEF n

LEMMA Returns == Inv /\ ReturnFromInterrupt => Inv'
<1> SUFFICES ASSUME Inv, ReturnFromInterrupt PROVE Inv'
  OBVIOUS
<1> DEFINE n == Len(frames)
<1>1. TypeOK /\ StackInv /\ ChainInv /\ NestInv /\ MaskInv /\ BasepriInv /\ ParkedInv
  BY DEF Inv
<1>2. /\ top.pc = "run" /\ top.depth = 0 /\ top.stage = "left"
      /\ top.who \in Interrupts
      /\ frames' = SubSeq(frames, 1, n - 1) /\ monitor' = FALSE
      /\ UNCHANGED <<nest, primask, basepri, pend, parked, started>>
  BY DEF ReturnFromInterrupt, At, Front, Interrupts
<1>3. n \in Nat /\ n > 1
  <2>1. n \in Nat \ {0} /\ top = frames[n]
    BY <1>1, TopType
  <2>2. frames[1].who \notin Interrupts
    BY <1>1, CpuAssumption DEF StackInv, Interrupts
  <2>3. n # 1
    BY <1>2, <2>1, <2>2
  <2> QED
    BY <2>1, <2>3
<1>4. /\ frames' \in Seq(Frames) /\ frames' # << >> /\ Len(frames') = n - 1
      /\ \A i \in 1 .. n - 1 : frames'[i] = frames[i]
  BY <1>1, <1>2, <1>3, Shortened DEF TypeOK
<1>5. /\ Indices' = 1 .. n - 1
      /\ \A i \in Indices' : i \in Indices /\ i < n /\ frames'[i] = frames[i]
      /\ n \in Indices /\ n - 1 \in Indices' /\ 1 \in Indices' /\ (n - 1) + 1 = n
  BY <1>3, <1>4 DEF Indices
<1>6. top' = frames[n - 1] /\ top = frames[n]
  BY <1>4, <1>5 DEF top, Last
<1>7. top'.depth = 0 /\ top'.pc \in {"run", "store_inc", "disable"}
  BY <1>1, <1>5, <1>6 DEF StackInv
<1>8. TypeOK'
  BY <1>1, <1>2, <1>4 DEF TypeOK
<1>9. StackInv'
  BY <1>1, <1>4, <1>5, <1>7 DEF StackInv
<1>10. ChainInv'
  <2>1. \A i, j \in Indices' : i < j =>
           frames'[i].base + Inside(frames'[i]) <= frames'[j].base
    BY <1>1, <1>5 DEF ChainInv
  <2>2. \A i \in Indices' : i < Len(frames') =>
           frames'[i + 1].base = frames'[i].base + Inside(frames'[i])
    <3>1. \A i \in Indices' : i < Len(frames') => i + 1 \in Indices'
      BY <1>3, <1>4, <1>5
    <3> QED
      BY <1>1, <1>5, <3>1 DEF ChainInv
  <2> QED
    BY <2>1, <2>2 DEF ChainInv
<1>11. NestInv'
  <2>1. Inside(top) = 0 /\ top.base \in Nat
    <3>1. top \in Frames
      BY <1>1, TopType
    <3> QED
      BY <1>2, <3>1, InsideType DEF Frames
  <2>2. frames[n].base = frames[n - 1].base + Inside(frames[n - 1])
    BY <1>1, <1>5 DEF ChainInv
  <2>3. nest = top.base
    BY <1>1, <2>1 DEF NestInv
  <2>4. nest' = top'.base + Inside(top')
    BY <1>2, <1>6, <2>2, <2>3
  <2> QED
    BY <1>2, <1>7, <2>4 DEF NestInv
<1>12. MaskInv'
  <2>1. primask /\ started => nest > 0
    BY <1>1, <1>2 DEF MaskInv
  <2>2. \A i \in Indices' : frames'[i].who \in Handlers /\ frames'[i].stage # "entry"
                              /\ frames'[i].base > 0 => primask'
    BY <1>1, <1>2, <1>5 DEF MaskInv
  <2>3. frames'[1].pc = "disable" /\ pend' => primask'
    BY <1>1, <1>2, <1>5 DEF MaskInv
  <2>4. ~(top'.depth > 0) /\ (pend' => started')
    BY <1>1, <1>2, <1>7 DEF MaskInv
  <2>5. primask' /\ started' => nest' > 0
    BY <1>2, <2>1
  <2> QED
    BY <2>2, <2>3, <2>4, <2>5, Zenon DEF MaskInv
<1>13. BasepriInv'
  <2>1. ~HasMasked(top)
    BY <1>2 DEF HasMasked
  <2>2. basepri = Level(frames, n)
    BY <1>1, <2>1, Levels DEF BasepriInv
  <2>3. \A i \in Indices : Level(frames', i) = Level(frames, i)
    <3>1. \A i \in Indices : \A j \in 1 .. Len(frames) : j < i => j \in 1 .. Len(frames')
      BY <1>3, <1>4 DEF Indices
    <3>2. \A j \in 1 .. Len(frames') : j \in 1 .. Len(frames) /\ frames'[j] = frames[j]
      BY <1>3, <1>4
    <3> QED
      BY <3>1, <3>2 DEF Level
  <2>4. Len(frames') + 1 = n
    BY <1>4, <1>5
  <2>5. basepri' = Level(frames', Len(frames') + 1)
    BY <1>2, <1>5, <2>2, <2>3, <2>4
  <2>6. \A i \in Indices' : HasMasked(frames'[i]) => frames'[i].mask = Level(frames', i)
    BY <1>1, <1>5, <2>3 DEF BasepriInv
  <2> QED
    BY <2>5, <2>6 DEF BasepriInv
<1>14. ParkedInv'
  BY <1>1, <1>2 DEF ParkedInv
<1> QED
  BY <1>8, <1>9, <1>10, <1>11, <1>12, <1>13, <1>14 DEF Inv

-----------------------------------------------------------------------------
(* The context switch.                                                     *)

LEMMA PendSVMasks == Inv /\ PendSVDisables => Inv'
<1> SUFFICES ASSUME Inv, PendSVDisables PROVE Inv'
  OBVIOUS
<1> DEFINE f == [top EXCEPT !.stage = "masked"]
<1>1. TypeOK /\ StackInv /\ ChainInv /\ NestInv /\ MaskInv /\ BasepriInv /\ ParkedInv
  BY DEF Inv
<1>2. /\ top \in Frames /\ top.who = PendSV /\ top.depth = 0 /\ top.pc = "run"
      /\ Active(f) /\ primask' = TRUE
      /\ UNCHANGED <<nest, basepri, monitor, pend, parked, started>>
  BY <1>1, TopType DEF PendSVDisables, At, StackInv
<1>3. /\ f \in Frames /\ f.pc = "run" /\ f.depth = 0 /\ f.value = top.value
      /\ f.who = PendSV /\ f.base = top.base /\ f.stage = "masked"
  BY <1>2 DEF Frames
<1> HIDE DEF f
<1>4. Inside(f) = Inside(top)
  BY <1>2, <1>3, InsideType
<1>5. StackInv' /\ ChainInv'
  BY <1>1, <1>2, <1>3, ActiveStack, ActiveChain
<1>6. TypeOK'
  BY <1>1, <1>2, <1>3, ActiveFrames DEF TypeOK
<1>7. NestInv'
  BY <1>1, <1>2, <1>3, <1>4, ActiveFrames DEF NestInv
<1>8. MaskInv'
  BY <1>1, <1>2, <1>3, TopType, ActiveFrames DEF MaskInv
<1>9. ~HasMasked(f) /\ ~HasMasked(top)
  BY <1>2, <1>3, CpuAssumption DEF HasMasked
<1>10. BasepriInv'
  <2>1. \A i \in Indices : HasMasked(frames'[i]) => frames'[i].mask = Level(frames', i)
    BY <1>1, <1>2, <1>3, <1>9, TopType, ActiveFrames, LevelsKept DEF BasepriInv
  <2>2. basepri' = Level(frames', Len(frames') + 1)
    BY <1>1, <1>2, <1>3, <1>9, Levels, LevelsKept DEF BasepriInv
  <2> QED
    BY <1>1, <1>2, <1>3, <2>1, <2>2, ActiveFrames DEF BasepriInv
<1>11. ParkedInv'
  BY <1>1, <1>2 DEF ParkedInv
<1> QED
  BY <1>5, <1>6, <1>7, <1>8, <1>10, <1>11 DEF Inv

(* PendSV stands on a task that is outside of its critical sections, so    *)
(* the counter is zero when the task is exchanged for another.             *)
LEMMA Switches == ASSUME Inv, NEW t \in Tasks, SwitchTask(t) PROVE Inv'
<1> DEFINE old == frames[1]
           new == IF t = old.who THEN old ELSE parked[t]
           p == [top EXCEPT !.stage = "left"]
<1>1. TypeOK /\ StackInv /\ ChainInv /\ NestInv /\ MaskInv /\ BasepriInv /\ ParkedInv
  BY DEF Inv
<1>2. /\ top.who = PendSV /\ primask' = FALSE
      /\ frames' = <<new, p>>
      /\ parked' = IF old.who \in Tasks THEN [parked EXCEPT ![old.who] = old] ELSE parked
      /\ UNCHANGED <<nest, basepri, monitor, pend, started>>
  BY DEF SwitchTask
<1>3. /\ Len(frames) = 2 /\ top = frames[2]
      /\ top.base = 0 /\ top.depth = 0 /\ top.pc = "run"
  BY <1>1, <1>2, TopType DEF StackInv
<1>4. Indices = {1, 2}
  BY <1>3 DEF Indices
<1>5. /\ old \in Frames /\ top \in Frames
      /\ old.who \in Tasks \union {Main} /\ old.base = 0 /\ old.depth = 0
      /\ old.pc \in {"run", "store_inc", "disable"}
  BY <1>1, <1>3, <1>4, TopType DEF StackInv
<1> HIDE DEF old
<1>6. old.pc \in {"run", "store_inc"}
  <2>1. old.base + Inside(old) = top.base
    <3>1. frames[1 + 1].base = frames[1].base + Inside(frames[1])
      BY <1>1, <1>3, <1>4 DEF ChainInv
    <3> QED
      BY <1>3, <3>1 DEF old
  <2>2. Inside(old) = 0
    BY <1>3, <1>5, <2>1, InsideType
  <2>3. old.pc = "disable" => Inside(old) = 1
    BY <1>5, InsideType
  <2> QED
    BY <1>5, <2>2, <2>3
<1>7. parked \in [Tasks -> Frames] /\ parked[t] \in Frames
  BY <1>1 DEF TypeOK
<1>8. /\ new \in Frames /\ new.who \in Tasks \union {Main}
      /\ new.base = 0 /\ new.depth = 0 /\ new.pc \in {"run", "store_inc"}
  BY <1>1, <1>5, <1>6, <1>7 DEF ParkedInv
<1> HIDE DEF new
<1>9. /\ p \in Frames /\ p.who = PendSV /\ p.base = 0 /\ p.depth = 0
      /\ p.pc = "run" /\ p.stage = "left"
  BY <1>2, <1>3, <1>5 DEF Frames
<1> HIDE DEF p
<1>10. /\ frames' \in Seq(Frames) \ {<< >>} /\ Len(frames') = 2
       /\ frames'[1] = new /\ frames'[2] = p
  BY <1>2, <1>8, <1>9
<1>11. Indices' = {1, 2} /\ top' = p
  BY <1>10 DEF Indices, top, Last
<1>12. Inside(new) = 0 /\ Inside(p) = 0 /\ Inside(top) = 0
  <2>1. Inside(new) = 0
    BY <1>8, InsideType
  <2>2. Inside(p) = 0
    BY <1>9, InsideType
  <2>3. Inside(top) = 0
    BY <1>3, <1>5, InsideType
  <2> QED
    BY <2>1, <2>2, <2>3
<1>13. PendSV \notin Tasks \union {Main} \union Handlers
       /\ (Tasks \union {Main}) \intersect Handlers = {}
  BY CpuAssumption
<1>14. TypeOK'
  <2>1. parked' \in [Tasks -> Frames]
    BY <1>2, <1>5, <1>7
  <2> QED
    BY <1>1, <1>2, <1>10, <2>1 DEF TypeOK
<1>15. StackInv'
  <2>1. frames'[1].who \in Tasks \union {Main} /\ frames'[1].base = 0
    BY <1>8, <1>10
  <2>2. \A i \in Indices' : i > 1 => frames'[i].who \in Interrupts
    BY <1>9, <1>10, <1>11 DEF Interrupts
  <2>3. \A i \in Indices' : i < Len(frames') =>
           frames'[i].depth = 0 /\ frames'[i].pc \in {"run", "store_inc", "disable"}
    BY <1>8, <1>10, <1>11
  <2>4. \A i \in Indices' : frames'[i].who = PendSV =>
           i = 2 /\ frames'[i].base = 0 /\ frames'[i].depth = 0 /\ frames'[i].pc = "run"
    BY <1>8, <1>9, <1>10, <1>11, <1>13
  <2>5. top'.pc \notin {"store_dec", "enable"}
    BY <1>9, <1>11
  <2> QED
    BY <2>1, <2>2, <2>3, <2>4, <2>5 DEF StackInv
<1>16. ChainInv'
  <2>1. \A i, j \in Indices' : i < j => i = 1 /\ j = 2
    BY <1>11
  <2>2. frames'[1].base + Inside(frames'[1]) = frames'[2].base
        /\ frames'[2].base = 0
    BY <1>8, <1>9, <1>10, <1>12
  <2>3. \A i \in Indices' : i < Len(frames') => i = 1 /\ i + 1 = 2
    BY <1>10, <1>11
  <2>4. frames'[1].base + Inside(frames'[1]) <= frames'[2].base
    BY <2>2
  <2> QED
    BY <2>1, <2>2, <2>3, <2>4 DEF ChainInv
<1>17. NestInv'
  <2>1. nest = 0
    BY <1>1, <1>3, <1>12 DEF NestInv
  <2> QED
    BY <1>2, <1>9, <1>11, <1>12, <2>1 DEF NestInv
<1>18. MaskInv'
  <2>1. \A i \in Indices' : frames'[i].who \notin Handlers
    BY <1>8, <1>9, <1>10, <1>11, <1>13
  <2>2. frames'[1].pc # "disable" /\ ~(top'.depth > 0)
    BY <1>8, <1>9, <1>10, <1>11
  <2>3. pend' => started'
    BY <1>1, <1>2 DEF MaskInv
  <2> QED
    BY <1>2, <2>1, <2>2, <2>3, Zenon DEF MaskInv
<1>19. BasepriInv'
  <2>1. \A i \in Indices' : ~HasMasked(frames'[i])
    BY <1>8, <1>9, <1>10, <1>11, <1>13 DEF HasMasked
  <2>2. \A i \in Indices : ~HasMasked(frames[i])
    BY <1>2, <1>3, <1>4, <1>5, <1>13 DEF HasMasked, old
  <2>3. Level(frames, Len(frames) + 1) = 0
    BY <2>2 DEF Level, Indices
  <2>4. Level(frames', Len(frames') + 1) = 0
    BY <2>1 DEF Level, Indices
  <2> QED
    BY <1>1, <1>2, <2>1, <2>3, <2>4 DEF BasepriInv
<1>20. ParkedInv'
  <2>1. old.who \in Tasks => parked' = [parked EXCEPT ![old.who] = old]
    BY <1>2
  <2>2. old.who \notin Tasks => parked' = parked
    BY <1>2
  <2> QED
    BY <1>1, <1>5, <1>6, <1>7, <2>1, <2>2 DEF ParkedInv
<1> QED
  BY <1>14, <1>15, <1>16, <1>17, <1>18, <1>19, <1>20 DEF Inv

-----------------------------------------------------------------------------
(* The theorems.                                                           *)

LEMMA Inductive == Inv /\ [Next]_vars => Inv'
<1> SUFFICES ASSUME Inv, [Next]_vars PROVE Inv'
  OBVIOUS
<1>1. CASE CriticalSection
  BY <1>1, LoadsToEnter, LoadsToExit, StoresIncremented, StoresDecremented,
     Disables, Enables DEF CriticalSection
<1>2. CASE MaskInterrupts
  BY <1>2, Masks
<1>3. CASE UnmaskInterrupts
  BY <1>3, Unmasks
<1>4. CASE TriggerDispatcher
  BY <1>4, Triggers
<1>5. CASE Start
  BY <1>5, Starts
<1>6. CASE \E h \in Handlers : TakeInterrupt(h)
  BY <1>6, TakesInterrupt
<1>7. CASE TakePendSV
  BY <1>7, TakesPendSV
<1>8. CASE PendSVDisables
  BY <1>8, PendSVMasks
<1>9. CASE \E t \in Tasks : SwitchTask(t)
  BY <1>9, Switches
<1>10. CASE ReturnFromInterrupt
  BY <1>10, Returns
<1>11. CASE UNCHANGED vars
  BY <1>11 DEF vars, Inv, TypeOK, StackInv, ChainInv, NestInv, MaskInv, BasepriInv,
     ParkedInv, Indices, top, Last, Level
<1> QED
  BY <1>1, <1>2, <1>3, <1>4, <1>5, <1>6, <1>7, <1>8, <1>9, <1>10, <1>11 DEF Next

(* The counter is the number of critical sections that are open, over all  *)
(* the frames of the CPU, whatever interrupted what.                       *)
THEOREM Invariance == Spec => []Inv
BY Initial, Inductive, PTL DEF Spec

(* The types of the state, the frames of the stack among them.             *)
THEOREM CpuTypeCorrect == Spec => []TypeOK
<1>1. Inv => TypeOK
  BY DEF Inv
<1> QED
  BY <1>1, Invariance, PTL

(* Between disableInterrupts and the enableInterrupts that belongs to it   *)
(* no handler runs, for any number of handlers and any nesting.            *)
THEOREM SectionsExclude == Spec => []CriticalSectionsExclude
<1>1. Inv => CriticalSectionsExclude
  <2> SUFFICES ASSUME Inv, NEW i \in 1 .. Len(frames) - 1
               PROVE  frames[i].depth = 0
    BY DEF CriticalSectionsExclude
  <2>1. StackInv /\ Len(frames) \in Nat
    BY TopType DEF Inv
  <2>2. i \in Indices /\ i < Len(frames)
    BY <2>1 DEF Indices
  <2> QED
    BY <2>1, <2>2 DEF StackInv
<1> QED
  BY <1>1, Invariance, PTL

(* Outside of critical sections a task runs with the counter at zero,      *)
(* interrupts enabled and none masked.                                     *)
THEOREM InterruptsReturn == Spec => []InterruptsComeBack
<1>1. Inv => InterruptsComeBack
  <2> SUFFICES ASSUME Inv, started, Len(frames) = 1, top.pc = "run", top.depth = 0
               PROVE  nest = 0 /\ ~primask /\ basepri = 0
    BY DEF InterruptsComeBack
  <2>1. /\ TypeOK /\ StackInv /\ NestInv /\ MaskInv /\ BasepriInv
        /\ top = frames[1] /\ top \in Frames /\ Indices = {1}
    BY TopType DEF Inv, Indices
  <2>2. top.who \in Tasks \union {Main} /\ top.base = 0
    BY <2>1 DEF StackInv
  <2>3. Inside(top) = 0
    BY <2>1, InsideType
  <2>4. nest = 0
    BY <2>1, <2>2, <2>3 DEF NestInv
  <2>5. top.who \notin Handlers /\ top.who # PendSV
    BY <2>2, CpuAssumption
  <2>6. ~primask
    BY <2>1, <2>4, <2>5 DEF MaskInv
  <2>7. ~\E j \in 1 .. Len(frames) : HasMasked(frames[j])
    BY <2>1, <2>5 DEF HasMasked, Indices
  <2>8. basepri = 0
    BY <2>1, <2>7 DEF BasepriInv, Level
  <2> QED
    BY <2>4, <2>6, <2>8
<1> QED
  BY <1>1, Invariance, PTL

(* The context switch of PendSV never happens inside a critical section of *)
(* the task it switches out.                                               *)
THEOREM SwitchedOut == Spec => []SwitchedOutsideSections
<1>1. Inv => SwitchedOutsideSections
  BY DEF Inv, ParkedInv, SwitchedOutsideSections
<1> QED
  BY <1>1, Invariance, PTL

=============================================================================
