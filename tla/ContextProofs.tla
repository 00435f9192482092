---------------------------- MODULE ContextProofs ----------------------------
(***************************************************************************)
(* Proofs about Context.tla, for any number of tasks, any depth of stack   *)
(* that holds what tasks and handlers put there, and any way in which      *)
(* selections, calls, creations and ticks follow each other.               *)
(***************************************************************************)
EXTENDS ContextProps, SequenceTheorems, TLAPS

-----------------------------------------------------------------------------
(* Stacks                                                                  *)

\* The cells of a task.
Region(p) == Bottom(p) .. Top(p) - 1

\* Every task's region has its whole size within the stacks.
LEMMA RegionFacts ==
  ASSUME NEW p \in Pids
  PROVE  /\ Bottom(p) \in Nat /\ Top(p) \in Nat /\ DEPTH \in Nat /\ LOCALS[p] \in Nat
         /\ Bottom(p) >= 1 /\ Top(p) = Bottom(p) + DEPTH
         /\ Top(p) <= TASKS * DEPTH + 1 /\ TASKS * DEPTH \in Nat
         /\ DEPTH >= LOCALS[p] + 7
<1>1. /\ TASKS \in Nat /\ DEPTH \in Nat /\ p \in Nat /\ 1 <= p /\ p <= TASKS
      /\ LOCALS[p] \in Nat /\ DEPTH >= LOCALS[p] + 7
  BY ContextAssumption DEF Pids
<1>2. (p - 1) * DEPTH \in Nat /\ (TASKS - p) * DEPTH \in Nat
  BY <1>1
<1>3. /\ p * DEPTH = (p - 1) * DEPTH + DEPTH
      /\ TASKS * DEPTH = p * DEPTH + (TASKS - p) * DEPTH
  BY <1>1
<1> QED BY <1>1, <1>2, <1>3 DEF Bottom, Top

\* Two tasks' regions have no cell in common.
LEMMA RegionsApart ==
  ASSUME NEW p \in Pids, NEW q \in Pids, p # q
  PROVE  Top(p) <= Bottom(q) \/ Top(q) <= Bottom(p)
<1>1. ASSUME NEW a \in Pids, NEW b \in Pids, a < b PROVE Top(a) <= Bottom(b)
  <2>1. a \in Nat /\ b \in Nat /\ DEPTH \in Nat /\ b - 1 - a \in Nat
    BY <1>1, ContextAssumption DEF Pids
  <2>2. (b - 1 - a) * DEPTH \in Nat
    BY <2>1
  <2>3. (b - 1) * DEPTH = a * DEPTH + (b - 1 - a) * DEPTH
    BY <2>1
  <2>4. a * DEPTH \in Nat
    BY <2>1
  <2> QED BY <2>2, <2>3, <2>4 DEF Top, Bottom
<1>2. p < q \/ q < p
  BY DEF Pids
<1> QED BY <1>1, <1>2

\* A frame below sp holds the registers written, and leaves other cells alone.
LEMMA WithFrameFacts ==
  ASSUME NEW m \in [Cells -> Values], NEW r \in [Groups -> Values], NEW sp \in Int,
         sp - FrameSize >= 1, sp <= TASKS * DEPTH + 1
  PROVE  /\ WithFrame(m, sp, r) \in [Cells -> Values]
         /\ ContextAt(WithFrame(m, sp, r), sp - FrameSize) = r
         /\ \A c \in Cells : c < sp - FrameSize \/ c >= sp
              => WithFrame(m, sp, r)[c] = m[c]
<1>1. TASKS * DEPTH \in Int
  BY ContextAssumption
<1> DEFINE n == TASKS * DEPTH
<1>2. Cells = 1 .. n /\ n \in Int /\ sp <= n + 1
  BY <1>1 DEF Cells
<1> HIDE DEF n
<1>3. /\ sp - 6 \in Cells /\ sp - 5 \in Cells /\ sp - 4 \in Cells
      /\ sp - 3 \in Cells /\ sp - 2 \in Cells /\ sp - 1 \in Cells
  BY <1>2 DEF FrameSize
<1>4. /\ r.high \in Values /\ r.low \in Values /\ r.r0 \in Values
      /\ r.scratch \in Values /\ r.lr \in Values /\ r.pc \in Values
      /\ r = [high |-> r.high, low |-> r.low, r0 |-> r.r0, scratch |-> r.scratch,
              lr |-> r.lr, pc |-> r.pc]
  BY DEF Groups
<1> DEFINE w == WithFrame(m, sp, r)
<1>5. /\ w \in [Cells -> Values]
      /\ \A c \in Cells : w[c] =
           IF c = sp - 6 THEN r.high ELSE IF c = sp - 5 THEN r.low
           ELSE IF c = sp - 4 THEN r.r0 ELSE IF c = sp - 3 THEN r.scratch
           ELSE IF c = sp - 2 THEN r.lr ELSE IF c = sp - 1 THEN r.pc ELSE m[c]
  BY <1>3, <1>4 DEF WithFrame
<1> HIDE DEF w
<1>6. /\ w[sp - 6] = r.high /\ w[sp - 5] = r.low /\ w[sp - 4] = r.r0
      /\ w[sp - 3] = r.scratch /\ w[sp - 2] = r.lr /\ w[sp - 1] = r.pc
  BY <1>3, <1>5
<1>7. ContextAt(w, sp - FrameSize) = r
  BY <1>4, <1>6 DEF ContextAt, FrameSize
<1>8. ASSUME NEW c \in Cells, c < sp - FrameSize \/ c >= sp PROVE w[c] = m[c]
  <2>1. c \in Int
    BY <1>2
  <2>2. /\ c # sp - 6 /\ c # sp - 5 /\ c # sp - 4
        /\ c # sp - 3 /\ c # sp - 2 /\ c # sp - 1
    BY <1>8, <2>1 DEF FrameSize
  <2> QED BY <1>5, <2>2
<1> QED BY <1>5, <1>7, <1>8 DEF w

\* Clearing popped cells leaves the others alone.
LEMMA PoppedFacts ==
  ASSUME NEW m \in [Cells -> Values], NEW f \in Int, NEW size \in Nat
  PROVE  /\ Popped(m, f, size) \in [Cells -> Values]
         /\ \A c \in Cells : c < f \/ c >= f + size => Popped(m, f, size)[c] = m[c]
<1>1. Zero \in Values
  BY DEF Values
<1>2. Cells \subseteq Int
  BY ContextAssumption DEF Cells
<1> QED BY <1>1, <1>2 DEF Popped

\* What a frame holds depends on its six cells only, and is a set of registers.
LEMMA ContextFacts ==
  ASSUME NEW m \in [Cells -> Values], NEW f \in Int, f >= 1,
         f + FrameSize <= TASKS * DEPTH + 1
  PROVE  /\ ContextAt(m, f) \in [Groups -> Values]
         /\ \A k \in [Cells -> Values] :
              (\A c \in Cells : f <= c /\ c < f + FrameSize => k[c] = m[c])
                => ContextAt(k, f) = ContextAt(m, f)
<1> DEFINE n == TASKS * DEPTH
<1>1. Cells = 1 .. n /\ n \in Int /\ f + FrameSize <= n + 1
  BY ContextAssumption DEF Cells
<1> HIDE DEF n
<1>2. \A i \in 0 .. 5 : f + i \in Cells /\ f <= f + i /\ f + i < f + FrameSize
  BY <1>1 DEF FrameSize
<1>3. /\ m[f] \in Values /\ m[f + 1] \in Values /\ m[f + 2] \in Values
      /\ m[f + 3] \in Values /\ m[f + 4] \in Values /\ m[f + 5] \in Values
  BY <1>2
<1>4. ContextAt(m, f) \in [Groups -> Values]
  BY <1>3 DEF ContextAt, Groups
<1>5. ASSUME NEW k \in [Cells -> Values],
             \A c \in Cells : f <= c /\ c < f + FrameSize => k[c] = m[c]
      PROVE  ContextAt(k, f) = ContextAt(m, f)
  <2>1. /\ k[f] = m[f] /\ k[f + 1] = m[f + 1] /\ k[f + 2] = m[f + 2]
        /\ k[f + 3] = m[f + 3] /\ k[f + 4] = m[f + 4] /\ k[f + 5] = m[f + 5]
    BY <1>2, <1>5
  <2> QED BY <2>1 DEF ContextAt
<1> QED BY <1>4, <1>5

-----------------------------------------------------------------------------
(* The inductive invariant                                                 *)

\* Where the stack pointer of a task may be: above it the task keeps what it
\* pushed, and inside gkrtos_trigger_svcall the return address; below it there
\* is room for a frame.
Placed(p) ==
  /\ SpOf(p) <= Top(p)
  /\ \/ FileOf(p).pc = Code /\ SpOf(p) >= Top(p) - LOCALS[p]
     \/ /\ FileOf(p).pc \in {AtSvc, PastSvc}
        /\ SpOf(p) < Top(p) /\ SpOf(p) >= Top(p) - LOCALS[p] - 1
AllPlaced == \A p \in Created : Placed(p)

\* The priorities in the registers at every stage of the boot.
PriorityInv ==
  /\ stage = "reset" => shpr2 = 0 /\ shpr3 = 0
  /\ stage = "init" => shpr2 = 512 /\ shpr3 = 3
  /\ stage = "started" => shpr2 = 512 /\ shpr3 = 515

\* Before tasking starts there are new tasks only; then one of them runs.
StageInv ==
  /\ stage = "reset" => nextPid = 1
  /\ stage # "started" => /\ running = BootPid /\ queued = BootPid
                          /\ handler = <<>> /\ ~pendsv
                          /\ \A p \in Created : FileOf(p) = NewContext
  /\ stage = "started" => running \in Created /\ queued \in Created

\* One handler at a time; gkrtos_svcall_stackptr is the frame it came with.
OneHandler(h) ==
  h = <<>> \/ \E e \in Handlers, g \in {"entered", "decided"} :
                 h = <<[exception |-> e, progress |-> g]>>
HandlerInv ==
  /\ OneHandler(handler)
  /\ In("svcall", "decided") => svcStackptr = frame

\* The types without the handler's, which follows from HandlerInv.
CoreTypes ==
  /\ regs \in [Groups -> Values] /\ mem \in [Cells -> Values]
  /\ psp \in 0 .. TASKS * DEPTH + 1
  /\ stackptr \in [Pids -> Cells \union {0}]
  /\ svcStackptr \in Cells \union {0} /\ frame \in Cells \union {0}
SchedulerTypes ==
  /\ nextPid \in 1 .. TASKS + 1
  /\ running \in Pids \union {BootPid} /\ queued \in Pids \union {BootPid}
  /\ pendsv \in BOOLEAN
  /\ stage \in {"reset", "init", "started"}

CInv == /\ CoreTypes /\ SchedulerTypes
        /\ PriorityInv /\ StageInv /\ HandlerInv /\ AllPlaced

LEMMA CreatedFacts ==
  ASSUME SchedulerTypes
  PROVE  /\ Created \subseteq Pids /\ nextPid \notin Created /\ BootPid \notin Pids
         /\ nextPid \in Pids /\ nextPid' = nextPid + 1 =>
              nextPid' \in 1 .. TASKS + 1 /\ Created' = Created \union {nextPid}
BY ContextAssumption DEF SchedulerTypes, Created, Pids, BootPid

\* What the invariant says of one task.
LEMMA TaskFacts ==
  ASSUME CoreTypes, SchedulerTypes, AllPlaced, NEW p \in Created
  PROVE  /\ p \in Pids /\ SpOf(p) \in Int
         /\ SpOf(p) - FrameSize >= Bottom(p) /\ SpOf(p) <= Top(p)
         /\ SpOf(p) - FrameSize >= 1 /\ SpOf(p) <= TASKS * DEPTH + 1
         /\ FileOf(p) \in [Groups -> Values]
         /\ InThread(p) => SpOf(p) = psp /\ FileOf(p) = regs
         /\ ~InThread(p) => /\ FrameOf(p) = SpOf(p) - FrameSize
                            /\ FileOf(p) = ContextAt(mem, SpOf(p) - FrameSize)
         /\ StackOf(p) = [i \in 1 .. Top(p) - SpOf(p) |-> mem[SpOf(p) + i - 1]]
<1>1. p \in Pids
  BY CreatedFacts
<1>2. /\ psp \in Int /\ frame \in Int /\ stackptr[p] \in Int
  BY <1>1, ContextAssumption DEF CoreTypes, Cells
<1>3. SpOf(p) \in Int /\ (~InThread(p) => FrameOf(p) = SpOf(p) - FrameSize)
  BY <1>2 DEF SpOf, FrameOf, FrameSize
<1>4. Placed(p)
  BY DEF AllPlaced
<1>5. SpOf(p) - FrameSize >= Bottom(p) /\ SpOf(p) <= Top(p)
  BY <1>1, <1>3, <1>4, RegionFacts DEF Placed, FrameSize
<1>6. SpOf(p) - FrameSize >= 1 /\ SpOf(p) <= TASKS * DEPTH + 1
  BY <1>1, <1>3, <1>5, RegionFacts DEF FrameSize
<1>7. /\ InThread(p) => SpOf(p) = psp /\ FileOf(p) = regs
      /\ ~InThread(p) => FileOf(p) = ContextAt(mem, SpOf(p) - FrameSize)
  BY <1>3 DEF SpOf, FileOf
<1>8. FileOf(p) \in [Groups -> Values]
  <2>1. CASE InThread(p)
    BY <1>7, <2>1 DEF CoreTypes
  <2>2. CASE ~InThread(p)
    <3>1. SpOf(p) - FrameSize + FrameSize <= TASKS * DEPTH + 1
      BY <1>3, <1>6, ContextAssumption DEF FrameSize
    <3>2. SpOf(p) - FrameSize \in Int
      BY <1>3 DEF FrameSize
    <3>3. mem \in [Cells -> Values]
      BY DEF CoreTypes
    <3>4. ContextAt(mem, SpOf(p) - FrameSize) \in [Groups -> Values]
      BY <1>6, <3>1, <3>2, <3>3, ContextFacts
    <3> QED BY <1>7, <2>2, <3>4
  <2> QED BY <2>1, <2>2
<1> QED BY <1>1, <1>3, <1>5, <1>6, <1>7, <1>8 DEF StackOf

\* What a step may do to a task.
Same(p) ==
  FileOf(p)' = FileOf(p) /\ SpOf(p)' = SpOf(p) /\ StackOf(p)' = StackOf(p)

\* A task keeps its registers and its stack if it is in a frame before and
\* after and no cell of its region changes.
LEMMA Unmoved ==
  ASSUME CoreTypes, SchedulerTypes, AllPlaced, mem' \in [Cells -> Values],
         NEW p \in Created, p \in Created',
         ~InThread(p), ~InThread(p)', FrameOf(p)' = FrameOf(p),
         \A c \in Cells : Bottom(p) <= c /\ c < Top(p) => mem'[c] = mem[c]
  PROVE  Same(p)
<1> DEFINE sp == SpOf(p)
<1>1. /\ p \in Pids /\ sp \in Int /\ sp - FrameSize >= Bottom(p) /\ sp <= Top(p)
      /\ sp - FrameSize >= 1 /\ sp <= TASKS * DEPTH + 1
      /\ FrameOf(p) = sp - FrameSize
      /\ FileOf(p) = ContextAt(mem, sp - FrameSize)
      /\ StackOf(p) = [i \in 1 .. Top(p) - sp |-> mem[sp + i - 1]]
  BY TaskFacts
<1>2. SpOf(p)' = sp
  BY DEF SpOf
<1>3. FileOf(p)' = ContextAt(mem', sp - FrameSize)
  BY <1>1 DEF FileOf
<1>4. StackOf(p)' = [i \in 1 .. Top(p) - sp |-> mem'[sp + i - 1]]
  BY <1>2 DEF StackOf, Top
<1> HIDE DEF sp
<1>5. /\ Bottom(p) \in Nat /\ Top(p) \in Nat /\ Bottom(p) >= 1
      /\ Top(p) <= TASKS * DEPTH + 1 /\ TASKS * DEPTH \in Nat
  BY <1>1, RegionFacts
<1>6. Cells = 1 .. TASKS * DEPTH
  BY DEF Cells
<1>7. ContextAt(mem', sp - FrameSize) = ContextAt(mem, sp - FrameSize)
  <2>1. \A c \in Cells : sp - FrameSize <= c /\ c < sp - FrameSize + FrameSize
                           => mem'[c] = mem[c]
    BY <1>1, <1>5, <1>6 DEF FrameSize
  <2>2. sp - FrameSize \in Int /\ sp - FrameSize + FrameSize <= TASKS * DEPTH + 1
    BY <1>1, <1>5 DEF FrameSize
  <2>3. mem \in [Cells -> Values]
    BY DEF CoreTypes
  <2> QED BY <1>1, <2>1, <2>2, <2>3, ContextFacts
<1>8. \A i \in 1 .. Top(p) - sp : mem'[sp + i - 1] = mem[sp + i - 1]
  <2>1. \A i \in 1 .. Top(p) - sp :
          /\ sp + i - 1 \in Cells /\ Bottom(p) <= sp + i - 1 /\ sp + i - 1 < Top(p)
    BY <1>1, <1>5, <1>6 DEF FrameSize
  <2> QED BY <2>1
<1> QED BY <1>1, <1>2, <1>3, <1>4, <1>7, <1>8 DEF Same, sp

\* A step in which nothing moves, whatever it decides.
LEMMA Invisible ==
  ASSUME UNCHANGED <<regs, psp, mem, frame, stackptr, nextPid, running>>,
         handler' = <<>> <=> handler = <<>>
  PROVE  \A p \in Pids : Same(p)
<1> SUFFICES ASSUME NEW p \in Pids PROVE Same(p)
  OBVIOUS
<1>1. InThread(p)' <=> InThread(p)
  BY DEF InThread
<1>2. FrameOf(p)' = FrameOf(p) /\ Created' = Created
  BY DEF FrameOf, Created
<1>3. SpOf(p)' = SpOf(p)
  BY <1>1, <1>2 DEF SpOf
<1>4. FileOf(p)' = FileOf(p)
  BY <1>1, <1>2 DEF FileOf
<1>5. StackOf(p)' = StackOf(p)
  BY <1>2, <1>3 DEF StackOf, Top
<1> QED BY <1>3, <1>4, <1>5 DEF Same

\* A step of the running task, or of a handler on its behalf, within its region.
LEMMA OthersUnmoved ==
  ASSUME CoreTypes, SchedulerTypes, AllPlaced, mem' \in [Cells -> Values],
         running \in Created, UNCHANGED <<stackptr, nextPid, running>>,
         \A c \in Cells : c < Bottom(running) \/ c >= Top(running)
                          => mem'[c] = mem[c]
  PROVE  \A p \in Created \ {running} : Same(p)
<1> SUFFICES ASSUME NEW p \in Created \ {running} PROVE Same(p)
  OBVIOUS
<1>1. p \in Pids /\ running \in Pids /\ p \in Created' /\ p \in Created
  BY CreatedFacts DEF Created
<1>2. ~InThread(p) /\ ~InThread(p)' /\ FrameOf(p)' = FrameOf(p)
  BY DEF InThread, FrameOf
<1>3. \A c \in Cells : Bottom(p) <= c /\ c < Top(p) => mem'[c] = mem[c]
  <2>1. Top(p) <= Bottom(running) \/ Top(running) <= Bottom(p)
    BY <1>1, RegionsApart
  <2>2. /\ Top(p) \in Nat /\ Bottom(p) \in Nat
        /\ Top(running) \in Nat /\ Bottom(running) \in Nat
    BY <1>1, RegionFacts
  <2>3. \A c \in Cells : c \in Int
    BY ContextAssumption DEF Cells
  <2> QED BY <2>1, <2>2, <2>3
<1> QED BY <1>1, <1>2, <1>3, Unmoved

\* A stack read from the cells sp .. top - 1.
Window(m, sp, top) == [i \in 1 .. top - sp |-> m[sp + i - 1]]

\* A cell is pushed ...
LEMMA WindowGrows ==
  ASSUME NEW m, NEW k, NEW sp \in Int, NEW top \in Int, sp <= top,
         \A c \in sp .. top - 1 : k[c] = m[c]
  PROVE  Window(k, sp - 1, top) = <<k[sp - 1]>> \o Window(m, sp, top)
<1> DEFINE w == Window(m, sp, top)
           n == top - sp
<1>1. n \in Nat /\ top - (sp - 1) = n + 1
  OBVIOUS
<1>2. w = [i \in 1 .. n |-> m[sp + i - 1]]
  BY DEF Window
<1>3. /\ <<k[sp - 1]>> \o w = [i \in 1 .. n + 1 |->
                                IF i = 1 THEN k[sp - 1] ELSE m[sp + (i - 1) - 1]]
  BY <1>1, <1>2
<1>4. \A i \in 1 .. n + 1 : k[(sp - 1) + i - 1] =
                            IF i = 1 THEN k[sp - 1] ELSE m[sp + (i - 1) - 1]
  BY <1>1
<1>5. Window(k, sp - 1, top) = [i \in 1 .. n + 1 |-> k[(sp - 1) + i - 1]]
  BY <1>1 DEF Window
<1> QED BY <1>3, <1>4, <1>5

\* ... or popped ...
LEMMA WindowShrinks ==
  ASSUME NEW m, NEW k, NEW sp \in Int, NEW top \in Int, sp < top,
         \A c \in sp + 1 .. top - 1 : k[c] = m[c]
  PROVE  /\ Window(m, sp, top) # <<>>
         /\ Window(k, sp + 1, top) = Tail(Window(m, sp, top))
<1> DEFINE w == Window(m, sp, top)
           n == top - sp
<1>1. n \in Nat /\ n >= 1 /\ top - (sp + 1) = n - 1
  OBVIOUS
<1>2. w = [i \in 1 .. n |-> m[sp + i - 1]]
  BY DEF Window
<1>3. w # <<>> /\ Tail(w) = [i \in 1 .. n - 1 |-> m[sp + (i + 1) - 1]]
  <2> DEFINE S == {m[sp + i - 1] : i \in 1 .. n}
  <2> HIDE DEF n, w
  <2>1. w \in Seq(S) /\ Len(w) = n /\ \A i \in 1 .. n : w[i] = m[sp + i - 1]
    <3>1. w \in [1 .. n -> S] /\ \A i \in 1 .. n : w[i] = m[sp + i - 1]
      BY <1>2
    <3> HIDE DEF S
    <3>2. w \in Seq(S) /\ Len(w) = n
      BY <1>1, <3>1
    <3> QED BY <3>1, <3>2
  <2> HIDE DEF S
  <2>2. w # <<>>
    BY <1>1, <2>1
  <2>3. /\ Tail(w) \in Seq(S) /\ Len(Tail(w)) = n - 1
        /\ \A i \in 1 .. n - 1 : Tail(w)[i] = w[i + 1]
    BY <1>1, <2>1, <2>2, HeadTailProperties
  <2>4. Tail(w) = [i \in 1 .. n - 1 |-> Tail(w)[i]]
    <3> DEFINE u == Tail(w)
    <3>1. u \in Seq(S) /\ Len(u) = n - 1
      BY <2>3
    <3> HIDE DEF u
    <3>2. u = [i \in 1 .. Len(u) |-> u[i]]
      BY <3>1, LenProperties
    <3> QED BY <3>1, <3>2 DEF u
  <2>5. \A i \in 1 .. n - 1 : Tail(w)[i] = m[sp + (i + 1) - 1]
    BY <1>1, <2>1, <2>3
  <2> QED BY <2>2, <2>4, <2>5
<1>4. \A i \in 1 .. n - 1 : k[(sp + 1) + i - 1] = m[sp + (i + 1) - 1]
  BY <1>1
<1>5. Window(k, sp + 1, top) = [i \in 1 .. n - 1 |-> k[(sp + 1) + i - 1]]
  BY <1>1 DEF Window
<1> QED BY <1>3, <1>4, <1>5

\* ... or neither.
LEMMA WindowSame ==
  ASSUME NEW m, NEW k, NEW sp \in Int, NEW top \in Int,
         \A c \in sp .. top - 1 : k[c] = m[c]
  PROVE  Window(k, sp, top) = Window(m, sp, top)
BY DEF Window

-----------------------------------------------------------------------------
(* What the steps do to tasks                                              *)

\* Where the executing, or the interrupted, task is.
LEMMA RunningFacts ==
  ASSUME CInv, stage = "started"
  PROVE  /\ running \in Created /\ running \in Pids /\ SpOf(running) \in Int
         /\ SpOf(running) - FrameSize >= Bottom(running)
         /\ SpOf(running) <= Top(running) /\ Top(running) \in Nat
         /\ Bottom(running) \in Nat /\ Bottom(running) >= 1
         /\ Top(running) <= TASKS * DEPTH + 1 /\ TASKS * DEPTH \in Nat
         /\ handler = <<>> => SpOf(running) = psp /\ FileOf(running) = regs
         /\ handler # <<>> =>
              /\ frame = SpOf(running) - FrameSize
              /\ FileOf(running) = ContextAt(mem, frame)
         /\ StackOf(running) = Window(mem, SpOf(running), Top(running))
<1>1. running \in Created
  BY DEF CInv, StageInv
<1>2. InThread(running) <=> handler = <<>>
  BY DEF InThread
<1>3. FrameOf(running) = frame
  BY DEF FrameOf
<1>4. running \in Pids
  BY <1>1, TaskFacts DEF CInv
<1> QED BY <1>1, <1>2, <1>3, <1>4, TaskFacts, RegionFacts DEF CInv, Window

\* The task's own instructions.
LEMMA ThreadEffect ==
  ASSUME CInv, stage = "started", handler = <<>>,
         regs' \in [Groups -> Values], mem' \in [Cells -> Values],
         UNCHANGED <<stackptr, handler, nextPid, running>>,
         \A c \in Cells : c < Bottom(running) \/ c >= Top(running)
                          => mem'[c] = mem[c]
  PROVE  /\ \A p \in Created \ {running} : Same(p)
         /\ FileOf(running)' = regs' /\ SpOf(running)' = psp'
         /\ StackOf(running)' = Window(mem', psp', Top(running))
<1>1. running \in Created /\ running \in Created'
  BY RunningFacts DEF Created
<1>2. InThread(running)'
  BY DEF InThread
<1>3. /\ FileOf(running)' = regs' /\ SpOf(running)' = psp'
      /\ StackOf(running)' = Window(mem', psp', Top(running))
  BY <1>1, <1>2 DEF FileOf, SpOf, StackOf, Window, Top
<1> QED BY <1>1, <1>3, OthersUnmoved DEF CInv

\* An exception is taken in the task: its registers go to its stack.
LEMMA TrapEffect ==
  ASSUME CInv, stage = "started", handler = <<>>, NEW pc \in Values,
         SaveContext(pc), handler' # <<>>,
         UNCHANGED <<stackptr, nextPid, running>>
  PROVE  /\ regs' \in [Groups -> Values] /\ mem' \in [Cells -> Values]
         /\ psp' \in 0 .. TASKS * DEPTH + 1 /\ frame' \in Cells
         /\ \A p \in Created \ {running} : Same(p)
         /\ FileOf(running)' = [regs EXCEPT !.pc = pc]
         /\ SpOf(running)' = SpOf(running) /\ StackOf(running)' = StackOf(running)
<1> DEFINE r == [regs EXCEPT !.pc = pc]
           n == TASKS * DEPTH
<1>1. /\ running \in Created /\ psp \in Int /\ psp = SpOf(running)
      /\ psp - FrameSize >= Bottom(running) /\ psp <= Top(running)
      /\ Top(running) \in Nat /\ Bottom(running) \in Nat /\ Bottom(running) >= 1
      /\ Top(running) <= n + 1 /\ n \in Nat
      /\ StackOf(running) = Window(mem, psp, Top(running))
  BY RunningFacts
<1>2. /\ mem \in [Cells -> Values] /\ regs \in [Groups -> Values]
      /\ r \in [Groups -> Values]
  BY DEF CInv, CoreTypes, Groups
<1>3. Cells = 1 .. n
  BY DEF Cells
<1>4. mem' = WithFrame(mem, psp, r) /\ psp' = psp - 4 /\ frame' = psp - FrameSize
  BY DEF SaveContext
<1>5. regs' \in [Groups -> Values]
  <2>1. regs.high \in Values /\ Junk \in Values
    BY <1>2 DEF Groups, Values
  <2> QED BY <2>1 DEF SaveContext, Groups
<1> HIDE DEF r
<1>6. /\ mem' \in [Cells -> Values]
      /\ ContextAt(mem', psp - FrameSize) = r
      /\ \A c \in Cells : c < psp - FrameSize \/ c >= psp => mem'[c] = mem[c]
  <2>1. psp - FrameSize >= 1 /\ psp <= TASKS * DEPTH + 1
    BY <1>1 DEF FrameSize
  <2> QED BY <1>1, <1>2, <1>4, <2>1, WithFrameFacts
<1> HIDE DEF n
<1>7. psp' \in 0 .. n + 1 /\ frame' \in Cells
  BY <1>1, <1>3, <1>4 DEF FrameSize
<1>8. \A p \in Created \ {running} : Same(p)
  <2>1. \A c \in Cells : c < Bottom(running) \/ c >= Top(running) => mem'[c] = mem[c]
    BY <1>1, <1>3, <1>6 DEF FrameSize
  <2> QED BY <1>1, <1>6, <2>1, OthersUnmoved DEF CInv
<1>9. FileOf(running)' = r /\ SpOf(running)' = psp
  <2>1. running \in Created' /\ ~InThread(running)' /\ FrameOf(running)' = psp - FrameSize
    BY <1>1, <1>4 DEF Created, InThread, FrameOf
  <2>2. psp - FrameSize + FrameSize = psp
    BY <1>1 DEF FrameSize
  <2> QED BY <1>6, <2>1, <2>2 DEF FileOf, SpOf
<1>10. StackOf(running)' = StackOf(running)
  <2>1. \A c \in psp .. Top(running) - 1 : mem'[c] = mem[c]
    BY <1>1, <1>3, <1>6 DEF FrameSize
  <2>2. StackOf(running)' = Window(mem', psp, Top(running))
    BY <1>1, <1>9 DEF StackOf, Window, Created, Top
  <2>3. Window(mem', psp, Top(running)) = Window(mem, psp, Top(running))
    BY <1>1, <2>1, WindowSame
  <2> QED BY <1>1, <2>2, <2>3
<1> QED BY <1>1, <1>5, <1>6, <1>7, <1>8, <1>9, <1>10 DEF r, n

\* The exception returns, m being the stacks with or without an answer in the
\* frame: the task has the registers of the frame again.
LEMMA ReturnEffect ==
  ASSUME CInv, stage = "started", handler # <<>>, handler' = <<>>,
         NEW m \in [Cells -> Values],
         \A c \in Cells : c # frame + 2 => m[c] = mem[c],
         RestoreContext(m, frame), UNCHANGED <<stackptr, nextPid, running>>
  PROVE  /\ regs' \in [Groups -> Values] /\ mem' \in [Cells -> Values]
         /\ psp' \in 0 .. TASKS * DEPTH + 1 /\ frame' = 0
         /\ \A p \in Created \ {running} : Same(p)
         /\ \A g \in Groups \ {"r0"} : FileOf(running)'[g] = FileOf(running)[g]
         /\ FileOf(running)'.r0 = m[frame + 2] /\ FileOf(running).r0 = mem[frame + 2]
         /\ FileOf(running)' \in [Groups -> Values]
         /\ SpOf(running)' = SpOf(running) /\ StackOf(running)' = StackOf(running)
<1> DEFINE n == TASKS * DEPTH
           sp == SpOf(running)
<1>1. /\ running \in Created /\ sp \in Int /\ frame = sp - FrameSize
      /\ frame >= Bottom(running) /\ sp <= Top(running)
      /\ Top(running) \in Nat /\ Bottom(running) \in Nat /\ Bottom(running) >= 1
      /\ Top(running) <= n + 1 /\ n \in Nat
      /\ FileOf(running) = ContextAt(mem, frame)
      /\ StackOf(running) = Window(mem, sp, Top(running))
  BY RunningFacts
<1>2. Cells = 1 .. n
  BY DEF Cells
<1> HIDE DEF n, sp
<1>3. frame \in Int /\ frame + FrameSize = sp /\ frame >= 1 /\ sp <= n + 1
  BY <1>1 DEF FrameSize
<1>4. /\ regs' = ContextAt(m, frame) /\ psp' = sp /\ frame' = 0
      /\ mem' = Popped(m, frame, FrameSize)
  BY <1>3 DEF RestoreContext
<1>5. /\ mem' \in [Cells -> Values]
      /\ \A c \in Cells : c < frame \/ c >= sp => mem'[c] = mem[c]
  <2>1. FrameSize \in Nat
    BY DEF FrameSize
  <2>2. /\ mem' \in [Cells -> Values]
        /\ \A c \in Cells : c < frame \/ c >= frame + FrameSize => mem'[c] = m[c]
    BY <1>3, <1>4, <2>1, PoppedFacts
  <2>3. \A c \in Cells : c < frame \/ c >= sp => c # frame + 2
    BY <1>2, <1>3 DEF FrameSize
  <2> QED BY <1>3, <2>2, <2>3
<1>6. regs' \in [Groups -> Values]
  BY <1>3, <1>4, ContextFacts DEF n
<1>7. \A g \in Groups \ {"r0"} : regs'[g] = ContextAt(mem, frame)[g]
  <2>1. /\ m[frame] = mem[frame] /\ m[frame + 1] = mem[frame + 1]
        /\ m[frame + 3] = mem[frame + 3] /\ m[frame + 4] = mem[frame + 4]
        /\ m[frame + 5] = mem[frame + 5]
    <3>1. \A i \in 0 .. 5 : frame + i \in Cells
      BY <1>1, <1>2, <1>3 DEF FrameSize
    <3>2. \A i \in 0 .. 5 : i # 2 => m[frame + i] = mem[frame + i]
      BY <1>3, <3>1
    <3> QED BY <1>3, <3>2
  <2> QED BY <1>4, <2>1 DEF ContextAt, Groups
<1>8. \A p \in Created \ {running} : Same(p)
  <2>1. \A c \in Cells : c < Bottom(running) \/ c >= Top(running) => mem'[c] = mem[c]
    BY <1>1, <1>2, <1>3, <1>5
  <2> QED BY <1>1, <1>5, <2>1, OthersUnmoved DEF CInv
<1>9. FileOf(running)' = regs' /\ SpOf(running)' = sp
  <2>1. running \in Created' /\ InThread(running)'
    BY <1>1 DEF Created, InThread
  <2> QED BY <1>4, <2>1 DEF FileOf, SpOf
<1>10. StackOf(running)' = StackOf(running)
  <2>1. \A c \in sp .. Top(running) - 1 : mem'[c] = mem[c]
    BY <1>1, <1>2, <1>3, <1>5 DEF FrameSize
  <2>2. StackOf(running)' = Window(mem', sp, Top(running))
    BY <1>1, <1>9 DEF StackOf, Window, Created, Top
  <2>3. Window(mem', sp, Top(running)) = Window(mem, sp, Top(running))
    BY <1>1, <2>1, WindowSame
  <2> QED BY <1>1, <2>2, <2>3
<1>11. psp' \in 0 .. n + 1
  BY <1>1, <1>3, <1>4 DEF FrameSize
<1>12. regs'.r0 = m[frame + 2] /\ FileOf(running).r0 = mem[frame + 2]
  BY <1>1, <1>4 DEF ContextAt
<1> QED BY <1>1, <1>4, <1>5, <1>6, <1>7, <1>8, <1>9, <1>10, <1>11, <1>12 DEF n, sp

\* A task is created while none executes.
LEMMA CreateEffect ==
  ASSUME CInv, CreateTask, stage # "started" \/ handler # <<>>,
         handler' = <<>> <=> handler = <<>>,
         UNCHANGED <<running, frame>>, NEW t, t = nextPid
  PROVE  /\ t \in Pids /\ t \notin Created /\ t # running
         /\ Created' = Created \union {t} /\ nextPid' \in 1 .. TASKS + 1
         /\ mem' \in [Cells -> Values] /\ psp' \in 0 .. TASKS * DEPTH + 1
         /\ stackptr' \in [Pids -> Cells \union {0}]
         /\ \A p \in Created : Same(p)
         /\ FileOf(t)' = NewContext /\ SpOf(t)' = Top(t)
         /\ StackOf(t)' = <<>>
<1> DEFINE n == TASKS * DEPTH
<1>1. /\ t \in Pids /\ t \notin Created /\ t # running
      /\ Created' = Created \union {t} /\ nextPid' \in 1 .. TASKS + 1
  <2>1. running \in Created \union {BootPid}
    BY DEF CInv, StageInv, SchedulerTypes
  <2> QED BY <2>1, CreatedFacts DEF CreateTask, CInv
<1>2. /\ Bottom(t) \in Nat /\ Top(t) \in Nat /\ Bottom(t) >= 1 /\ Top(t) <= n + 1
      /\ n \in Nat /\ Top(t) - FrameSize >= Bottom(t)
  BY <1>1, RegionFacts DEF FrameSize
<1>3. Cells = 1 .. n
  BY DEF Cells
<1>4. /\ mem \in [Cells -> Values] /\ stackptr \in [Pids -> Cells \union {0}]
      /\ NewContext \in [Groups -> Values]
  <2>1. Zero \in Values /\ Junk \in Values /\ Code \in Values
    BY DEF Values
  <2> QED BY <2>1 DEF CInv, CoreTypes, NewContext, Groups
<1>5. /\ mem' = WithFrame(mem, Top(t), NewContext) /\ psp' = Top(t) - 4
      /\ stackptr' = [stackptr EXCEPT ![t] = Top(t) - FrameSize]
  BY DEF CreateTask
<1>6. /\ mem' \in [Cells -> Values]
      /\ ContextAt(mem', Top(t) - FrameSize) = NewContext
      /\ \A c \in Cells : c < Top(t) - FrameSize \/ c >= Top(t) => mem'[c] = mem[c]
  <2>1. Top(t) - FrameSize >= 1 /\ Top(t) <= TASKS * DEPTH + 1 /\ Top(t) \in Int
    BY <1>2 DEF FrameSize
  <2> QED BY <1>4, <1>5, <2>1, WithFrameFacts
<1> HIDE DEF n
<1>7. psp' \in 0 .. n + 1
  BY <1>2, <1>5 DEF FrameSize
<1>8. Top(t) - FrameSize \in Cells
  BY <1>2, <1>3 DEF FrameSize
<1>9. stackptr' \in [Pids -> Cells \union {0}] /\ stackptr'[t] = Top(t) - FrameSize
  BY <1>1, <1>4, <1>5, <1>8
<1>10. \A p \in Created : Same(p)
  <2> SUFFICES ASSUME NEW p \in Created PROVE Same(p)
    OBVIOUS
  <2>1. p \in Pids /\ p # t /\ p \in Created'
    BY <1>1, CreatedFacts DEF CInv
  <2>2. ~InThread(p) /\ ~InThread(p)'
    <3>1. running # p \/ handler # <<>>
      BY <2>1, CreatedFacts DEF CInv, StageInv
    <3> QED BY <3>1 DEF InThread
  <2>3. FrameOf(p)' = FrameOf(p)
    BY <1>4, <1>5, <2>1 DEF FrameOf
  <2>4. \A c \in Cells : Bottom(p) <= c /\ c < Top(p) => mem'[c] = mem[c]
    <3>1. Top(p) <= Bottom(t) \/ Top(t) <= Bottom(p)
      BY <1>1, <2>1, RegionsApart
    <3>2. Top(p) \in Nat /\ Bottom(p) \in Nat
      BY <2>1, RegionFacts
    <3> QED BY <1>2, <1>3, <1>6, <3>1, <3>2 DEF FrameSize
  <2> QED BY <1>6, <2>1, <2>2, <2>3, <2>4, Unmoved DEF CInv
<1>11. /\ FileOf(t)' = NewContext /\ SpOf(t)' = Top(t) /\ StackOf(t)' = <<>>
  <2>1. t \in Created' /\ ~InThread(t)' /\ FrameOf(t)' = Top(t) - FrameSize
    BY <1>1, <1>9 DEF InThread, FrameOf
  <2>2. FileOf(t)' = NewContext
    BY <1>6, <2>1 DEF FileOf
  <2>3. SpOf(t)' = Top(t)
    BY <1>2, <2>1 DEF SpOf, FrameSize
  <2>4. StackOf(t)' = [i \in 1 .. Top(t) - Top(t) |-> mem'[Top(t) + i - 1]]
    BY <2>1, <2>3 DEF StackOf, Top
  <2>5. Top(t) - Top(t) = 0
    BY <1>2
  <2> QED BY <2>2, <2>3, <2>4, <2>5
<1> QED BY <1>1, <1>6, <1>7, <1>9, <1>10, <1>11 DEF n

\* gkrtos_start goes on where a new task's frame says.
LEMMA StartEffect ==
  ASSUME CInv, Start
  PROVE  /\ regs' \in [Groups -> Values] /\ mem' \in [Cells -> Values]
         /\ psp' \in 0 .. TASKS * DEPTH + 1
         /\ SpinPid \in Created /\ Created' = Created
         /\ \A p \in Created : Same(p)
<1> DEFINE n == TASKS * DEPTH
           sp == SpOf(SpinPid)
           f == stackptr[SpinPid]
<1>1. /\ SpinPid \in Created /\ Created' = Created /\ running = BootPid
      /\ running' = SpinPid /\ handler = <<>> /\ handler' = <<>>
      /\ UNCHANGED <<stackptr, frame, nextPid>>
      /\ FileOf(SpinPid) = NewContext
  BY DEF Start, CInv, StageInv, Created
<1>2. ~InThread(SpinPid) /\ InThread(SpinPid)' /\ FrameOf(SpinPid) = f
  BY <1>1 DEF InThread, FrameOf, SpinPid, BootPid
<1>3. /\ SpinPid \in Pids /\ sp \in Int /\ sp - FrameSize >= Bottom(SpinPid)
      /\ sp <= Top(SpinPid) /\ f = sp - FrameSize
      /\ FileOf(SpinPid) = ContextAt(mem, sp - FrameSize)
      /\ StackOf(SpinPid) = Window(mem, sp, Top(SpinPid))
  BY <1>1, <1>2, TaskFacts DEF CInv, Window
<1> HIDE DEF f, sp
<1>4. /\ Bottom(SpinPid) \in Nat /\ Top(SpinPid) \in Nat /\ Bottom(SpinPid) >= 1
      /\ Top(SpinPid) <= n + 1 /\ n \in Nat
  BY <1>3, RegionFacts
<1>5. Cells = 1 .. n
  BY DEF Cells
<1> HIDE DEF n
<1>6. f \in Int /\ f + FrameSize = sp /\ f >= Bottom(SpinPid)
  BY <1>3 DEF FrameSize
<1>7. /\ regs' = [ContextAt(mem, f) EXCEPT !.low = Junk] /\ psp' = sp
      /\ mem' = Popped(mem, f, FrameSize)
  BY <1>6 DEF Start, f
<1>8. regs' = NewContext /\ NewContext \in [Groups -> Values]
  <2>1. ContextAt(mem, f) = NewContext
    BY <1>1, <1>3
  <2>2. Zero \in Values /\ Junk \in Values /\ Code \in Values
    BY DEF Values
  <2> QED BY <1>7, <2>1, <2>2 DEF NewContext, Groups
<1>9. /\ mem' \in [Cells -> Values]
      /\ \A c \in Cells : c < f \/ c >= sp => mem'[c] = mem[c]
  <2>1. FrameSize \in Nat /\ mem \in [Cells -> Values]
    BY DEF FrameSize, CInv, CoreTypes
  <2> QED BY <1>6, <1>7, <2>1, PoppedFacts
<1>10. psp' \in 0 .. n + 1
  BY <1>3, <1>4, <1>7 DEF FrameSize
<1>11. ASSUME NEW p \in Created, p # SpinPid PROVE Same(p)
  <2>1. p \in Pids /\ p \in Created' /\ p # BootPid
    BY <1>1, <1>11, CreatedFacts DEF CInv
  <2>2. ~InThread(p) /\ ~InThread(p)' /\ FrameOf(p)' = FrameOf(p)
    BY <1>1, <1>11, <2>1 DEF InThread, FrameOf
  <2>3. \A c \in Cells : Bottom(p) <= c /\ c < Top(p) => mem'[c] = mem[c]
    <3>1. Top(p) <= Bottom(SpinPid) \/ Top(SpinPid) <= Bottom(p)
      BY <1>3, <1>11, <2>1, RegionsApart
    <3>2. Top(p) \in Nat /\ Bottom(p) \in Nat
      BY <2>1, RegionFacts
    <3> QED BY <1>3, <1>4, <1>5, <1>6, <1>9, <3>1, <3>2
  <2> QED BY <1>9, <2>1, <2>2, <2>3, Unmoved DEF CInv
<1>12. Same(SpinPid)
  <2>1. FileOf(SpinPid)' = regs' /\ SpOf(SpinPid)' = psp'
    BY <1>1, <1>2 DEF FileOf, SpOf, SpinPid
  <2>2. StackOf(SpinPid)' = Window(mem', sp, Top(SpinPid))
    BY <1>1, <1>7, <2>1 DEF StackOf, Window, Top, SpinPid
  <2>3. \A c \in sp .. Top(SpinPid) - 1 : mem'[c] = mem[c]
    BY <1>3, <1>4, <1>5, <1>9 DEF FrameSize
  <2>4. Window(mem', sp, Top(SpinPid)) = Window(mem, sp, Top(SpinPid))
    BY <1>3, <1>4, <2>3, WindowSame
  <2> QED BY <1>1, <1>3, <1>7, <1>8, <2>1, <2>2, <2>4 DEF Same, sp
<1> QED BY <1>1, <1>8, <1>9, <1>10, <1>11, <1>12 DEF n

\* The exchange of stack pointers moves no task.
LEMMA SwitchEffect ==
  ASSUME CInv, PendSVSwitch
  PROVE  /\ stage = "started" /\ handler # <<>> /\ handler' # <<>>
         /\ running \in Created /\ running' \in Created /\ Created' = Created
         /\ stackptr' \in [Pids -> Cells \union {0}] /\ frame' \in Cells \union {0}
         /\ \A p \in Created : Same(p)
<1>1. /\ handler # <<>> /\ handler' # <<>> /\ UNCHANGED <<regs, mem, nextPid, queued>>
      /\ Created' = Created
  BY DEF PendSVSwitch, In, Proceed, Created
<1>2. stage = "started"
  BY <1>1 DEF CInv, StageInv, SchedulerTypes
<1>3. running \in Created /\ queued \in Created /\ Created \subseteq Pids
  BY <1>2, CreatedFacts DEF CInv, StageInv
<1>4. /\ stackptr \in [Pids -> Cells \union {0}] /\ frame \in Cells \union {0}
      /\ mem \in [Cells -> Values]
  BY DEF CInv, CoreTypes
<1>5. \/ running' = running /\ stackptr' = stackptr /\ frame' = frame
      \/ /\ queued # running /\ running' = queued /\ frame' = stackptr[queued]
         /\ stackptr' = [stackptr EXCEPT ![running] = frame]
  BY DEF PendSVSwitch
<1>6. /\ running' \in Created /\ stackptr' \in [Pids -> Cells \union {0}]
      /\ frame' \in Cells \union {0}
  BY <1>3, <1>4, <1>5
<1>7. ASSUME NEW p \in Created PROVE Same(p)
  <2>1. ~InThread(p) /\ ~InThread(p)' /\ p \in Created'
    BY <1>1 DEF InThread
  <2>2. FrameOf(p)' = FrameOf(p)
    <3>1. CASE running' = running /\ stackptr' = stackptr /\ frame' = frame
      BY <3>1 DEF FrameOf
    <3>2. CASE /\ queued # running /\ running' = queued /\ frame' = stackptr[queued]
               /\ stackptr' = [stackptr EXCEPT ![running] = frame]
      BY <1>3, <1>4, <3>2 DEF FrameOf
    <3> QED BY <1>5, <3>1, <3>2
  <2> QED BY <1>1, <1>4, <2>1, <2>2, Unmoved DEF CInv
<1> QED BY <1>1, <1>2, <1>3, <1>6, <1>7

\* An instruction of the task: where it is afterwards, and what is on its stack.
ThreadStep ==
  /\ regs' \in [Groups -> Values] /\ mem' \in [Cells -> Values]
  /\ psp' \in 0 .. TASKS * DEPTH + 1
  /\ \A p \in Created \ {running} : Same(p)
  /\ FileOf(running)' = regs' /\ SpOf(running)' = psp'

LEMMA ComputeEffect ==
  ASSUME CInv, stage = "started", handler = <<>>, regs' \in [Groups -> Values],
         UNCHANGED <<psp, mem, stackptr, handler, nextPid, running>>
  PROVE  ThreadStep /\ StackOf(running)' = StackOf(running)
<1>1. mem' \in [Cells -> Values] /\ psp' \in 0 .. TASKS * DEPTH + 1
  BY DEF CInv, CoreTypes
<1>2. /\ \A p \in Created \ {running} : Same(p)
      /\ FileOf(running)' = regs' /\ SpOf(running)' = psp'
      /\ StackOf(running)' = Window(mem', psp', Top(running))
  BY <1>1, ThreadEffect
<1>3. StackOf(running) = Window(mem, psp, Top(running))
  BY RunningFacts
<1> QED BY <1>1, <1>2, <1>3 DEF ThreadStep

LEMMA PushEffect ==
  ASSUME CInv, stage = "started", handler = <<>>, regs' \in [Groups -> Values],
         NEW x \in Values, psp' = psp - 1, mem' = [mem EXCEPT ![psp - 1] = x],
         UNCHANGED <<stackptr, handler, nextPid, running>>
  PROVE  ThreadStep /\ StackOf(running)' = <<x>> \o StackOf(running)
<1> DEFINE n == TASKS * DEPTH
           top == Top(running)
           bottom == Bottom(running)
<1>1. /\ psp \in Int /\ psp - FrameSize >= bottom /\ psp <= top /\ top \in Nat
      /\ bottom \in Nat /\ bottom >= 1 /\ top <= n + 1 /\ n \in Nat
      /\ StackOf(running) = Window(mem, psp, top)
  BY RunningFacts
<1>2. Cells = 1 .. n /\ mem \in [Cells -> Values]
  BY DEF Cells, CInv, CoreTypes
<1> HIDE DEF n, top, bottom
<1>3. psp - 1 \in Cells /\ psp - 1 >= bottom /\ psp - 1 < top
  BY <1>1, <1>2 DEF FrameSize
<1>4. /\ mem' \in [Cells -> Values] /\ mem'[psp - 1] = x
      /\ \A c \in Cells : c # psp - 1 => mem'[c] = mem[c]
  BY <1>2, <1>3
<1>5. psp' \in 0 .. n + 1
  BY <1>1, <1>2, <1>3
<1>6. /\ \A p \in Created \ {running} : Same(p)
      /\ FileOf(running)' = regs' /\ SpOf(running)' = psp'
      /\ StackOf(running)' = Window(mem', psp', top)
  <2>1. \A c \in Cells : c < Bottom(running) \/ c >= Top(running) => mem'[c] = mem[c]
    BY <1>1, <1>2, <1>3, <1>4 DEF top, bottom
  <2> QED BY <1>4, <2>1, ThreadEffect DEF top
<1>7. Window(mem', psp - 1, top) = <<mem'[psp - 1]>> \o Window(mem, psp, top)
  <2>1. \A c \in psp .. top - 1 : mem'[c] = mem[c]
    BY <1>1, <1>2, <1>4 DEF FrameSize
  <2>2. psp \in Int /\ top \in Int /\ psp <= top
    BY <1>1
  <2> QED BY <2>1, <2>2, WindowGrows
<1> QED BY <1>1, <1>4, <1>5, <1>6, <1>7 DEF ThreadStep, n

LEMMA PopEffect ==
  ASSUME CInv, stage = "started", handler = <<>>, regs' \in [Groups -> Values],
         psp < Top(running), psp' = psp + 1, mem' = Popped(mem, psp, 1),
         UNCHANGED <<stackptr, handler, nextPid, running>>
  PROVE  /\ ThreadStep /\ StackOf(running) # <<>>
         /\ StackOf(running)' = Tail(StackOf(running))
<1> DEFINE n == TASKS * DEPTH
           top == Top(running)
           bottom == Bottom(running)
<1>1. /\ psp \in Int /\ psp - FrameSize >= bottom /\ psp < top /\ top \in Nat
      /\ bottom \in Nat /\ bottom >= 1 /\ top <= n + 1 /\ n \in Nat
      /\ StackOf(running) = Window(mem, psp, top)
  BY RunningFacts
<1>2. Cells = 1 .. n /\ mem \in [Cells -> Values]
  BY DEF Cells, CInv, CoreTypes
<1> HIDE DEF n, top, bottom
<1>3. /\ mem' \in [Cells -> Values]
      /\ \A c \in Cells : c < psp \/ c >= psp + 1 => mem'[c] = mem[c]
  BY <1>1, <1>2, PoppedFacts
<1>4. psp' \in 0 .. n + 1
  BY <1>1 DEF FrameSize
<1>5. /\ \A p \in Created \ {running} : Same(p)
      /\ FileOf(running)' = regs' /\ SpOf(running)' = psp'
      /\ StackOf(running)' = Window(mem', psp', top)
  <2>1. \A c \in Cells : c < Bottom(running) \/ c >= Top(running) => mem'[c] = mem[c]
    BY <1>1, <1>2, <1>3 DEF top, bottom, FrameSize
  <2> QED BY <1>3, <2>1, ThreadEffect DEF top
<1>6. /\ Window(mem, psp, top) # <<>>
      /\ Window(mem', psp + 1, top) = Tail(Window(mem, psp, top))
  <2>1. \A c \in psp + 1 .. top - 1 : mem'[c] = mem[c]
    BY <1>1, <1>2, <1>3 DEF FrameSize
  <2>2. psp \in Int /\ top \in Int /\ psp < top
    BY <1>1
  <2> QED BY <2>1, <2>2, WindowShrinks
<1> QED BY <1>1, <1>3, <1>4, <1>5, <1>6 DEF ThreadStep, n

-----------------------------------------------------------------------------
(* The invariant holds                                                     *)

LEMMA InitCInv == Init => CInv
<1> SUFFICES ASSUME Init PROVE CInv
  OBVIOUS
<1>1. Created = {}
  BY DEF Init, Created
<1>2. CoreTypes
  <2>1. Junk \in Values /\ Zero \in Values
    BY DEF Values
  <2>2. TASKS * DEPTH \in Nat
    BY ContextAssumption
  <2> QED BY <2>1, <2>2 DEF Init, CoreTypes
<1>3. SchedulerTypes
  <2>1. pendsv \in BOOLEAN
    BY DEF Init
  <2>2. nextPid \in 1 .. TASKS + 1
    BY ContextAssumption DEF Init
  <2> QED BY <2>1, <2>2 DEF Init, SchedulerTypes
<1>4. PriorityInv /\ StageInv /\ HandlerInv
  BY <1>1 DEF Init, PriorityInv, StageInv, HandlerInv, OneHandler, In
<1> QED BY <1>1, <1>2, <1>3, <1>4 DEF CInv, AllPlaced

\* What the priorities are good for: nothing preempts a handler that has been
\* entered but SysTick, which preempts PendSV.
LEMMA PreemptionFacts ==
  ASSUME CInv, Preempts("pendsv")
  PROVE  stage = "started" /\ handler = <<>>
<1>1. stage = "started" /\ shpr2 = 512 /\ shpr3 = 515
  BY DEF CInv, PriorityInv, Preempts
<1>2. Priority("pendsv") = 3 /\ Priority("svcall") = 2
  BY <1>1 DEF Priority, Field, PRI_11, PRI_14, PRI_15
<1>3. ASSUME handler # <<>> PROVE FALSE
  <2>1. PICK e \in Handlers, g \in {"entered", "decided"} :
           handler = <<[exception |-> e, progress |-> g]>>
    BY <1>3 DEF CInv, HandlerInv, OneHandler
  <2>2. ActivePriority = Priority(e)
    BY <1>3, <2>1 DEF ActivePriority
  <2>3. ActivePriority \in {2, 3}
    BY <1>2, <2>2 DEF Handlers
  <2>4. 3 < ActivePriority
    BY <1>2 DEF Preempts
  <2> QED BY <2>3, <2>4
<1> QED BY <1>1, <1>3

\* Putting the parts together after tasking has started.
LEMMA StartedInv ==
  ASSUME CInv, stage = "started",
         UNCHANGED <<nextPid, shpr2, shpr3, stage>>,
         running' \in Created, queued' \in Created, pendsv' \in BOOLEAN,
         CoreTypes', HandlerInv',
         \A p \in Created \ {running} : Same(p), running' # running => Same(running),
         \A p \in Created : p = running => Same(p) \/ Placed(p)'
  PROVE  CInv'
<1>1. Created' = Created /\ Created \subseteq Pids
  BY CreatedFacts DEF Created, CInv
<1>2. SchedulerTypes'
  <2>1. pendsv' \in BOOLEAN
    OBVIOUS
  <2>2. nextPid' \in 1 .. TASKS + 1 /\ stage' \in {"reset", "init", "started"}
    BY DEF CInv, SchedulerTypes
  <2>3. running' \in Pids /\ queued' \in Pids
    BY <1>1
  <2> QED BY <2>1, <2>2, <2>3 DEF SchedulerTypes
<1>3. PriorityInv' /\ StageInv'
  BY <1>1 DEF CInv, PriorityInv, StageInv
<1>4. ASSUME NEW p \in Created PROVE Placed(p)'
  <2>1. Placed(p)
    BY DEF CInv, AllPlaced
  <2>2. CASE Same(p)
    BY <2>1, <2>2 DEF Same, Placed, Top
  <2>3. CASE ~Same(p)
    BY <2>3
  <2> QED BY <2>2, <2>3
<1>5. AllPlaced'
  BY <1>1, <1>4 DEF AllPlaced
<1> QED BY <1>2, <1>3, <1>5 DEF CInv

\* The task's own instructions.
LEMMA ThreadInv ==
  ASSUME CInv, stage = "started", handler = <<>>, ThreadStep, Local,
         \/ regs'.pc = Code /\ psp' >= Top(running) - LOCALS[running]
         \/ /\ regs'.pc \in {AtSvc, PastSvc}
            /\ psp' < Top(running) /\ psp' >= Top(running) - LOCALS[running] - 1,
         psp' <= Top(running)
  PROVE  CInv'
<1>1. running' \in Created /\ queued' \in Created /\ pendsv' \in BOOLEAN
  <2>1. pendsv' \in BOOLEAN
    BY DEF Local, CInv, SchedulerTypes
  <2> QED BY <2>1 DEF Local, scheduler, CInv, StageInv
<1>2. CoreTypes' /\ HandlerInv'
  BY DEF Local, ThreadStep, CInv, CoreTypes, HandlerInv, OneHandler, In
<1>3. UNCHANGED <<nextPid, running, shpr2, shpr3, stage>>
  BY DEF Local, scheduler, boot
<1>4. ASSUME NEW p \in Created, p = running PROVE Placed(p)'
  <2>1. FileOf(p)' = regs' /\ SpOf(p)' = psp'
    BY <1>3, <1>4 DEF ThreadStep
  <2> QED BY <1>4, <2>1 DEF Placed, Top
<1> QED BY <1>1, <1>2, <1>3, <1>4, StartedInv DEF ThreadStep

LEMMA InstructionsInv ==
  ASSUME CInv, (\E draft \in DRAFTS : Compute(draft)) \/ Push \/ Pop
               \/ CallTrigger \/ TriggerReturns
  PROVE  CInv'
<1>1. /\ stage = "started" /\ handler = <<>> /\ Local
      /\ UNCHANGED <<stackptr, handler, nextPid, running>>
  BY DEF Compute, Push, Pop, CallTrigger, TriggerReturns, Thread, Local, scheduler
<1>2. /\ psp \in Int /\ psp <= Top(running) /\ Top(running) \in Nat
      /\ running \in Pids /\ LOCALS[running] \in Nat /\ psp \in Cells \union {Top(running)}
      /\ psp - FrameSize >= 1
  <2>1. /\ psp \in Int /\ psp <= Top(running) /\ Top(running) \in Nat
        /\ running \in Pids /\ psp - FrameSize >= Bottom(running)
        /\ Bottom(running) >= 1 /\ Bottom(running) \in Nat
        /\ Top(running) <= TASKS * DEPTH + 1 /\ TASKS * DEPTH \in Nat
    BY <1>1, RunningFacts
  <2>2. LOCALS[running] \in Nat
    BY <2>1, RegionFacts
  <2> QED BY <2>1, <2>2 DEF Cells, FrameSize
<1>3. \/ regs.pc = Code /\ psp >= Top(running) - LOCALS[running]
      \/ /\ regs.pc \in {AtSvc, PastSvc}
         /\ psp < Top(running) /\ psp >= Top(running) - LOCALS[running] - 1
  BY <1>1, RunningFacts DEF CInv, AllPlaced, Placed
<1>4. regs \in [Groups -> Values] /\ mem \in [Cells -> Values]
  BY DEF CInv, CoreTypes
<1>pcs. Code \notin {AtSvc, PastSvc}
  BY DEF Code, AtSvc, PastSvc
<1>code. regs.pc = Code => psp >= Top(running) - LOCALS[running]
  BY <1>3, <1>pcs
<1>past. regs.pc = PastSvc =>
           psp < Top(running) /\ psp >= Top(running) - LOCALS[running] - 1
  BY <1>3, <1>pcs
<1>5. ASSUME NEW draft \in DRAFTS, Compute(draft) PROVE CInv'
  <2>1. regs' \in [Groups -> Values] /\ regs'.pc = Code /\ regs.pc = Code
    BY <1>1, <1>2, <1>4, <1>5 DEF Compute, Thread, Groups, Data, Values
  <2>2. ThreadStep
    BY <1>1, <1>5, <2>1, ComputeEffect DEF Compute
  <2> QED BY <1>1, <1>2, <1>3, <1>5, <2>1, <2>2, ThreadInv DEF Compute, Code, AtSvc, PastSvc
<1>6. CASE Push
  <2>1. /\ regs' \in [Groups -> Values] /\ regs'.pc = Code /\ regs.low \in Values
        /\ psp' = psp - 1 /\ mem' = [mem EXCEPT ![psp - 1] = regs.low]
        /\ psp > Top(running) - LOCALS[running]
    BY <1>4, <1>6 DEF Push, Thread, Groups
  <2>2. ThreadStep
    BY <1>1, <2>1, PushEffect
  <2>3. psp' >= Top(running) - LOCALS[running] /\ psp' <= Top(running)
    BY <1>2, <2>1
  <2> QED BY <1>1, <2>1, <2>2, <2>3, ThreadInv
<1>7. CASE Pop
  <2>1. mem[psp] \in Values /\ regs.pc = Code /\ psp < Top(running)
    BY <1>2, <1>4, <1>7 DEF Pop, Thread
  <2>2. /\ regs' \in [Groups -> Values] /\ regs'.pc = Code
        /\ psp' = psp + 1 /\ mem' = Popped(mem, psp, 1)
    BY <1>4, <1>7, <2>1 DEF Pop, Groups
  <2>3. ThreadStep
    BY <1>1, <2>1, <2>2, PopEffect
  <2>4. psp' >= Top(running) - LOCALS[running] /\ psp' <= Top(running)
    BY <1>2, <1>3, <2>1, <2>2 DEF Code, AtSvc, PastSvc
  <2> QED BY <1>1, <2>2, <2>3, <2>4, ThreadInv
<1>8. CASE CallTrigger
  <2>1. /\ ReturnAddress(running) \in Values /\ AtSvc \in Values /\ regs.pc = Code
    BY <1>2, <1>8 DEF Values, CallTrigger, Thread
  <2>2. /\ regs' \in [Groups -> Values] /\ regs'.pc = AtSvc
        /\ psp' = psp - 1 /\ mem' = [mem EXCEPT ![psp - 1] = ReturnAddress(running)]
    BY <1>4, <1>8, <2>1 DEF CallTrigger, Groups
  <2>3. ThreadStep
    BY <1>1, <2>1, <2>2, PushEffect
  <2>4. psp' < Top(running) /\ psp' >= Top(running) - LOCALS[running] - 1
    BY <1>2, <1>code, <2>1, <2>2
  <2> QED BY <1>1, <1>2, <2>2, <2>3, <2>4, ThreadInv
<1>9. CASE TriggerReturns
  <2>1. regs.pc = PastSvc /\ psp < Top(running) /\ psp >= Top(running) - LOCALS[running] - 1
    BY <1>past, <1>9 DEF TriggerReturns, Thread
  <2>2. mem[psp] \in Values /\ Code \in Values
    BY <1>2, <1>4, <2>1 DEF Values
  <2>3. /\ regs' \in [Groups -> Values] /\ regs'.pc = Code
        /\ psp' = psp + 1 /\ mem' = Popped(mem, psp, 1)
    BY <1>4, <1>9, <2>2 DEF TriggerReturns, Groups
  <2>4. ThreadStep
    BY <1>1, <2>1, <2>3, PopEffect
  <2>5. psp' >= Top(running) - LOCALS[running] /\ psp' <= Top(running)
    BY <1>2, <2>1, <2>3
  <2> QED BY <1>1, <2>3, <2>4, <2>5, ThreadInv
<1> QED BY <1>5, <1>6, <1>7, <1>8, <1>9

\* A handler that leaves its task where it is.
LEMMA QuietInv ==
  ASSUME CInv, stage = "started",
         UNCHANGED <<nextPid, running, shpr2, shpr3, stage>>,
         queued' \in Created, pendsv' \in BOOLEAN, CoreTypes', HandlerInv',
         \A p \in Created : Same(p)
  PROVE  CInv'
<1>1. running' \in Created
  BY DEF CInv, StageInv
<1> QED BY <1>1, StartedInv

\* The exceptions are taken.
LEMMA EntriesInv == ASSUME CInv, SVCallEntry \/ PendSVEntry PROVE CInv'
<1>1. /\ stage = "started" /\ handler = <<>>
      /\ (SVCallEntry /\ regs.pc = AtSvc) \/ PendSVEntry
  BY PreemptionFacts DEF SVCallEntry, PendSVEntry, Thread
<1>2. PICK pc \in Values : /\ SaveContext(pc)
                           /\ \/ pc = regs.pc
                              \/ pc = PastSvc /\ regs.pc = AtSvc
  <2>1. PastSvc \in Values /\ regs.pc \in Values
    BY DEF Values, CInv, CoreTypes, Groups
  <2> QED BY <1>1, <2>1 DEF SVCallEntry, PendSVEntry
<1>3. \E e \in Handlers : handler' = <<[exception |-> e, progress |-> "entered"]>>
  BY <1>1 DEF SVCallEntry, PendSVEntry, Enter, Handlers
<1>4. /\ UNCHANGED <<stackptr, svcStackptr, nextPid, running, queued, shpr2, shpr3, stage>>
      /\ handler' # <<>>
  BY <1>3 DEF SVCallEntry, PendSVEntry, scheduler, boot
<1>5. /\ regs' \in [Groups -> Values] /\ mem' \in [Cells -> Values]
      /\ psp' \in 0 .. TASKS * DEPTH + 1 /\ frame' \in Cells
      /\ \A p \in Created \ {running} : Same(p)
      /\ FileOf(running)' = [regs EXCEPT !.pc = pc]
      /\ SpOf(running)' = SpOf(running) /\ StackOf(running)' = StackOf(running)
  BY <1>1, <1>2, <1>4, TrapEffect
<1>6. CoreTypes' /\ HandlerInv'
  <2>1. CoreTypes'
    BY <1>4, <1>5 DEF CInv, CoreTypes
  <2>2. ~In("svcall", "decided")'
    BY <1>3 DEF In
  <2> QED BY <1>3, <2>1, <2>2 DEF HandlerInv, OneHandler
<1>7. running' \in Created /\ queued' \in Created /\ pendsv' \in BOOLEAN
  <2>1. pendsv' \in BOOLEAN
    BY <1>1 DEF SVCallEntry, PendSVEntry, CInv, SchedulerTypes
  <2> QED BY <1>1, <1>4, <2>1 DEF CInv, StageInv
<1>8. Placed(running)'
  <2>1. Placed(running)
    BY <1>1, RunningFacts DEF CInv, AllPlaced
  <2>2. FileOf(running) = regs
    BY <1>1, RunningFacts
  <2>3. FileOf(running)'.pc = pc
    BY <1>5 DEF CInv, CoreTypes, Groups
  <2>4. pc = FileOf(running).pc \/ (pc = PastSvc /\ FileOf(running).pc = AtSvc)
    BY <1>2, <2>2
  <2>5. AtSvc # Code
    BY DEF AtSvc, Code
  <2> HIDE DEF AtSvc, PastSvc, Code
  <2> QED BY <1>4, <1>5, <2>1, <2>3, <2>4, <2>5 DEF Placed, Top
<1> QED BY <1>1, <1>4, <1>5, <1>6, <1>7, <1>8, StartedInv

\* Where an exception returns to, and with which registers.
LEMMA ReturnFacts ==
  ASSUME CInv, SVCallReturn \/ PendSVReturn
  PROVE  /\ stage = "started" /\ handler # <<>> /\ handler' = <<>>
         /\ UNCHANGED <<stackptr, svcStackptr, nextPid, running, queued, pendsv,
                        shpr2, shpr3, stage>>
         /\ regs' \in [Groups -> Values] /\ mem' \in [Cells -> Values]
         /\ psp' \in 0 .. TASKS * DEPTH + 1 /\ frame' = 0
         /\ \A p \in Created \ {running} : Same(p)
         /\ \A g \in Groups \ {"r0"} : FileOf(running)'[g] = FileOf(running)[g]
         /\ SVCallReturn => FileOf(running)'.r0 = Answer(running)
         /\ PendSVReturn => FileOf(running)'.r0 = FileOf(running).r0
         /\ FileOf(running)' \in [Groups -> Values]
         /\ SpOf(running)' = SpOf(running) /\ StackOf(running)' = StackOf(running)
<1>1. /\ handler # <<>> /\ handler' = <<>>
      /\ UNCHANGED <<stackptr, svcStackptr, nextPid, running, queued, pendsv,
                     shpr2, shpr3, stage>>
  BY DEF SVCallReturn, PendSVReturn, In, scheduler, boot
<1>2. stage = "started"
  BY <1>1 DEF CInv, StageInv, SchedulerTypes
<1>3. mem \in [Cells -> Values] /\ SVCallReturn # PendSVReturn
  BY DEF CInv, CoreTypes, SVCallReturn, PendSVReturn, In
<1>4. UNCHANGED <<stackptr, nextPid, running>>
  BY <1>1
<1>5. frame + 2 \in Cells
  <2>1. /\ running \in Created /\ frame = SpOf(running) - FrameSize /\ SpOf(running) \in Int
        /\ frame >= Bottom(running) /\ SpOf(running) <= Top(running)
        /\ Bottom(running) \in Nat /\ Bottom(running) >= 1
        /\ Top(running) \in Nat /\ Top(running) <= TASKS * DEPTH + 1
        /\ TASKS * DEPTH \in Nat
    BY <1>1, <1>2, RunningFacts
  <2> DEFINE n == TASKS * DEPTH
  <2> HIDE DEF n
  <2>2. frame + 2 \in 1 .. n
    BY <2>1 DEF FrameSize, n
  <2> QED BY <2>2 DEF Cells, n
<1>6. CASE SVCallReturn
  <2>1. Answer(running) \in Values
    BY <1>1, <1>2, RunningFacts DEF Values
  <2>2. svcStackptr = frame
    BY <1>6 DEF SVCallReturn, CInv, HandlerInv
  <2> DEFINE m == [mem EXCEPT ![frame + 2] = Answer(running)]
  <2>3. RestoreContext(m, frame)
    BY <1>6, <2>2 DEF SVCallReturn
  <2>4. /\ m \in [Cells -> Values] /\ \A c \in Cells : c # frame + 2 => m[c] = mem[c]
        /\ m[frame + 2] = Answer(running)
    BY <1>3, <1>5, <2>1
  <2> HIDE DEF m
  <2> QED BY <1>1, <1>2, <1>3, <1>4, <1>6, <2>3, <2>4, ReturnEffect
<1>7. CASE PendSVReturn
  <2>1. RestoreContext(mem, frame)
    BY <1>7 DEF PendSVReturn
  <2> QED BY <1>1, <1>2, <1>3, <1>4, <1>7, <2>1, ReturnEffect
<1> QED BY <1>6, <1>7

LEMMA ReturnsInv == ASSUME CInv, SVCallReturn \/ PendSVReturn PROVE CInv'
<1>1. CoreTypes' /\ HandlerInv'
  BY ReturnFacts DEF CInv, CoreTypes, HandlerInv, OneHandler, In
<1>2. running' \in Created /\ queued' \in Created /\ pendsv' \in BOOLEAN
  <2>1. pendsv' \in BOOLEAN
    BY ReturnFacts DEF CInv, SchedulerTypes
  <2> QED BY <2>1, ReturnFacts DEF CInv, StageInv
<1>3. Placed(running)'
  <2>1. Placed(running)
    BY ReturnFacts, RunningFacts DEF CInv, AllPlaced
  <2>2. FileOf(running)'.pc = FileOf(running).pc
    BY ReturnFacts DEF Groups
  <2> QED BY <2>1, <2>2, ReturnFacts DEF Placed, Top
<1> QED BY <1>1, <1>2, <1>3, ReturnFacts, StartedInv

\* A task is created by main or in a system call: it is where NewContext says.
LEMMA BirthInv ==
  ASSUME CInv, CreateTask, stage \in {"init", "started"},
         stage # "started" \/ handler # <<>>, handler' = <<>> <=> handler = <<>>,
         UNCHANGED <<regs, frame, running, queued, pendsv, shpr2, shpr3, stage>>,
         svcStackptr' \in Cells \union {0}, HandlerInv',
         stage # "started" => handler' = <<>>
  PROVE  CInv'
<1>1. PICK t : t = nextPid
  OBVIOUS
<1>2. /\ t \in Pids /\ t \notin Created /\ t # running
      /\ Created' = Created \union {t} /\ nextPid' \in 1 .. TASKS + 1
      /\ mem' \in [Cells -> Values] /\ psp' \in 0 .. TASKS * DEPTH + 1
      /\ stackptr' \in [Pids -> Cells \union {0}]
      /\ \A p \in Created : Same(p)
      /\ FileOf(t)' = NewContext /\ SpOf(t)' = Top(t)
  BY <1>1, CreateEffect
<1>3. CoreTypes'
  BY <1>2 DEF CInv, CoreTypes
<1>4. SchedulerTypes'
  <2>1. pendsv' \in BOOLEAN
    BY DEF CInv, SchedulerTypes
  <2>2. /\ running' \in Pids \union {BootPid} /\ queued' \in Pids \union {BootPid}
        /\ stage' \in {"reset", "init", "started"}
    BY DEF CInv, SchedulerTypes
  <2> QED BY <1>2, <2>1, <2>2 DEF SchedulerTypes
<1>5. PriorityInv'
  BY DEF CInv, PriorityInv
<1>6. StageInv'
  <2>1. CASE stage = "started"
    BY <1>2, <2>1 DEF CInv, StageInv
  <2>2. CASE stage = "init"
    <3>1. \A p \in Created' : FileOf(p)' = NewContext
      BY <1>2, <2>2 DEF CInv, StageInv, Same
    <3>2. ~pendsv'
      BY <2>2 DEF CInv, StageInv
    <3> QED BY <2>2, <3>1, <3>2 DEF CInv, StageInv
  <2> QED BY <2>1, <2>2
<1>7. AllPlaced'
  <2>1. ASSUME NEW p \in Created PROVE Placed(p)'
    BY <1>2 DEF CInv, AllPlaced, Same, Placed, Top
  <2>2. Placed(t)'
    <3>1. Top(t) \in Nat /\ LOCALS[t] \in Nat
      BY <1>2, RegionFacts
    <3>2. FileOf(t)'.pc = Code
      BY <1>2 DEF NewContext
    <3> QED BY <1>2, <3>1, <3>2 DEF Placed, Top
  <2> QED BY <1>2, <2>1, <2>2 DEF AllPlaced
<1> QED BY <1>3, <1>4, <1>5, <1>6, <1>7, HandlerInv' DEF CInv

\* The boot.
LEMMA BootInv == ASSUME CInv, InitHandlers \/ MainCreatesTask \/ Start PROVE CInv'
<1>1. CASE InitHandlers
  <2>1. /\ stage = "reset" /\ stage' = "init" /\ handler = <<>>
        /\ UNCHANGED <<regs, psp, mem, frame, stackptr, svcStackptr, handler,
                       nextPid, running, queued, pendsv>>
        /\ shpr2 = 0 /\ shpr3 = 0
    BY <1>1 DEF InitHandlers, machine, scheduler, CInv, StageInv, PriorityInv
  <2>2. shpr2' = 512 /\ shpr3' = 3
    BY <1>1, <2>1 DEF InitHandlers, InitPendSVPriority, InitSVCallPriority,
                      SetRegister, Field, PRI_14, PRI_11
  <2>3. \A p \in Pids : Same(p)
    BY <2>1, Invisible
  <2>4. Created' = Created /\ Created \subseteq Pids
    BY <2>1, CreatedFacts DEF Created, CInv
  <2>5. AllPlaced'
    BY <2>3, <2>4 DEF CInv, AllPlaced, Same, Placed, Top
  <2>6. StageInv'
    BY <2>1, <2>3, <2>4 DEF CInv, StageInv, Same
  <2>7. CoreTypes' /\ HandlerInv'
    BY <2>1 DEF CInv, CoreTypes, HandlerInv, OneHandler, In
  <2>8. SchedulerTypes'
    BY <2>1 DEF CInv, SchedulerTypes
  <2> QED BY <2>1, <2>2, <2>5, <2>6, <2>7, <2>8 DEF CInv, PriorityInv
<1>2. CASE MainCreatesTask
  <2>1. /\ CreateTask /\ stage = "init" /\ handler = <<>> /\ handler' = <<>>
        /\ UNCHANGED <<regs, frame, svcStackptr, running, queued, pendsv,
                       shpr2, shpr3, stage>>
    BY <1>2 DEF MainCreatesTask, boot, CInv, StageInv
  <2>2. HandlerInv' /\ svcStackptr' \in Cells \union {0}
    BY <2>1 DEF HandlerInv, OneHandler, In, CInv, CoreTypes
  <2> QED BY <2>1, <2>2, BirthInv
<1>3. CASE Start
  <2>1. /\ stage = "init" /\ stage' = "started" /\ handler = <<>>
        /\ UNCHANGED <<frame, stackptr, svcStackptr, handler, nextPid, pendsv, shpr2>>
        /\ running' = SpinPid /\ queued' = SpinPid /\ shpr2 = 512 /\ shpr3 = 3
    BY <1>3 DEF Start, CInv, StageInv, PriorityInv
  <2>2. shpr3' = 515
    BY <1>3, <2>1 DEF Start, InitSysTickPriority, SetRegister, Field, PRI_15
  <2>3. /\ regs' \in [Groups -> Values] /\ mem' \in [Cells -> Values]
        /\ psp' \in 0 .. TASKS * DEPTH + 1
        /\ SpinPid \in Created /\ Created' = Created
        /\ \A p \in Created : Same(p)
    BY <1>3, StartEffect
  <2>4. CoreTypes' /\ HandlerInv'
    BY <2>1, <2>3 DEF CInv, CoreTypes, HandlerInv, OneHandler, In
  <2>5. SchedulerTypes'
    <3>1. pendsv' \in BOOLEAN
      BY <2>1 DEF CInv, SchedulerTypes
    <3>2. SpinPid \in Pids /\ nextPid' \in 1 .. TASKS + 1
      BY <2>1, <2>3, CreatedFacts DEF CInv, SchedulerTypes
    <3> QED BY <2>1, <3>1, <3>2 DEF SchedulerTypes
  <2>6. PriorityInv' /\ StageInv'
    BY <2>1, <2>2, <2>3 DEF PriorityInv, StageInv
  <2>7. AllPlaced'
    BY <2>3 DEF CInv, AllPlaced, Same, Placed, Top
  <2> QED BY <2>4, <2>5, <2>6, <2>7 DEF CInv
<1> QED BY <1>1, <1>2, <1>3

\* The handlers' own work, and ticks.
LEMMA HandlersInv == ASSUME CInv, SVCallHandler \/ SysTick \/ PendSVSwitch PROVE CInv'
<1>1. stage = "started" /\ running \in Created /\ queued \in Created
  BY DEF CInv, StageInv, SVCallHandler, SysTick, PendSVSwitch, In, Preempts, SchedulerTypes
<1>2. UNCHANGED <<shpr2, shpr3, stage>>
  BY DEF SVCallHandler, SysTick, PendSVSwitch, boot
<1>3. QueueContextSwitch => queued' \in Created /\ pendsv' \in BOOLEAN
  BY DEF QueueContextSwitch
<1>4. pendsv \in BOOLEAN
  BY DEF CInv, SchedulerTypes
<1>5. CASE SVCallHandler
  <2>1. /\ UNCHANGED <<regs, frame, running, shpr2, shpr3, stage>>
        /\ handler # <<>> /\ handler' = <<[exception |-> "svcall", progress |-> "decided"]>>
        /\ svcStackptr' = frame
    BY <1>5 DEF SVCallHandler, In, Proceed, boot
  <2>2. svcStackptr' \in Cells \union {0} /\ HandlerInv'
    <3>1. frame \in Cells \union {0}
      BY DEF CInv, CoreTypes
    <3>2. OneHandler(handler')
      BY <2>1 DEF OneHandler, Handlers
    <3> QED BY <2>1, <3>1, <3>2 DEF HandlerInv
  <2>3. CASE CreateTask /\ UNCHANGED <<queued, pendsv>>
    BY <1>1, <2>1, <2>2, <2>3, BirthInv
  <2>4. CASE /\ UNCHANGED <<mem, stackptr, psp, nextPid>>
             /\ QueueContextSwitch \/ UNCHANGED <<queued, pendsv>>
    <3>1. queued' \in Created /\ pendsv' \in BOOLEAN
      <4>1. CASE QueueContextSwitch
        BY <1>3, <4>1
      <4>2. CASE UNCHANGED <<queued, pendsv>>
        BY <1>1, <1>4, <4>2
      <4> QED BY <2>4, <4>1, <4>2
    <3>2. \A p \in Created : Same(p)
      BY <2>1, <2>4, Invisible, CreatedFacts DEF CInv
    <3>3. CoreTypes'
      BY <2>1, <2>2, <2>4 DEF CInv, CoreTypes
    <3> QED BY <1>1, <2>1, <2>2, <2>4, <3>1, <3>2, <3>3, QuietInv
  <2> QED BY <1>5, <2>3, <2>4 DEF SVCallHandler
<1>6. CASE SysTick
  <2>1. /\ UNCHANGED <<regs, psp, mem, frame, stackptr, svcStackptr, handler,
                       nextPid, running>>
        /\ queued' \in Created /\ pendsv' \in BOOLEAN
    BY <1>3, <1>6 DEF SysTick, machine
  <2>2. \A p \in Created : Same(p)
    BY <2>1, Invisible, CreatedFacts DEF CInv
  <2>3. CoreTypes' /\ HandlerInv'
    BY <2>1 DEF CInv, CoreTypes, HandlerInv, OneHandler, In
  <2> QED BY <1>1, <1>2, <2>1, <2>2, <2>3, QuietInv
<1>7. CASE PendSVSwitch
  <2>1. /\ running' \in Created /\ stackptr' \in [Pids -> Cells \union {0}]
        /\ frame' \in Cells \union {0} /\ \A p \in Created : Same(p)
    BY <1>7, SwitchEffect
  <2>2. /\ UNCHANGED <<regs, psp, mem, svcStackptr, nextPid, queued, pendsv>>
        /\ handler' = <<[exception |-> "pendsv", progress |-> "decided"]>>
    BY <1>7 DEF PendSVSwitch, Proceed
  <2>3. CoreTypes'
    BY <2>1, <2>2 DEF CInv, CoreTypes
  <2>4. HandlerInv'
    BY <2>2 DEF HandlerInv, OneHandler, Handlers, In
  <2>5. pendsv' \in BOOLEAN
    BY <1>4, <2>2
  <2> QED BY <1>1, <1>2, <2>1, <2>2, <2>3, <2>4, <2>5, StartedInv
<1> QED BY <1>5, <1>6, <1>7

LEMMA StutterCInv == ASSUME CInv, UNCHANGED vars PROVE CInv'
<1>1. /\ UNCHANGED <<regs, psp, mem, frame, stackptr, svcStackptr, handler,
                     nextPid, running, queued, pendsv, shpr2, shpr3, stage>>
  BY DEF vars
<1>2. \A p \in Pids : Same(p)
  BY <1>1, Invisible
<1>3. Created' = Created /\ Created \subseteq Pids
  BY <1>1, CreatedFacts DEF Created, CInv
<1>4. AllPlaced' /\ StageInv'
  BY <1>1, <1>2, <1>3 DEF CInv, AllPlaced, StageInv, Same, Placed, Top
<1>5. CoreTypes' /\ HandlerInv'
  BY <1>1 DEF CInv, CoreTypes, HandlerInv, OneHandler, In
<1>6. SchedulerTypes'
  BY <1>1 DEF CInv, SchedulerTypes
<1>7. PriorityInv'
  BY <1>1 DEF CInv, PriorityInv
<1> QED BY <1>4, <1>5, <1>6, <1>7 DEF CInv

LEMMA NextCInv == CInv /\ [Next]_vars => CInv'
BY BootInv, InstructionsInv, EntriesInv, HandlersInv, ReturnsInv, StutterCInv DEF Next

LEMMA CInvHolds == Spec => []CInv
BY InitCInv, NextCInv, PTL DEF Spec

-----------------------------------------------------------------------------
(* The theorems                                                            *)

\* Types: registers, stacks and stack pointers hold what they should, whatever
\* tasks, calls, ticks and switches do.
THEOREM TypesHold == Spec => []TypeOK
<1>1. CInv => TypeOK
  <2> SUFFICES ASSUME CInv PROVE TypeOK
    OBVIOUS
  <2>1. handler \in Seq([exception : Handlers, progress : {"entered", "decided"}])
    <3> DEFINE S == [exception : Handlers, progress : {"entered", "decided"}]
    <3>1. handler = <<>> \/ \E h \in S : handler = <<h>>
      BY DEF CInv, HandlerInv, OneHandler
    <3> HIDE DEF S
    <3>2. handler \in Seq(S)
      <4>1. CASE handler = <<>>
        BY <4>1
      <4>2. ASSUME NEW h \in S, handler = <<h>> PROVE handler \in Seq(S)
        BY <4>2
      <4> QED BY <3>1, <4>1, <4>2
    <3> QED BY <3>2 DEF S
  <2>2. shpr2 \in Nat /\ shpr3 \in Nat
    BY DEF CInv, PriorityInv, SchedulerTypes
  <2>3. pendsv \in BOOLEAN
    BY DEF CInv, SchedulerTypes
  <2> QED BY <2>1, <2>2, <2>3 DEF CInv, CoreTypes, SchedulerTypes, TypeOK
<1> QED BY <1>1, CInvHolds, PTL

\* isr_svcall and isr_pendsv never interrupt each other: the priorities that the
\* boot writes into SHPR2 and SHPR3 exclude it.
THEOREM OneHandlerAtATime == Spec => []HandlersDoNotNest
<1>1. CInv => HandlersDoNotNest
  <2> SUFFICES ASSUME CInv PROVE HandlersDoNotNest
    OBVIOUS
  <2>1. handler = <<>> \/ \E h : handler = <<h>>
    BY DEF CInv, HandlerInv, OneHandler
  <2>2. Len(handler) \in {0, 1}
    <3>1. CASE handler = <<>>
      BY <3>1
    <3>2. ASSUME NEW h, handler = <<h>> PROVE Len(handler) = 1
      BY <3>2
    <3> QED BY <2>1, <3>1, <3>2
  <2> DEFINE n == Len(handler)
  <2>3. n \in {0, 1}
    BY <2>2
  <2> HIDE DEF n
  <2>4. n <= 1
    BY <2>3
  <2> QED BY <2>4 DEF n, HandlersDoNotNest
<1> QED BY <1>1, CInvHolds, PTL

\* No task's frame or stack pointer leaves its own stack, for any depth of stack
\* that holds a task's own cells, one return address and a frame.
THEOREM StacksStayApart == Spec => []OnOwnStack
<1>1. CInv => OnOwnStack
  <2> SUFFICES ASSUME CInv PROVE OnOwnStack
    OBVIOUS
  <2>1. ASSUME NEW p \in Created, p # running \/ handler # <<>>
        PROVE  FrameOf(p) >= Bottom(p) /\ FrameOf(p) + FrameSize <= Top(p)
    <3>1. ~InThread(p)
      BY <2>1 DEF InThread
    <3>2. /\ SpOf(p) \in Int /\ SpOf(p) <= Top(p) /\ SpOf(p) - FrameSize >= Bottom(p)
          /\ FrameOf(p) = SpOf(p) - FrameSize
      BY <3>1, TaskFacts DEF CInv
    <3> QED BY <3>2 DEF FrameSize
  <2>2. ASSUME stage = "started", handler = <<>>
        PROVE  psp >= Bottom(running) + FrameSize /\ psp <= Top(running)
    <3>1. /\ psp \in Int /\ psp <= Top(running) /\ psp - FrameSize >= Bottom(running)
          /\ Bottom(running) \in Nat
      BY <2>2, RunningFacts
    <3> QED BY <3>1 DEF FrameSize
  <2> QED BY <2>1, <2>2 DEF OnOwnStack
<1> QED BY <1>1, CInvHolds, PTL

-----------------------------------------------------------------------------
(* The refinement                                                          *)

File == [p \in Pids |-> FileOf(p)]
Stack == [p \in Pids |-> StackOf(p)]

\* A task that is there has registers, since no place in its code is zero.
LEMMA Born == ASSUME CInv, NEW p \in Created PROVE FileOf(p) # Unborn
<1>1. FileOf(p).pc \in {Code, AtSvc, PastSvc}
  BY DEF CInv, AllPlaced, Placed
<1>2. Zero \notin {Code, AtSvc, PastSvc}
  BY DEF Zero, Code, AtSvc, PastSvc
<1>3. Unborn.pc = Zero
  BY DEF Unborn, Groups
<1> QED BY <1>1, <1>2, <1>3

\* All tasks but t, created or not, keep what they have.
LEMMA OnlyMineFacts ==
  ASSUME CInv, NEW t, \A p \in Created \ {t} : Same(p),
         Created \subseteq Created', Created' \subseteq Created \union {t}
  PROVE  Promise!OnlyMine(t)
<1>1. ASSUME NEW u \in Pids \ {t}
      PROVE  FileOf(u)' = FileOf(u) /\ StackOf(u)' = StackOf(u)
  <2>1. CASE u \in Created
    BY <2>1 DEF Same
  <2>2. CASE u \notin Created
    <3>1. u \notin Created'
      BY <2>2
    <3>2. FileOf(u) = Unborn /\ StackOf(u) = <<>>
      BY <2>2 DEF FileOf, StackOf
    <3>3. FileOf(u)' = Unborn /\ StackOf(u)' = <<>>
      BY <3>1 DEF FileOf, StackOf, Unborn
    <3> QED BY <3>2, <3>3
  <2> QED BY <2>1, <2>2
<1> QED BY <1>1 DEF Promise!OnlyMine

\* No task changes at all.
LEMMA NoneMoves ==
  ASSUME CInv, \A p \in Created : Same(p), Created' = Created
  PROVE  File' = File /\ Stack' = Stack
<1>1. \A u \in Pids : FileOf(u)' = FileOf(u) /\ StackOf(u)' = StackOf(u)
  <2>1. ASSUME NEW u \in Pids, u \notin Created
        PROVE  FileOf(u)' = FileOf(u) /\ StackOf(u)' = StackOf(u)
    <3>1. FileOf(u) = Unborn /\ StackOf(u) = <<>>
      BY <2>1 DEF FileOf, StackOf
    <3>2. FileOf(u)' = Unborn /\ StackOf(u)' = <<>>
      BY <2>1 DEF FileOf, StackOf, Unborn
    <3> QED BY <3>1, <3>2
  <2> QED BY <2>1 DEF Same
<1>2. Pids' = Pids
  BY DEF Pids
<1> QED BY <1>1, <1>2 DEF File, Stack

\* Only the registers of one task change.
LEMMA OneMoves ==
  ASSUME NEW t \in Pids, Promise!OnlyMine(t), Stack'[t] = Stack[t]
  PROVE  File' = [File EXCEPT ![t] = File'[t]] /\ Stack' = Stack
<1>1. \A u \in Pids \ {t} : File'[u] = File[u] /\ Stack'[u] = Stack[u]
  BY DEF Promise!OnlyMine, File, Stack
<1>2. /\ File = [u \in Pids |-> File[u]] /\ File' = [u \in Pids |-> File'[u]]
      /\ Stack = [u \in Pids |-> Stack[u]] /\ Stack' = [u \in Pids |-> Stack'[u]]
  BY DEF File, Stack
<1> HIDE DEF File, Stack
<1> QED BY <1>1, <1>2

\* What a task's own instruction does to its stack.
LEMMA InstructionEffect ==
  ASSUME CInv, (\E draft \in DRAFTS : Compute(draft)) \/ Push \/ Pop
               \/ CallTrigger \/ TriggerReturns
  PROVE  /\ stage = "started" /\ handler = <<>> /\ handler' = handler
         /\ UNCHANGED <<nextPid, running>> /\ ThreadStep
         /\ \/ StackOf(running)' = StackOf(running)
            \/ \E g \in Groups : StackOf(running)' = <<regs'[g]>> \o StackOf(running)
            \/ StackOf(running) # <<>> /\ StackOf(running)' = Tail(StackOf(running))
<1>1. /\ stage = "started" /\ handler = <<>> /\ Local
      /\ UNCHANGED <<stackptr, handler, nextPid, running>>
  BY DEF Compute, Push, Pop, CallTrigger, TriggerReturns, Thread, Local, scheduler
<1>2. CInv'
  BY InstructionsInv
<1>3. regs' \in [Groups -> Values] /\ regs \in [Groups -> Values] /\ running \in Pids
  BY <1>1, <1>2, RunningFacts DEF CInv, CoreTypes
<1>4. CASE \E draft \in DRAFTS : Compute(draft)
  <2>1. UNCHANGED <<psp, mem>>
    BY <1>4 DEF Compute
  <2> QED BY <1>1, <1>3, <2>1, ComputeEffect
<1>5. ASSUME NEW x \in Values, psp' = psp - 1, mem' = [mem EXCEPT ![psp - 1] = x],
             \E g \in Groups : x = regs'[g]
      PROVE  ThreadStep /\ \E g \in Groups : StackOf(running)' = <<regs'[g]>> \o StackOf(running)
  <2>1. ThreadStep /\ StackOf(running)' = <<x>> \o StackOf(running)
    BY <1>1, <1>3, <1>5, PushEffect
  <2> QED BY <1>5, <2>1
<1>6. CASE Push
  <2>1. regs.low \in Values /\ regs.low = regs'["low"] /\ "low" \in Groups
    BY <1>3, <1>6 DEF Push, Groups
  <2> QED BY <1>1, <1>5, <1>6, <2>1 DEF Push
<1>7. CASE CallTrigger
  <2>1. /\ ReturnAddress(running) \in Values /\ "lr" \in Groups
        /\ ReturnAddress(running) = regs'["lr"]
    BY <1>3, <1>7 DEF CallTrigger, Groups, Values
  <2> QED BY <1>1, <1>5, <1>7, <2>1 DEF CallTrigger
<1>8. CASE Pop \/ TriggerReturns
  <2>1. psp' = psp + 1 /\ mem' = Popped(mem, psp, 1)
    BY <1>8 DEF Pop, TriggerReturns
  <2>2. psp < Top(running)
    <3>1. CASE Pop
      BY <3>1 DEF Pop
    <3>2. CASE TriggerReturns
      <4>1. regs.pc = PastSvc
        BY <3>2 DEF TriggerReturns, Thread
      <4>2. PastSvc # Code
        BY DEF PastSvc, Code
      <4> QED BY <1>1, <4>1, <4>2, RunningFacts DEF CInv, AllPlaced, Placed
    <3> QED BY <1>8, <3>1, <3>2
  <2> QED BY <1>1, <1>3, <2>1, <2>2, PopEffect
<1> QED BY <1>1, <1>4, <1>6, <1>7, <1>8

\* A task's own instruction.
LEMMA InstructionStep ==
  ASSUME CInv, (\E draft \in DRAFTS : Compute(draft)) \/ Push \/ Pop
               \/ CallTrigger \/ TriggerReturns
  PROVE  Promise!Instruction
<1>1. /\ stage = "started" /\ handler = <<>> /\ handler' = handler
      /\ UNCHANGED <<nextPid, running>> /\ ThreadStep
      /\ \/ StackOf(running)' = StackOf(running)
         \/ \E g \in Groups : StackOf(running)' = <<regs'[g]>> \o StackOf(running)
         \/ StackOf(running) # <<>> /\ StackOf(running)' = Tail(StackOf(running))
  BY InstructionEffect
<1>2. /\ running \in Pids /\ running \in Created /\ FileOf(running) = regs
      /\ regs \in [Groups -> Values]
  BY <1>1, RunningFacts DEF CInv, CoreTypes
<1>3. Promise!OnlyMine(running)
  <2>1. Created' = Created
    BY <1>1 DEF Created
  <2> QED BY <1>1, <2>1, OnlyMineFacts DEF ThreadStep
<1>4. /\ File[running] = regs /\ File'[running] = regs'
      /\ Stack[running] = StackOf(running) /\ Stack'[running] = StackOf(running)'
  BY <1>1, <1>2 DEF File, Stack, ThreadStep, Pids
<1>5. DOMAIN File[running] = Groups
  BY <1>2, <1>4
<1>6. File[running].pc # AtSvc
  <2>1. regs.pc \in {Code, PastSvc} /\ AtSvc \notin {Code, PastSvc}
    BY DEF Compute, Push, Pop, CallTrigger, TriggerReturns, Thread, Code, AtSvc, PastSvc
  <2> QED BY <1>4, <2>1
<1>7. TrapOf = "none" /\ TrapOf' = TrapOf
  BY <1>1 DEF TrapOf
<1> QED BY <1>1, <1>2, <1>3, <1>4, <1>5, <1>6, <1>7 DEF Promise!Instruction, File, Stack

\* An exception is taken: nothing changes, but that pc moves past the svc.
LEMMA TrapStep ==
  ASSUME CInv, SVCallEntry \/ PendSVEntry
  PROVE  Promise!Call \/ Promise!Preempt
<1>1. /\ stage = "started" /\ handler = <<>>
      /\ UNCHANGED <<stackptr, nextPid, running>> /\ handler' # <<>>
      /\ SVCallEntry => regs.pc = AtSvc /\ TrapOf' = "call"
      /\ PendSVEntry => TrapOf' = "preemption"
  BY PreemptionFacts DEF SVCallEntry, PendSVEntry, Thread, Enter, scheduler, TrapOf
<1>2. PICK pc \in Values : /\ SaveContext(pc)
                           /\ \/ SVCallEntry /\ pc = PastSvc
                              \/ PendSVEntry /\ pc = regs.pc
  <2>1. PastSvc \in Values /\ regs.pc \in Values
    BY DEF Values, CInv, CoreTypes, Groups
  <2> QED BY <2>1 DEF SVCallEntry, PendSVEntry
<1>3. /\ \A p \in Created \ {running} : Same(p)
      /\ FileOf(running)' = [regs EXCEPT !.pc = pc]
      /\ StackOf(running)' = StackOf(running)
  BY <1>1, <1>2, TrapEffect
<1>4. /\ running \in Pids /\ running \in Created /\ FileOf(running) = regs
      /\ regs \in [Groups -> Values]
  BY <1>1, RunningFacts DEF CInv, CoreTypes
<1>5. Promise!OnlyMine(running)
  <2>1. Created' = Created
    BY <1>1 DEF Created
  <2> QED BY <1>3, <1>4, <2>1, OnlyMineFacts
<1>6. File' = [File EXCEPT ![running] = [regs EXCEPT !.pc = pc]] /\ Stack' = Stack
  <2>1. /\ File'[running] = [regs EXCEPT !.pc = pc]
        /\ Stack'[running] = Stack[running]
    BY <1>1, <1>3, <1>4 DEF File, Stack
  <2> QED BY <1>4, <1>5, <2>1, OneMoves
<1>7. File[running] = regs /\ TrapOf = "none"
  BY <1>1, <1>4 DEF File, TrapOf
<1>8. CASE SVCallEntry /\ pc = PastSvc
  <2>1. File' = [File EXCEPT ![running].pc = PastSvc]
    BY <1>6, <1>7, <1>8
  <2> QED BY <1>1, <1>4, <1>6, <1>7, <1>8, <2>1 DEF Promise!Call, File, Stack
<1>9. CASE PendSVEntry /\ pc = regs.pc
  <2>1. [regs EXCEPT !.pc = pc] = regs
    BY <1>4, <1>9
  <2>2. File' = File
    BY <1>6, <1>7, <2>1 DEF File
  <2> QED BY <1>1, <1>4, <1>6, <1>7, <1>9, <2>2 DEF Promise!Preempt, File, Stack
<1> QED BY <1>2, <1>8, <1>9

\* The exception returns: a call with its answer in r0, PendSV with nothing
\* changed.
LEMMA ReturnStep ==
  ASSUME CInv, SVCallReturn \/ PendSVReturn
  PROVE  Promise!Return \/ Promise!Resume
<1>1. /\ stage = "started" /\ handler # <<>> /\ handler' = <<>>
      /\ UNCHANGED <<nextPid, running>>
      /\ \A p \in Created \ {running} : Same(p)
      /\ \A g \in Groups \ {"r0"} : FileOf(running)'[g] = FileOf(running)[g]
      /\ SVCallReturn => FileOf(running)'.r0 = Answer(running)
      /\ PendSVReturn => FileOf(running)'.r0 = FileOf(running).r0
      /\ FileOf(running)' \in [Groups -> Values]
      /\ StackOf(running)' = StackOf(running)
  BY ReturnFacts
<1>2. running \in Pids /\ running \in Created
  BY <1>1, RunningFacts
<1>3. FileOf(running) \in [Groups -> Values]
  BY <1>2, TaskFacts DEF CInv
<1>4. Promise!OnlyMine(running)
  <2>1. Created' = Created
    BY <1>1 DEF Created
  <2> QED BY <1>1, <1>2, <2>1, OnlyMineFacts
<1>5. File' = [File EXCEPT ![running] = FileOf(running)'] /\ Stack' = Stack
  <2>1. File'[running] = FileOf(running)' /\ Stack'[running] = Stack[running]
    BY <1>1, <1>2 DEF File, Stack
  <2> QED BY <1>2, <1>4, <2>1, OneMoves
<1>6. File[running] = FileOf(running) /\ TrapOf' = "none"
  BY <1>1, <1>2 DEF File, TrapOf
<1>7. CASE SVCallReturn
  <2>1. FileOf(running)' = [FileOf(running) EXCEPT !.r0 = Answer(running)]
    BY <1>1, <1>3, <1>7 DEF Groups
  <2>2. TrapOf = "call"
    BY <1>7 DEF SVCallReturn, In, TrapOf
  <2>3. File' = [File EXCEPT ![running].r0 = Answer(running)]
    BY <1>5, <1>6, <2>1
  <2> QED BY <1>1, <1>2, <1>5, <1>6, <2>2, <2>3 DEF Promise!Return, File, Stack
<1>8. CASE PendSVReturn
  <2>1. FileOf(running)' = FileOf(running)
    BY <1>1, <1>3, <1>8 DEF Groups
  <2>2. TrapOf = "preemption"
    BY <1>8 DEF PendSVReturn, In, TrapOf
  <2>3. File' = File
    BY <1>5, <1>6, <2>1 DEF File
  <2> QED BY <1>1, <1>5, <1>6, <2>2, <2>3 DEF Promise!Resume, File, Stack
<1> QED BY <1>7, <1>8 DEF SVCallReturn, PendSVReturn

\* gkrtos_pendsv_handler_c, and the start, give the core to a task that is there.
LEMMA DispatchStep ==
  ASSUME CInv, PendSVSwitch \/ Start
  PROVE  Promise!Dispatch \/ Promise!Begin
<1>1. CASE PendSVSwitch
  <2>1. /\ handler # <<>> /\ handler' # <<>> /\ running' \in Created
        /\ Created' = Created /\ \A p \in Created : Same(p)
    BY <1>1, SwitchEffect
  <2>2. File' = File /\ Stack' = Stack
    BY <2>1, NoneMoves
  <2>3. running' \in Pids /\ File[running'] # Unborn
    <3>1. running' \in Pids
      BY <2>1, CreatedFacts DEF CInv
    <3>2. FileOf(running') # Unborn
      BY <2>1, Born
    <3> QED BY <3>1, <3>2 DEF File
  <2>4. TrapOf = "preemption" /\ TrapOf' = TrapOf
    BY <1>1 DEF PendSVSwitch, In, Proceed, TrapOf
  <2> QED BY <2>1, <2>2, <2>3, <2>4 DEF Promise!Dispatch, File, Stack
<1>2. CASE Start
  <2>1. /\ SpinPid \in Created /\ Created' = Created /\ \A p \in Created : Same(p)
    BY <1>2, StartEffect
  <2>2. File' = File /\ Stack' = Stack
    BY <2>1, NoneMoves
  <2>3. SpinPid \in Pids /\ File[SpinPid] # Unborn
    <3>1. SpinPid \in Pids
      BY <2>1, CreatedFacts DEF CInv
    <3>2. FileOf(SpinPid) # Unborn
      BY <2>1, Born
    <3> QED BY <3>1, <3>2 DEF File
  <2>4. running = BootPid /\ running' = SpinPid /\ handler' = handler
    BY <1>2 DEF Start, CInv, StageInv
  <2> QED BY <2>2, <2>3, <2>4 DEF Promise!Begin, File, Stack, TrapOf
<1> QED BY <1>1, <1>2

\* A task is created.
LEMMA BirthStep ==
  ASSUME CInv, CreateTask, stage = "init" \/ TrapOf = "call",
         handler' = <<>> <=> handler = <<>>, TrapOf' = TrapOf,
         UNCHANGED <<running, frame>>
  PROVE  \E t \in Pids : Promise!Birth(t)
<1>1. PICK t : t = nextPid
  OBVIOUS
<1>2. /\ t \in Pids /\ t \notin Created /\ Created' = Created \union {t}
      /\ \A p \in Created : Same(p)
      /\ FileOf(t)' = NewContext /\ StackOf(t)' = <<>>
  <2>1. stage = "init" \/ handler # <<>>
    BY DEF TrapOf
  <2> QED BY <1>1, <2>1, CreateEffect
<1>3. running = BootPid \/ TrapOf = "call"
  BY DEF CInv, StageInv
<1>4. Promise!OnlyMine(t)
  BY <1>2, OnlyMineFacts
<1>5. /\ File[t] = Unborn /\ File'[t] = NewContext /\ Stack'[t] = <<>>
  BY <1>2 DEF File, Stack, FileOf, Pids
<1>6. NewContext # Unborn /\ NewContext.pc = Code
  <2>1. NewContext.pc = Code /\ Unborn.pc = Zero
    BY DEF NewContext, Unborn, Groups
  <2>2. Code # Zero
    BY DEF Code, Zero
  <2> QED BY <2>1, <2>2
<1>7. Promise!Birth(t)
  BY <1>3, <1>4, <1>5, <1>6 DEF Promise!Birth, File, Stack
<1> QED BY <1>2, <1>7

\* Neither ticks nor what a handler decides move a task.
LEMMA QuietStep ==
  ASSUME CInv, UNCHANGED <<regs, psp, mem, frame, stackptr, nextPid, running>>,
         handler' = <<>> <=> handler = <<>>, TrapOf' = TrapOf
  PROVE  UNCHANGED Promise!vars
<1>1. \A p \in Created : Same(p)
  BY Invisible, CreatedFacts DEF CInv
<1>2. Created' = Created
  BY DEF Created
<1>3. File' = File /\ Stack' = Stack
  BY <1>1, <1>2, NoneMoves
<1> QED BY <1>3 DEF Promise!vars, File, Stack

\* Every task has registers and a stack of its own: no creation, tick or switch
\* changes anything of a task, which resumes from PendSV as it was preempted, and
\* its own call changes only r0, to the handler's answer, and moves pc past the
\* svc, for
\* any number of tasks, any depth of stack that holds them, and any decisions of
\* the scheduler.
THEOREM ContextImplementsTaskRegisters == Spec => ImplementsTaskRegisters
<1>1. Init => Promise!Init
  <2> SUFFICES ASSUME Init PROVE Promise!Init
    OBVIOUS
  <2>1. Created = {} /\ handler = <<>> /\ running = BootPid
    BY DEF Init, Created
  <2>2. \A p \in Pids : FileOf(p) = Unborn /\ StackOf(p) = <<>>
    BY <2>1 DEF FileOf, StackOf
  <2>3. TrapOf = "none"
    BY <2>1 DEF TrapOf
  <2> QED BY <2>1, <2>2, <2>3 DEF Promise!Init
<1>2. CInv /\ [Next]_vars => [Promise!Next]_(Promise!vars)
  <2> SUFFICES ASSUME CInv, [Next]_vars PROVE [Promise!Next]_(Promise!vars)
    OBVIOUS
  <2>1. CASE (\E draft \in DRAFTS : Compute(draft)) \/ Push \/ Pop
             \/ CallTrigger \/ TriggerReturns
    BY <2>1, InstructionStep DEF Promise!Next
  <2>2. CASE SVCallEntry \/ PendSVEntry
    BY <2>2, TrapStep DEF Promise!Next
  <2>3. CASE SVCallReturn \/ PendSVReturn
    BY <2>3, ReturnStep DEF Promise!Next
  <2>4. CASE PendSVSwitch \/ Start
    BY <2>4, DispatchStep DEF Promise!Next
  <2>5. CASE MainCreatesTask
    <3>1. handler' = handler /\ UNCHANGED <<running, frame>> /\ stage = "init" /\ CreateTask
      BY <2>5 DEF MainCreatesTask
    <3>2. TrapOf' = TrapOf
      BY <3>1 DEF TrapOf
    <3> QED BY <3>1, <3>2, BirthStep DEF Promise!Next
  <2>6. CASE SVCallHandler
    <3>1. /\ handler # <<>> /\ handler' # <<>> /\ UNCHANGED <<regs, running, frame>>
          /\ TrapOf = "call" /\ TrapOf' = "call"
      BY <2>6 DEF SVCallHandler, In, Proceed, TrapOf
    <3>2. CASE CreateTask
      BY <3>1, <3>2, BirthStep DEF Promise!Next
    <3>3. CASE UNCHANGED <<mem, stackptr, psp, nextPid>>
      BY <3>1, <3>3, QuietStep
    <3> QED BY <2>6, <3>2, <3>3 DEF SVCallHandler
  <2>7. CASE InitHandlers \/ SysTick \/ UNCHANGED vars
    <3>1. /\ UNCHANGED <<regs, psp, mem, frame, stackptr, nextPid, running>>
          /\ handler' = handler /\ TrapOf' = TrapOf
      BY <2>7 DEF TrapOf, InitHandlers, SysTick, vars, machine, scheduler
    <3> QED BY <3>1, QuietStep
  <2> QED BY <2>1, <2>2, <2>3, <2>4, <2>5, <2>6, <2>7 DEF Next
<1> QED BY <1>1, <1>2, CInvHolds, PTL DEF Spec, ImplementsTaskRegisters, Promise!Spec
=============================================================================
