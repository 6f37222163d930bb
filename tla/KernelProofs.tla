---------------------------- MODULE KernelProofs ----------------------------
(***************************************************************************)
(* Invariants of the parts of MCKernel, for any threads, timers, time      *)
(* slices and places of queues: registers and stacks under the exceptions, *)
(* the list of queues, the ring of threads, how long a thread waits, and   *)
(* the types.  A step of the composition is a step of one part or leaves   *)
(* its variables alone.                                                    *)
(***************************************************************************)
EXTENDS MCKernel, ListLemmas

-----------------------------------------------------------------------------
\* Exceptions.  No more than five stacks of handlers are possible: SysTick
\* preempts threads only, and PendSV also SysTick.

Stacks == {<<>>, <<"SVC">>, <<"PendSV">>, <<"SysTick">>,
           <<"SysTick", "PendSV">>}

LEMMA StackDiffer ==
  /\ <<>> # <<"SVC">> /\ <<>> # <<"PendSV">> /\ <<>> # <<"SysTick">>
  /\ <<>> # <<"SysTick", "PendSV">>
  /\ <<"SVC">> # <<"PendSV">> /\ <<"SVC">> # <<"SysTick">>
  /\ <<"PendSV">> # <<"SysTick">>
  /\ <<"SVC">> # <<"SysTick", "PendSV">>
  /\ <<"PendSV">> # <<"SysTick", "PendSV">>
  /\ <<"SysTick">> # <<"SysTick", "PendSV">>
<1>1. /\ Len(<<"SVC">>) = 1 /\ Len(<<"PendSV">>) = 1
      /\ Len(<<"SysTick">>) = 1 /\ Len(<<"SysTick", "PendSV">>) = 2
  OBVIOUS
<1> QED
  BY <1>1

\* What is running on each stack, and at which priority.
LEMMA StackRunning ==
  ASSUME active \in Stacks
  PROVE  /\ X!Running = "thread" <=> active = <<>>
         /\ X!Running = "SVC" <=> active = <<"SVC">>
         /\ X!Running = "SysTick" <=> active = <<"SysTick">>
         /\ X!Running = "PendSV" <=>
              active \in {<<"PendSV">>, <<"SysTick", "PendSV">>}
<1>1. Len(<<"SysTick", "PendSV">>) = 2
  OBVIOUS
<1>5. CASE active = <<>>
  BY StackDiffer, <1>5 DEF X!Running
<1>6. CASE active = <<"SVC">>
  BY StackDiffer, <1>6 DEF X!Running
<1>7. CASE active = <<"PendSV">>
  BY StackDiffer, <1>7 DEF X!Running
<1>8. CASE active = <<"SysTick">>
  BY StackDiffer, <1>8 DEF X!Running
<1>9. CASE active = <<"SysTick", "PendSV">>
  <2>1. X!Running = "PendSV"
    BY StackDiffer, <1>1, <1>9 DEF X!Running
  <2> QED
    BY <2>1, StackDiffer, <1>9
<1> QED
  BY <1>5, <1>6, <1>7, <1>8, <1>9 DEF Stacks

\* SysTick preempts threads only, and PendSV also SysTick; neither comes
\* while BASEPRI is raised.
LEMMA Preempts ==
  ASSUME active \in Stacks, basepri \in {0, X!Masked}
  PROVE  /\ X!Taken("SysTick") => active = <<>> /\ basepri = 0 /\ ~halted
         /\ X!Taken("PendSV") =>
              /\ active \in {<<>>, <<"SVC">>, <<"SysTick">>}
              /\ basepri = 0 /\ ~halted
<1>1. X!Running \in {"thread", "SVC", "PendSV", "SysTick"}
  BY StackRunning DEF Stacks
<1>2. X!Running = "thread" <=> active = <<>>
  BY StackRunning
<1>3. X!Execution = IF active = <<>> THEN 16
                    ELSE IF X!Running = "PendSV" THEN 14 ELSE 15
  BY DEF X!Execution, X!Priority, X!Lowest
<1>4. X!Priority("SysTick") = 15 /\ X!Priority("PendSV") = 14
  BY DEF X!Priority
<1> QED
  BY <1>1, <1>2, <1>3, <1>4, StackRunning DEF X!Taken, X!Masked, Stacks

\* What entering and leaving a handler does to the stack.
LEMMA StackSteps ==
  /\ \A e \in {"SVC", "PendSV", "SysTick"} : Append(<<>>, e) = <<e>>
  /\ Append(<<"SysTick">>, "PendSV") = <<"SysTick", "PendSV">>
  /\ SubSeq(<<"PendSV">>, 1, Len(<<"PendSV">>) - 1) = <<>>
  /\ SubSeq(<<"SysTick", "PendSV">>, 1, Len(<<"SysTick", "PendSV">>) - 1)
       = <<"SysTick">>
<1>1. \A e \in {"SVC", "PendSV", "SysTick"} : Append(<<>>, e) = <<e>>
  OBVIOUS
<1> DEFINE names == {"SysTick", "PendSV"}
<1>2. Append(<<"SysTick">>, "PendSV") = <<"SysTick", "PendSV">>
  <2> DEFINE one == <<"SysTick">>
             two == <<"SysTick", "PendSV">>
  <2>1. one \in Seq(names) /\ two \in Seq(names) /\ "PendSV" \in names
    OBVIOUS
  <2> HIDE DEF names
  <2>2. /\ Len(one) = 1 /\ one[1] = "SysTick"
        /\ Len(two) = 2 /\ two[1] = "SysTick" /\ two[2] = "PendSV"
    OBVIOUS
  <2> HIDE DEF one, two
  <2>3. /\ Append(one, "PendSV") \in Seq(names)
        /\ Len(Append(one, "PendSV")) = 2
        /\ Append(one, "PendSV")[1] = "SysTick"
        /\ Append(one, "PendSV")[2] = "PendSV"
    <3>1. /\ Append(one, "PendSV") \in Seq(names)
          /\ Len(Append(one, "PendSV")) = 1 + 1
          /\ \A j \in 1 .. 1 + 1 : Append(one, "PendSV")[j]
                                  = IF j = 1 + 1 THEN "PendSV" ELSE one[j]
      BY <2>1, <2>2, AppendView
    <3>2. 1 \in 1 .. 1 + 1 /\ 2 \in 1 .. 1 + 1 /\ 1 + 1 = 2 /\ 1 # 2
      OBVIOUS
    <3> QED
      BY <2>2, <3>1, <3>2
  <2>4. Append(one, "PendSV") = two
    BY <2>1, <2>2, <2>3, SeqEqual
  <2> QED
    BY <2>4 DEF one, two
<1>3. /\ Len(<<"PendSV">>) = 1 /\ Len(<<"SysTick", "PendSV">>) = 2
      /\ <<"SysTick", "PendSV">>[1] = "SysTick"
  OBVIOUS
<1>4. SubSeq(<<"PendSV">>, 1, 0) = <<>>
  OBVIOUS
<1>5. SubSeq(<<"SysTick", "PendSV">>, 1, 1) = <<"SysTick">>
  <2> DEFINE one == <<"SysTick">>
             two == <<"SysTick", "PendSV">>
  <2>1. one \in Seq(names) /\ two \in Seq(names)
    OBVIOUS
  <2>2. Len(one) = 1 /\ one[1] = "SysTick" /\ two[1] = "SysTick"
    OBVIOUS
  <2> HIDE DEF one, two
  <2>3. /\ SubSeq(two, 1, 1) \in Seq(names)
        /\ Len(SubSeq(two, 1, 1)) = 1 /\ SubSeq(two, 1, 1)[1] = "SysTick"
    <3>1. \A i \in 1 .. 1 : two[i] \in names
      <4>1. \A i \in 1 .. 1 : i = 1
        OBVIOUS
      <4> QED
        BY <2>2, <4>1
    <3> QED
      BY <2>1, <2>2, <3>1, SubSeqProperties
  <2>4. SubSeq(two, 1, 1) = one
    BY <2>1, <2>2, <2>3, SeqEqual
  <2> QED
    BY <2>4 DEF one, two
<1> QED
  BY <1>1, <1>2, <1>3, <1>4, <1>5

\* Whose registers there may be.
Owner == X!Threads \cup {"main", "SysTick"}

ExceptionType ==
  /\ active \in Stacks /\ pending \subseteq X!Exception
  /\ basepri \in {0, X!Masked} /\ running \in X!Threads
  /\ regs \in Owner /\ psp \in Owner /\ pushed \in Owner
  /\ top \in [X!Threads -> Owner]
  /\ {pushes, calling, started, halted, nested} \subseteq BOOLEAN

\* BASEPRI is raised exactly while the kernel thread executes a call, and then
\* nothing runs but that thread.
Masking ==
  /\ calling => active = <<>> /\ running = Kernel /\ basepri = X!Masked
  /\ ~calling => basepri = 0

\* Each place knows whose registers it holds: PSP and r4-r11 are those of the
\* current thread, in SysTick_Handler what it has pushed is, and what is saved
\* of the others is theirs.  It is lost when PendSV runs within a SysTick_
\* Handler that has pushed.
Registers ==
  /\ active = <<"SVC">> => halted
  /\ active = <<"SysTick", "PendSV">> => nested
  /\ ~started => \A t \in X!Threads : top[t] = t
  /\ started /\ ~(pushes /\ nested) =>
       /\ psp = running
       /\ \A t \in X!Threads \ {running} : top[t] = t
       /\ (IF pushes /\ active = <<"SysTick">> THEN pushed ELSE regs) = running

LEMMA InitExceptions ==
  X!Init => ExceptionType /\ Masking /\ Registers
<1> SUFFICES ASSUME X!Init PROVE ExceptionType /\ Masking /\ Registers
    OBVIOUS
<1>1. Kernel \in X!Threads /\ "main" \in Owner
  BY DEF X!Threads, Owner
<1>2. top \in [X!Threads -> Owner]
  BY DEF X!Init, Owner
<1>3. ExceptionType
  BY <1>1, <1>2 DEF ExceptionType, X!Init, Stacks
<1>4. active # <<"SVC">> /\ active # <<"SysTick", "PendSV">>
  BY DEF X!Init
<1> QED
  BY <1>3, <1>4 DEF Masking, Registers, X!Init

LEMMA ExceptionTypeStep ==
  ExceptionType /\ Registers /\ [X!Next]_exceptionVars => ExceptionType'
<1> SUFFICES ASSUME ExceptionType, Registers, [X!Next]_exceptionVars
             PROVE  ExceptionType'
    OBVIOUS
<1> USE DEF ExceptionType
<1>t. X!Threads \subseteq Owner /\ "SysTick" \in Owner /\ X!Masked = 14
  BY DEF Owner, X!Masked
<1>1. CASE UNCHANGED exceptionVars
  BY <1>1 DEF exceptionVars
<1>2. CASE X!Start \/ X!Yield \/ X!Tick \/ X!SysTickExpire
  BY <1>2 DEF X!Start, X!Yield, X!Tick, X!SysTickExpire, X!context, X!Exception
<1>3. CASE X!OS_DISABLE \/ X!OS_ENABLE
  BY <1>3, <1>t DEF X!OS_DISABLE, X!OS_ENABLE, X!context, X!Mask, X!Unmask
<1>4. CASE X!SystemCall
  <2>1. active = <<>>
    BY <1>4, StackRunning DEF X!SystemCall, X!InThread
  <2>2. active' = <<"SVC">>
    BY <1>4, <2>1, StackSteps DEF X!SystemCall
  <2> QED
    BY <1>4, <2>2 DEF X!SystemCall, X!context, Stacks
<1>5. CASE X!SysTickEnter
  <2>1. active = <<>>
    BY <1>5, Preempts DEF X!SysTickEnter
  <2>2. active' = <<"SysTick">>
    BY <1>5, <2>1, StackSteps DEF X!SysTickEnter
  <2>3. pushed' \in Owner /\ regs' \in Owner
    BY <1>5, <1>t DEF X!SysTickEnter
  <2> QED
    BY <1>5, <2>2, <2>3 DEF X!SysTickEnter, X!context, Stacks
<1>6. CASE X!SysTickReturn
  BY <1>6 DEF X!SysTickReturn, Stacks
<1>7. CASE X!PendSVEnter
  <2>1. active \in {<<>>, <<"SysTick">>}
    BY <1>7, Preempts DEF X!PendSVEnter, Registers
  <2>2. active' \in {<<"PendSV">>, <<"SysTick", "PendSV">>}
    BY <1>7, <2>1, StackSteps DEF X!PendSVEnter
  <2>3. nested' \in BOOLEAN
    BY <1>7 DEF X!PendSVEnter
  <2> QED
    BY <1>7, <2>2, <2>3 DEF X!PendSVEnter, X!context, Stacks
<1>8. CASE X!PendSVSwitch
  <2>1. active \in {<<"PendSV">>, <<"SysTick", "PendSV">>}
    BY <1>8, StackRunning DEF X!PendSVSwitch
  <2>2. active' \in {<<>>, <<"SysTick">>}
    BY <1>8, <2>1, StackSteps DEF X!PendSVSwitch
  <2>3. PICK t \in X!Threads : /\ running' = t /\ top' = X!Saved(t)
                               /\ regs' = top'[t] /\ psp' = t
    BY <1>8 DEF X!PendSVSwitch
  <2>4. top' \in [X!Threads -> Owner]
    BY <2>3 DEF X!Saved
  <2>5. regs' \in Owner /\ psp' \in Owner
    BY <2>3, <2>4, <1>t
  <2> QED
    BY <1>8, <2>2, <2>3, <2>4, <2>5 DEF X!PendSVSwitch, Stacks
<1>9. CASE X!FirstStart
  <2>1. regs' \in Owner /\ psp' \in Owner
    BY <1>9, <1>t DEF X!FirstStart
  <2> QED
    BY <1>9, <2>1 DEF X!FirstStart, Stacks
<1> QED
  BY <1>1, <1>2, <1>3, <1>4, <1>5, <1>6, <1>7, <1>8, <1>9 DEF X!Next

LEMMA MaskingStep ==
  ExceptionType /\ Masking /\ [X!Next]_exceptionVars => Masking'
<1> SUFFICES ASSUME ExceptionType, Masking, [X!Next]_exceptionVars
             PROVE  Masking'
    OBVIOUS
<1> USE DEF ExceptionType, Masking
<1>1. CASE UNCHANGED exceptionVars
  BY <1>1 DEF exceptionVars
<1>2. CASE X!Start \/ X!Yield \/ X!Tick \/ X!SysTickExpire
  BY <1>2 DEF X!Start, X!Yield, X!Tick, X!SysTickExpire, X!context
<1>3. CASE X!OS_DISABLE \/ X!OS_ENABLE
  BY <1>3, StackRunning
  DEF X!OS_DISABLE, X!OS_ENABLE, X!context, X!Mask, X!Unmask, X!InThread,
      X!Masked
<1>4. CASE X!SystemCall
  BY <1>4 DEF X!SystemCall, X!context
<1>5. CASE X!SysTickEnter \/ X!PendSVEnter
  BY <1>5, Preempts DEF X!SysTickEnter, X!PendSVEnter, X!context, X!Masked
<1>6. CASE X!SysTickReturn \/ X!PendSVSwitch \/ X!FirstStart
  BY <1>6, StackRunning
  DEF X!SysTickReturn, X!PendSVSwitch, X!FirstStart, X!Masked
<1> QED
  BY <1>1, <1>2, <1>3, <1>4, <1>5, <1>6 DEF X!Next

LEMMA RegistersStep ==
  ExceptionType /\ Registers /\ [X!Next]_exceptionVars => Registers'
<1> SUFFICES ASSUME ExceptionType, Registers, [X!Next]_exceptionVars
             PROVE  Registers'
    OBVIOUS
<1> USE DEF Registers
<1>1. CASE UNCHANGED exceptionVars
  BY <1>1 DEF exceptionVars
<1>2. CASE \/ X!Start \/ X!Yield \/ X!Tick \/ X!SysTickExpire
           \/ X!OS_DISABLE \/ X!OS_ENABLE
  BY <1>2 DEF X!Start, X!Yield, X!Tick, X!SysTickExpire, X!OS_DISABLE,
              X!OS_ENABLE, X!context
<1>4. CASE X!SystemCall
  <2>1. active = <<>> /\ active' = <<"SVC">>
    BY <1>4, StackRunning, StackSteps
    DEF X!SystemCall, X!InThread, ExceptionType
  <2>2. active' # <<"SysTick">> /\ active' # <<"SysTick", "PendSV">>
    BY <2>1, StackDiffer
  <2>3. active # <<"SysTick">>
    BY <2>1, StackDiffer
  <2> QED
    BY <1>4, <2>1, <2>2, <2>3 DEF X!SystemCall, X!context
<1>5. CASE X!SysTickEnter
  <2>1. active = <<>> /\ active' = <<"SysTick">>
    BY <1>5, Preempts, StackSteps DEF X!SysTickEnter, ExceptionType
  <2>2. active' # <<"SVC">> /\ active' # <<"SysTick", "PendSV">>
    BY <2>1, StackDiffer
  <2>3. active # <<"SysTick">>
    BY <2>1, StackDiffer
  <2> QED
    BY <1>5, <2>1, <2>2, <2>3 DEF X!SysTickEnter
<1>6. CASE X!SysTickReturn
  <2>1. active = <<"SysTick">> /\ active' = <<>>
    BY <1>6, StackRunning DEF X!SysTickReturn, ExceptionType
  <2>2. /\ active' # <<"SVC">> /\ active' # <<"SysTick", "PendSV">>
        /\ active' # <<"SysTick">>
    BY <2>1, StackDiffer
  <2> QED
    BY <1>6, <2>1, <2>2 DEF X!SysTickReturn
<1>7. CASE X!PendSVEnter
  <2>1. active \in {<<>>, <<"SVC">>, <<"SysTick">>} /\ active # <<"SVC">>
    BY <1>7, Preempts DEF X!PendSVEnter, ExceptionType
  <2>2. CASE active = <<>>
    <3>1. active' = <<"PendSV">>
      BY <1>7, <2>2, StackSteps DEF X!PendSVEnter
    <3>2. /\ active' # <<"SVC">> /\ active' # <<"SysTick", "PendSV">>
          /\ active' # <<"SysTick">> /\ active # <<"SysTick">>
      BY <2>2, <3>1, StackDiffer
    <3>3. nested => nested'
      BY <1>7 DEF X!PendSVEnter
    <3> QED
      BY <1>7, <3>2, <3>3 DEF X!PendSVEnter, X!context
  <2>3. CASE active = <<"SysTick">>
    <3>1. active' = <<"SysTick", "PendSV">>
      BY <1>7, <2>3, StackSteps DEF X!PendSVEnter
    <3>2. active' # <<"SVC">> /\ active' # <<"SysTick">>
      BY <3>1, StackDiffer
    <3>3. nested'
      BY <1>7, <2>3, StackRunning DEF X!PendSVEnter, ExceptionType
    <3> QED
      BY <1>7, <3>2, <3>3 DEF X!PendSVEnter, X!context
  <2> QED
    BY <2>1, <2>2, <2>3
<1>8. CASE X!PendSVSwitch
  <2>1. active \in {<<"PendSV">>, <<"SysTick", "PendSV">>}
    BY <1>8, StackRunning DEF X!PendSVSwitch, ExceptionType
  <2>2. PICK t \in X!Threads : /\ running' = t /\ top' = X!Saved(t)
                               /\ regs' = top'[t] /\ psp' = t
    BY <1>8 DEF X!PendSVSwitch
  <2>3. active # <<"SVC">> /\ active # <<"SysTick">>
    BY <2>1, StackDiffer
  <2>4. active' \in {<<>>, <<"SysTick">>}
    BY <1>8, <2>1, StackSteps DEF X!PendSVSwitch
  <2>5. active' # <<"SVC">> /\ active' # <<"SysTick", "PendSV">>
    BY <2>4, StackDiffer
  <2>6. ASSUME ~(pushes /\ nested)
        PROVE  \A u \in X!Threads : top'[u] = u
    <3>1. regs = running
      BY <1>8, <2>3, <2>6 DEF X!PendSVSwitch
    <3>2. top' = [top EXCEPT ![running] = running]
      BY <2>2, <3>1 DEF X!Saved
    <3> QED
      BY <1>8, <2>6, <3>2 DEF X!PendSVSwitch, ExceptionType
  <2>7. ~(pushes /\ nested) => ~(pushes /\ active' = <<"SysTick">>)
    BY <2>1, <1>8, <2>4, StackSteps, StackDiffer DEF X!PendSVSwitch
  <2>8. started' /\ nested' = nested /\ pushes' = pushes
    BY <1>8 DEF X!PendSVSwitch
  <2> QED
    BY <2>2, <2>5, <2>6, <2>7, <2>8
<1>9. CASE X!FirstStart
  <2>1. active' = <<>> /\ active' # <<"SVC">> /\ active' # <<"SysTick">>
        /\ active' # <<"SysTick", "PendSV">>
    BY <1>9, StackDiffer DEF X!FirstStart
  <2> QED
    BY <1>9, <2>1 DEF X!FirstStart, ExceptionType
<1> QED
  BY <1>1, <1>2, <1>4, <1>5, <1>6, <1>7, <1>8, <1>9 DEF X!Next

\* In a composed step the other parts leave these variables alone.
LEMMA ExceptionSteps == [Next]_vars => [X!Next]_exceptionVars
BY DEF Next, vars

\* A thread runs with its own registers and stack, and the processor is left
\* to a call of the kernel thread (os_thread_schedule.s:60-110,
\* os_thread_manage.c:66, 162, thread_manage.c:24).
THEOREM RegistersAlwaysKept == Spec => []RegistersKept
<1>1. Init => ExceptionType /\ Masking /\ Registers
  BY InitExceptions DEF Init
<1>2. ExceptionType /\ Masking /\ Registers /\ [Next]_vars
        => (ExceptionType /\ Masking /\ Registers)'
  BY ExceptionSteps, ExceptionTypeStep, MaskingStep, RegistersStep
<1>3. ExceptionType /\ Masking /\ Registers => RegistersKept
  BY StackRunning, StackDiffer
  DEF ExceptionType, Masking, Registers, RegistersKept, X!RegistersKept,
      X!CallIsUninterrupted, X!Masked
<1> QED
  BY <1>1, <1>2, <1>3, PTL DEF Spec

-----------------------------------------------------------------------------
\* QueueRegistry.  Linking and unlinking are several steps; the invariant says
\* what the list looks like after each of them.

Working == Q!Linking \cup Q!Unlinking
Owning == Working \cup {"free", "ready"}
Steps == Owning \cup {"idle", "claim", "release"}

Members == {made[i] : i \in 1 .. Len(made)}

RegistryType ==
  /\ first \in Places \cup {NULL}
  /\ forward \in [Places -> Places \cup {NULL}]
  /\ back \in [Places -> Places \cup {NULL}]
  /\ marks \in [Places -> Q!States]
  /\ call \in [Callers -> [pc : Steps, q : Places \cup {NULL}]]
  /\ \A t \in Callers : call[t].pc # "idle" => call[t].q \in Places
  /\ places \subseteq Places
  /\ made \in Seq(Places)
  /\ overlap \in BOOLEAN
  /\ only \subseteq Places /\ held \subseteq Places

\* A queue has one owner while it is linked or unlinked, and its memory stays
\* in use until the owner frees it.
Ownership ==
  /\ \A t \in Callers : call[t].pc \in Owning => call[t].q \in places
  /\ \A t, u \in Callers :
       call[t].pc \in Owning /\ call[u].pc \in Owning /\ t # u
         => call[t].q # call[u].q
  /\ Members \subseteq places
  /\ \A i, j \in 1 .. Len(made) : made[i] = made[j] => i = j
  /\ \A t \in Callers :
       call[t].pc \in Q!Linking \cup {"free"} => call[t].q \notin Members
  /\ \A t \in Callers :
       ~overlap /\ call[t].pc \in Q!Unlinking \cup {"ready"}
         => call[t].q \in Members

\* The position behind i in the circular list.
Behind(i) == IF i = Len(made) THEN 1 ELSE i + 1

\* A thread that has changed a link, or os_queue_create_ptr, and is not done.
Changed(t) ==
  \/ call[t].pc \in {"back", "around_back"}
  \/ call[t].pc = "around" /\ made # <<>> /\ call[t].q = made[1]

Whole == /\ first = IF made = <<>> THEN NULL ELSE made[1]
         /\ \A i \in 1 .. Len(made) : forward[made[i]] = made[Behind(i)]

Backward == \A i \in 1 .. Len(made) : back[made[Behind(i)]] = made[i]

\* The last queue leads to the new one.
LinkedForward(t) ==
  /\ Len(made) > 0 /\ first = made[1]
  /\ forward[made[Len(made)]] = call[t].q
  /\ \A i \in 1 .. Len(made) - 1 : forward[made[i]] = made[i + 1]

\* The list starts behind the queue that goes.
Stepped == /\ Len(made) > 1 /\ first = made[2]
           /\ \A i \in 1 .. Len(made) : forward[made[i]] = made[Behind(i)]

\* It is not led to any more.
Bypassed(t) ==
  \E k \in 1 .. Len(made) :
    /\ Len(made) > 1 /\ made[k] = call[t].q
    /\ first = IF k = 1 THEN made[2] ELSE made[1]
    /\ \A i \in 1 .. Len(made) :
         forward[made[i]] = made[Behind(IF Behind(i) = k THEN k ELSE i)]

Shape ==
  ~overlap =>
    /\ Backward
    /\ (\A t \in Callers : ~Changed(t)) => Whole
    /\ \A t \in Callers : Changed(t) =>
         /\ \A u \in Callers \ {t} : ~Changed(u)
         /\ call[t].pc = "back" => LinkedForward(t)
         /\ call[t].pc = "around" => Stepped
         /\ call[t].pc = "around_back" => Bypassed(t)

\* What a thread has seen of the list is still so.
Seen(t) ==
  /\ call[t].pc \in {"next", "forward", "back"} => made # <<>>
  /\ call[t].pc = "alone" => made = <<>>
  /\ call[t].pc \in {"forward", "back"} =>
       forward[call[t].q] = first /\ back[call[t].q] = back[first]
  /\ call[t].pc = "step" => first = call[t].q /\ forward[call[t].q] # call[t].q

Sight == ~overlap => \A t \in Callers : Seen(t)

\* A queue that is not in the list says so, or somebody knows it.
Covered(q) == q \in Members \cup only \cup held \/ Q!Busy(q)

Refusing ==
  /\ \A q \in Places : Covered(q) \/ marks[q] \in {"DELETED", "none"}
  /\ \A t \in Callers : call[t].pc = "release" => Covered(call[t].q)

Registered == RegistryType /\ Ownership /\ Shape /\ Sight /\ Refusing

-----------------------------------------------------------------------------
\* Where a member of the list is, and what joining and leaving it do.

LEMMA PositionView ==
  ASSUME made \in Seq(Places), NEW q \in Members
  PROVE  Q!Position(q) \in 1 .. Len(made) /\ made[Q!Position(q)] = q
<1>1. DOMAIN made = 1 .. Len(made)
  OBVIOUS
<1>2. \E i \in DOMAIN made : made[i] = q
  BY <1>1 DEF Members
<1> QED
  BY <1>1, <1>2 DEF Q!Position

LEMMA JoinView ==
  ASSUME made \in Seq(Places), NEW q \in Places, made' = Append(made, q)
  PROVE  /\ made' \in Seq(Places) /\ Len(made') = Len(made) + 1
         /\ \A i \in 1 .. Len(made) : made'[i] = made[i]
         /\ made'[Len(made) + 1] = q
         /\ Members' = Members \cup {q}
<1>1. /\ made' \in Seq(Places) /\ Len(made') = Len(made) + 1
      /\ \A i \in 1 .. Len(made) : made'[i] = made[i]
      /\ made'[Len(made) + 1] = q
  BY AppendView
<1> QED
  BY <1>1 DEF Members

LEMMA LeaveView ==
  ASSUME made \in Seq(Places), NEW k \in 1 .. Len(made),
         made' = RemoveAt(made, k),
         \A i, j \in 1 .. Len(made) : made[i] = made[j] => i = j
  PROVE  /\ made' \in Seq(Places) /\ Len(made') = Len(made) - 1
         /\ \A i \in 1 .. Len(made) - 1 :
              made'[i] = IF i < k THEN made[i] ELSE made[i + 1]
         /\ Members' = Members \ {made[k]}
<1>1. /\ made' \in Seq(Places) /\ Len(made') = Len(made) - 1
      /\ \A i \in 1 .. Len(made) - 1 :
           made'[i] = IF i < k THEN made[i] ELSE made[i + 1]
  BY RemoveAtView
<1>2. ASSUME NEW x \in Members' PROVE x \in Members \ {made[k]}
  <2>1. PICK i \in 1 .. Len(made) - 1 : x = made'[i]
    BY <1>1 DEF Members
  <2>2. CASE i < k
    BY <1>1, <2>1, <2>2 DEF Members
  <2>3. CASE ~(i < k)
    <3>1. i + 1 \in 1 .. Len(made) /\ i + 1 # k /\ x = made[i + 1]
      BY <1>1, <2>1, <2>3
    <3> QED
      BY <3>1 DEF Members
  <2> QED
    BY <2>2, <2>3
<1>3. ASSUME NEW x \in Members \ {made[k]} PROVE x \in Members'
  <2>1. PICK i \in 1 .. Len(made) : x = made[i] /\ i # k
    BY DEF Members
  <2>2. CASE i < k
    <3>1. i \in 1 .. Len(made) - 1 /\ made'[i] = x
      BY <1>1, <2>1, <2>2
    <3> QED
      BY <1>1, <3>1 DEF Members
  <2>3. CASE ~(i < k)
    <3>1. i - 1 \in 1 .. Len(made) - 1 /\ ~(i - 1 < k) /\ (i - 1) + 1 = i
      BY <2>1, <2>3
    <3>2. made'[i - 1] = x
      BY <1>1, <2>1, <3>1
    <3> QED
      BY <1>1, <3>1, <3>2 DEF Members
  <2> QED
    BY <2>1, <2>2, <2>3
<1> QED
  BY <1>1, <1>2, <1>3

LEMMA MembersKept == made' = made => Members' = Members
BY DEF Members

LEMMA NoMembers == made = <<>> => Members = {} /\ Len(made) = 0
BY DEF Members

LEMMA InitRegistered == Q!Init => Registered
<1> SUFFICES ASSUME Q!Init PROVE Registered
    OBVIOUS
<1> USE OtherAssumption DEF Q!RegistryAssumption
<1>1. /\ made = <<OsQueue>> /\ made \in Seq(Places) /\ Len(made) = 1
      /\ made[1] = OsQueue /\ made # <<>>
  BY DEF Q!Init
<1>2. Members = {OsQueue}
  BY <1>1 DEF Members
<1>3. \A t \in Callers : call[t] = [pc |-> "idle", q |-> NULL]
  BY DEF Q!Init, Q!Idle
<1>4. RegistryType
  <2>1. /\ forward \in [Places -> Places \cup {NULL}] /\ back = forward
        /\ marks \in [Places -> Q!States]
    BY DEF Q!Init, Q!States
  <2>2. call \in [Callers -> [pc : Steps, q : Places \cup {NULL}]]
    BY DEF Q!Init, Q!Idle, Steps
  <2>3. \A t \in Callers : call[t].pc = "idle"
    BY <1>3
  <2>4. /\ first \in Places \cup {NULL} /\ places \subseteq Places
        /\ overlap \in BOOLEAN /\ only \subseteq Places /\ held \subseteq Places
    BY DEF Q!Init
  <2> QED
    BY <1>1, <2>1, <2>2, <2>3, <2>4 DEF RegistryType
<1>5. Ownership
  BY <1>1, <1>2, <1>3
  DEF Ownership, Q!Init, Owning, Working, Q!Linking, Q!Unlinking
<1>6. Shape
  BY <1>1, <1>3 DEF Shape, Changed, Whole, Backward, Behind, Q!Init
<1>7. Sight
  BY <1>3 DEF Sight, Seen
<1>8. Refusing
  BY <1>2, <1>3 DEF Refusing, Covered, Q!Init
<1> QED
  BY <1>4, <1>5, <1>6, <1>7, <1>8 DEF Registered

-----------------------------------------------------------------------------
\* The step of one thread.
LinkStep(t) ==
  \/ Q!LinkForward(t) \/ Q!LinkBack(t) \/ Q!LinkAlone(t)
  \/ Q!Step(t) \/ Q!Around(t) \/ Q!AroundBack(t)

QuietStep(t) ==
  \/ \E q \in Places : Q!Create(t, q) \/ Q!Delete(t, q) \/ Q!Use(t, q)
  \/ Q!TestFirst(t) \/ Q!LinkOwn(t) \/ Q!Ready(t) \/ Q!Free(t)
  \/ Q!Claim(t) \/ Q!Release(t)

LEMMA RegistrySteps ==
  [Next]_vars => \/ UNCHANGED queueVars
                 \/ /\ ~overlap
                    /\ \E t \in Callers :
                         LinkStep(t) \/ QuietStep(t) \/ Q!TestOnly(t)
<1> SUFFICES ASSUME [Next]_vars, ~(UNCHANGED queueVars)
             PROVE  /\ ~overlap
                    /\ \E t \in Callers :
                         LinkStep(t) \/ QuietStep(t) \/ Q!TestOnly(t)
    OBVIOUS
<1>1. Q!Next
  BY DEF Next, vars
<1> QED
  BY <1>1 DEF Q!Next, LinkStep, QuietStep

\* A thread goes on to the next statement of its call.
LEMMA GoesOn ==
  ASSUME RegistryType, NEW t \in Callers, NEW to, to \in Owning \cup {"release"},
         call[t].pc # "idle", Q!Goto(t, to)
  PROVE  /\ call' \in [Callers -> [pc : Steps, q : Places \cup {NULL}]]
         /\ call'[t].pc = to /\ call'[t].q = call[t].q
         /\ \A u \in Callers \ {t} : call'[u] = call[u]
         /\ call[t].q \in Places
         /\ \A u \in Callers : call'[u].pc # "idle" => call'[u].q \in Places
<1> USE DEF RegistryType
<1>1. to \in Steps
  BY DEF Steps
<1>2. call[t] \in [pc : Steps, q : Places \cup {NULL}]
  OBVIOUS
<1>3. /\ call' = [call EXCEPT ![t].pc = to]
      /\ call[t].q \in Places
  BY DEF Q!Goto
<1>4. call'[t] = [call[t] EXCEPT !.pc = to]
  BY <1>3
<1>5. call'[t] \in [pc : Steps, q : Places \cup {NULL}]
  BY <1>1, <1>2, <1>4
<1>6. call'[t].pc = to /\ call'[t].q = call[t].q
  BY <1>2, <1>4
<1>7. \A u \in Callers \ {t} : call'[u] = call[u]
  BY <1>3
<1>8. call' \in [Callers -> [pc : Steps, q : Places \cup {NULL}]]
  BY <1>3, <1>5
<1> QED
  BY <1>3, <1>6, <1>7, <1>8

\* A call begins or ends.
LEMMA BeginsOrEnds ==
  ASSUME RegistryType, NEW t \in Callers, NEW to \in Steps,
         NEW q \in Places \cup {NULL}, to # "idle" => q \in Places,
         call' = [call EXCEPT ![t] = [pc |-> to, q |-> q]]
  PROVE  /\ call' \in [Callers -> [pc : Steps, q : Places \cup {NULL}]]
         /\ call'[t].pc = to /\ call'[t].q = q
         /\ \A u \in Callers \ {t} : call'[u] = call[u]
         /\ \A u \in Callers : call'[u].pc # "idle" => call'[u].q \in Places
<1> USE DEF RegistryType
<1>1. call'[t] = [pc |-> to, q |-> q]
  OBVIOUS
<1>2. \A u \in Callers \ {t} : call'[u] = call[u]
  OBVIOUS
<1>3. call' \in [Callers -> [pc : Steps, q : Places \cup {NULL}]]
  OBVIOUS
<1> QED
  BY <1>1, <1>2, <1>3

LEMMA EndsIdle ==
  ASSUME RegistryType, NEW t \in Callers,
         call' = [call EXCEPT ![t] = Q!Idle]
  PROVE  /\ call' \in [Callers -> [pc : Steps, q : Places \cup {NULL}]]
         /\ call'[t].pc = "idle"
         /\ \A u \in Callers \ {t} : call'[u] = call[u]
         /\ \A u \in Callers : call'[u].pc # "idle" => call'[u].q \in Places
<1>1. "idle" \in Steps
  BY DEF Steps
<1> QED
  BY <1>1, BeginsOrEnds DEF Q!Idle

\* While there is a list it starts at one of its members.
LEMMA FirstMember ==
  ASSUME RegistryType, Shape, ~overlap, made # <<>>
  PROVE  first \in Members /\ first \in Places
<1> USE DEF RegistryType
<1>1. Len(made) \in Nat /\ Len(made) > 0
  OBVIOUS
<1>2. first \in Members
  <2>1. CASE \A t \in Callers : ~Changed(t)
    BY <1>1, <2>1 DEF Shape, Whole, Members
  <2>2. ASSUME NEW t \in Callers, Changed(t) PROVE first \in Members
    <3>1. CASE call[t].pc = "back"
      BY <1>1, <2>2, <3>1 DEF Shape, LinkedForward, Members
    <3>2. CASE call[t].pc = "around"
      BY <1>1, <2>2, <3>2 DEF Shape, Stepped, Members
    <3>3. CASE call[t].pc = "around_back"
      BY <1>1, <2>2, <3>3 DEF Shape, Bypassed, Members
    <3> QED
      BY <2>2, <3>1, <3>2, <3>3 DEF Changed
  <2> QED
    BY <2>1, <2>2
<1>3. \A x \in Members : x \in Places
  BY DEF Members
<1> QED
  BY <1>2, <1>3

\* The list and the links of its members stay, and nobody begins or ends to
\* change it.
LEMMA ShapeKept ==
  ASSUME RegistryType, Shape, ~overlap, UNCHANGED <<first, made>>,
         \A x \in Members : forward'[x] = forward[x] /\ back'[x] = back[x],
         \A u \in Callers : Changed(u) => call'[u] = call[u],
         \A u \in Callers : ~Changed(u) => ~Changed(u)'
  PROVE  Shape'
<1> USE DEF RegistryType
<1>1. \A i \in 1 .. Len(made) :
        /\ forward'[made[i]] = forward[made[i]]
        /\ back'[made[i]] = back[made[i]]
  BY DEF Members
<1>2. \A i \in 1 .. Len(made) : Behind(i) \in 1 .. Len(made)
  BY DEF Behind
<1>3. Backward'
  BY <1>1, <1>2 DEF Shape, Backward, Behind
<1>4. ASSUME \A u \in Callers : ~Changed(u)' PROVE Whole'
  <2>1. \A u \in Callers : ~Changed(u)
    BY <1>4 DEF Changed
  <2>2. Whole
    BY <2>1 DEF Shape
  <2> QED
    BY <1>1, <2>2 DEF Whole, Behind
<1>5. ASSUME NEW t \in Callers, Changed(t)'
      PROVE  /\ \A u \in Callers \ {t} : ~Changed(u)'
             /\ call'[t].pc = "back" => LinkedForward(t)'
             /\ call'[t].pc = "around" => Stepped'
             /\ call'[t].pc = "around_back" => Bypassed(t)'
  <2>1. Changed(t) /\ call'[t] = call[t]
    BY <1>5
  <2>2. /\ \A u \in Callers \ {t} : ~Changed(u)
        /\ call[t].pc = "back" => LinkedForward(t)
        /\ call[t].pc = "around" => Stepped
        /\ call[t].pc = "around_back" => Bypassed(t)
    BY <2>1 DEF Shape
  <2>3. call[t].pc = "back" => LinkedForward(t)'
    <3> SUFFICES ASSUME call[t].pc = "back" PROVE LinkedForward(t)'
        OBVIOUS
    <3> QED
      BY <1>1, <2>1, <2>2 DEF LinkedForward
  <2>4. Stepped => Stepped'
    BY <1>1 DEF Stepped, Behind
  <2>5. Bypassed(t) => Bypassed(t)'
    BY <1>1, <2>1 DEF Bypassed, Behind
  <2> QED
    BY <2>1, <2>2, <2>3, <2>4, <2>5
<1> QED
  BY <1>3, <1>4, <1>5 DEF Shape

\* What covers a queue stays, and who is in a queue has been there.
LEMMA RefusingKept ==
  ASSUME RegistryType, Refusing,
         \A x \in Places : Covered(x) => Covered(x)',
         \A x \in Places : \/ marks'[x] = marks[x] \/ Covered(x)'
                         \/ marks'[x] \in {"DELETED", "none"},
         \A u \in Callers : call'[u].pc = "release" =>
             \/ call[u].pc = "release" /\ call'[u].q = call[u].q
             \/ Covered(call[u].q)'
  PROVE  Refusing'
<1>1. \A x \in Places : Covered(x)' \/ marks'[x] \in {"DELETED", "none"}
  BY DEF Refusing
<1>2. ASSUME NEW u \in Callers, call'[u].pc = "release"
      PROVE  Covered(call[u].q)'
  <2>1. CASE call[u].pc = "release" /\ call'[u].q = call[u].q
    <3>1. PICK x \in Places : x = call[u].q /\ Covered(x)
      BY <2>1 DEF RegistryType, Refusing
    <3>2. call'[u].q = x /\ Covered(x)'
      BY <2>1, <3>1
    <3> QED
      BY <3>2 DEF Covered, Q!Busy
  <2> QED
    BY <1>2, <2>1
<1> QED
  BY <1>1, <1>2 DEF Refusing

\* What another thread does to the list changes nothing for it.
LEMMA SightKept ==
  ASSUME Sight, ~overlap, NEW t \in Callers, UNCHANGED <<first, forward, back, made>>,
         \A u \in Callers \ {t} : call'[u] = call[u], Seen(t)'
  PROVE  Sight'
<1>1. ASSUME NEW u \in Callers PROVE Seen(u)'
  <2>1. CASE u # t
    BY <2>1 DEF Sight, Seen
  <2> QED
    BY <2>1
<1> QED
  BY <1>1 DEF Sight

LEMMA CreateRegistered ==
  ASSUME Registered, ~overlap, NEW t \in Callers, NEW q \in Places,
         Q!Create(t, q)
  PROVE  Registered'
<1> USE DEF Registered
<1>1. /\ call[t].pc = "idle" /\ q \notin places
      /\ places' = places \cup {q} /\ marks' = [marks EXCEPT ![q] = "NEW"]
      /\ call' = [call EXCEPT ![t] = [pc |-> "test", q |-> q]]
      /\ only' = only \ {q} /\ held' = held \ {q}
      /\ UNCHANGED <<first, forward, back, made, overlap>>
  BY DEF Q!Create, Q!At, Q!links
<1>2. "test" \in Steps /\ "test" \in Q!Linking
  BY DEF Steps, Owning, Working, Q!Linking
<1>3. /\ call' \in [Callers -> [pc : Steps, q : Places \cup {NULL}]]
      /\ call'[t].pc = "test" /\ call'[t].q = q
      /\ \A u \in Callers \ {t} : call'[u] = call[u]
      /\ \A u \in Callers : call'[u].pc # "idle" => call'[u].q \in Places
  BY <1>1, <1>2, BeginsOrEnds
<1>4. RegistryType'
  BY <1>1, <1>3 DEF RegistryType, Q!States
<1>5. Members' = Members
  BY <1>1, MembersKept
<1>6. q \notin Members
  BY <1>1 DEF Ownership
<1>7. Ownership'
  BY <1>1, <1>3, <1>5, <1>6
  DEF Ownership, Owning, Working, Q!Linking, Q!Unlinking
<1>8. Shape'
  BY <1>1, <1>3, ShapeKept DEF Changed
<1>9. Sight'
  <2>1. Seen(t)'
    BY <1>3 DEF Seen
  <2> QED
    BY <1>1, <1>3, <2>1, SightKept
<1>10. Refusing'
  <2>1. Covered(q)'
    BY <1>2, <1>3 DEF Covered, Q!Busy
  <2>2. ASSUME NEW x \in Places \ {q}, Covered(x) PROVE Covered(x)'
    <3>1. CASE x \in Members \cup only \cup held
      BY <1>1, <1>5, <3>1 DEF Covered
    <3>2. CASE Q!Busy(x)
      <4>1. PICK u \in Callers : call[u].q = x /\ call[u].pc \in Owning
        BY <3>2 DEF Q!Busy, Owning, Working
      <4>2. u # t
        BY <1>1, <4>1 DEF Owning, Working, Q!Linking, Q!Unlinking
      <4> QED
        BY <1>3, <4>1, <4>2 DEF Covered, Q!Busy, Owning, Working
    <3> QED
      BY <2>2, <3>1, <3>2 DEF Covered
  <2>3. \A x \in Places : marks'[x] = marks[x] \/ Covered(x)'
    BY <1>1, <2>1 DEF RegistryType
  <2>4. \A u \in Callers : call'[u].pc = "release" =>
          call[u].pc = "release" /\ call'[u].q = call[u].q
    BY <1>3
  <2> QED
    BY <2>1, <2>2, <2>3, <2>4, RefusingKept
<1> QED
  BY <1>4, <1>7, <1>8, <1>9, <1>10

LEMMA MembersAre == made \in Seq(Places) => Q!ToSet(made) = Members
BY DEF Q!ToSet, Members

LEMMA CoverKept ==
  ASSUME Members' = Members, only \subseteq only', held \subseteq held',
         \A u \in Callers : call[u].pc \in Owning =>
            call'[u].pc \in Owning /\ call'[u].q = call[u].q
  PROVE  \A x \in Places : Covered(x) => Covered(x)'
BY DEF Covered, Q!Busy, Owning, Working

\* A call that neither changes the list nor owns a queue goes on.
LEMMA BystanderKeeps ==
  ASSUME Registered, ~overlap, NEW t \in Callers,
         UNCHANGED <<first, forward, back, made, overlap, places>>,
         call[t].pc \notin Owning, call'[t].pc \notin Owning,
         \A u \in Callers \ {t} : call'[u] = call[u]
  PROVE  /\ Ownership' /\ Shape' /\ Sight' /\ Members' = Members
         /\ only \subseteq only' /\ held \subseteq held' =>
              \A x \in Places : Covered(x) => Covered(x)'
<1> USE DEF Registered
<1>1. Members' = Members
  BY MembersKept
<1>2. Ownership'
  BY <1>1 DEF Ownership, Owning, Working, RegistryType
<1>3. Shape'
  <2>1. ~Changed(t) /\ ~Changed(t)'
    BY DEF Changed, Owning, Working, Q!Linking, Q!Unlinking
  <2> QED
    BY <2>1, ShapeKept DEF Changed
<1>4. Sight'
  <2>1. Seen(t)'
    BY DEF Seen, Owning, Working, Q!Linking, Q!Unlinking
  <2> QED
    BY <2>1, SightKept
<1> QED
  BY <1>1, <1>2, <1>3, <1>4, CoverKept

LEMMA UseRegistered ==
  ASSUME Registered, ~overlap, NEW t \in Callers, NEW q \in Places, Q!Use(t, q)
  PROVE  Registered'
<1> USE DEF Registered
<1>1. /\ call[t].pc = "idle"
      /\ call' = [call EXCEPT ![t] = [pc |-> "claim", q |-> q]]
      /\ UNCHANGED <<first, forward, back, made, overlap, places, marks, only,
                     held>>
  BY DEF Q!Use, Q!At, Q!links, Q!marks
<1>2. /\ "claim" \in Steps /\ "claim" \notin Owning /\ "idle" \notin Owning
  BY DEF Steps, Owning, Working, Q!Linking, Q!Unlinking
<1>3. /\ call' \in [Callers -> [pc : Steps, q : Places \cup {NULL}]]
      /\ call'[t].pc = "claim" /\ call'[t].q = q
      /\ \A u \in Callers \ {t} : call'[u] = call[u]
      /\ \A u \in Callers : call'[u].pc # "idle" => call'[u].q \in Places
  BY <1>1, <1>2, BeginsOrEnds
<1>4. RegistryType'
  BY <1>1, <1>3 DEF RegistryType
<1>5. /\ Ownership' /\ Shape' /\ Sight'
      /\ \A x \in Places : Covered(x) => Covered(x)'
  BY <1>1, <1>2, <1>3, BystanderKeeps
<1>6. Refusing'
  <2>1. \A u \in Callers : call'[u].pc = "release" =>
          call[u].pc = "release" /\ call'[u].q = call[u].q
    BY <1>3
  <2> QED
    BY <1>1, <1>5, <2>1, RefusingKept
<1> QED
  BY <1>4, <1>5, <1>6

LEMMA ClaimRegistered ==
  ASSUME Registered, ~overlap, NEW t \in Callers, Q!Claim(t)
  PROVE  Registered'
<1> USE DEF Registered
<1> DEFINE q == call[t].q
<1>1. /\ call[t].pc = "claim"
      /\ marks' = [marks EXCEPT ![q] = "BUSYING"]
      /\ Q!Goto(t, "release")
      /\ held' = IF q \in Q!ToSet(made) THEN held ELSE held \cup {q}
      /\ UNCHANGED <<first, forward, back, made, overlap, places, only>>
  BY DEF Q!Claim, Q!At, Q!links
<1>2. "claim" \notin Owning /\ "release" \notin Owning
  BY DEF Owning, Working, Q!Linking, Q!Unlinking
<1>3. /\ call' \in [Callers -> [pc : Steps, q : Places \cup {NULL}]]
      /\ call'[t].pc = "release" /\ call'[t].q = q
      /\ \A u \in Callers \ {t} : call'[u] = call[u]
      /\ q \in Places
      /\ \A u \in Callers : call'[u].pc # "idle" => call'[u].q \in Places
  BY <1>1, GoesOn
<1>4. held \subseteq held' /\ q \in Members \cup held'
  BY <1>1, MembersAre DEF RegistryType
<1>5. RegistryType'
  BY <1>1, <1>3 DEF RegistryType, Q!States
<1>6. /\ Ownership' /\ Shape' /\ Sight' /\ Members' = Members
      /\ \A x \in Places : Covered(x) => Covered(x)'
  BY <1>1, <1>2, <1>3, <1>4, BystanderKeeps
<1>7. Refusing'
  <2>1. PICK x \in Places : x = q
    BY <1>3
  <2>2. Covered(x)' /\ call'[t].q = x
    BY <1>3, <1>4, <1>6, <2>1 DEF Covered
  <2>3. \A y \in Places : marks'[y] = marks[y] \/ Covered(y)'
    BY <1>1, <2>1, <2>2 DEF RegistryType
  <2>4. Covered(call[t].q)'
    BY <2>2 DEF Covered, Q!Busy
  <2>5. \A u \in Callers : call'[u].pc = "release" =>
          \/ call[u].pc = "release" /\ call'[u].q = call[u].q
          \/ Covered(call[u].q)'
    BY <1>3, <2>4
  <2> QED
    BY <1>6, <2>3, <2>5, RefusingKept
<1> QED
  BY <1>5, <1>6, <1>7

LEMMA ReleaseRegistered ==
  ASSUME Registered, ~overlap, NEW t \in Callers, Q!Release(t)
  PROVE  Registered'
<1> USE DEF Registered
<1>1. /\ call[t].pc = "release"
      /\ marks' = [marks EXCEPT ![call[t].q] = "READY"]
      /\ call' = [call EXCEPT ![t] = Q!Idle]
      /\ UNCHANGED <<first, forward, back, made, overlap, places, only, held>>
  BY DEF Q!Release, Q!At, Q!links, Q!marks
<1>2. "idle" \notin Owning /\ "release" \notin Owning
  BY DEF Owning, Working, Q!Linking, Q!Unlinking
<1>3. /\ call' \in [Callers -> [pc : Steps, q : Places \cup {NULL}]]
      /\ call'[t].pc = "idle"
      /\ \A u \in Callers \ {t} : call'[u] = call[u]
      /\ \A u \in Callers : call'[u].pc # "idle" => call'[u].q \in Places
  BY <1>1, EndsIdle
<1>4. RegistryType'
  BY <1>1, <1>3 DEF RegistryType, Q!States
<1>5. /\ Ownership' /\ Shape' /\ Sight'
      /\ \A x \in Places : Covered(x) => Covered(x)'
  BY <1>1, <1>2, <1>3, BystanderKeeps
<1>6. Refusing'
  <2>1. PICK x \in Places : x = call[t].q /\ Covered(x)
    BY <1>1 DEF RegistryType, Refusing
  <2>2. \A y \in Places : marks'[y] = marks[y] \/ Covered(y)'
    BY <1>1, <1>5, <2>1 DEF RegistryType
  <2>3. \A u \in Callers : call'[u].pc = "release" =>
          call[u].pc = "release" /\ call'[u].q = call[u].q
    BY <1>3
  <2> QED
    BY <1>5, <2>2, <2>3, RefusingKept
<1> QED
  BY <1>4, <1>5, <1>6

LEMMA DeleteRegistered ==
  ASSUME Registered, ~overlap, NEW t \in Callers, NEW q \in Places,
         Q!Delete(t, q)
  PROVE  Registered'
<1> USE DEF Registered
<1>1. /\ call[t].pc = "idle" /\ q \in Members
      /\ \A u \in Callers :
           call[u].q = q => call[u].pc \notin Q!Unlinking \cup {"free", "ready"}
      /\ call' = [call EXCEPT ![t] = [pc |-> "test_delete", q |-> q]]
      /\ UNCHANGED <<first, forward, back, made, overlap, places, marks, only,
                     held>>
  BY MembersAre DEF Q!Delete, Q!At, Q!links, Q!marks, RegistryType
<1>2. /\ "test_delete" \in Steps /\ "idle" \notin Owning
      /\ "test_delete" \in Owning \cap Q!Unlinking
      /\ "test_delete" \notin Q!Linking
  BY DEF Steps, Owning, Working, Q!Linking, Q!Unlinking
<1>3. /\ call' \in [Callers -> [pc : Steps, q : Places \cup {NULL}]]
      /\ call'[t].pc = "test_delete" /\ call'[t].q = q
      /\ \A u \in Callers \ {t} : call'[u] = call[u]
      /\ \A u \in Callers : call'[u].pc # "idle" => call'[u].q \in Places
  BY <1>1, <1>2, BeginsOrEnds
<1>4. RegistryType'
  BY <1>1, <1>3 DEF RegistryType
<1>5. Members' = Members
  BY <1>1, MembersKept
<1>6. \A u \in Callers : call[u].pc \in Owning => call[u].q # q
  BY <1>1 DEF Ownership, Owning, Working
<1>7. Ownership'
  BY <1>1, <1>2, <1>3, <1>5, <1>6 DEF Ownership
<1>8. Shape'
  BY <1>1, <1>3, ShapeKept DEF Changed
<1>9. Sight'
  <2>1. Seen(t)'
    BY <1>3 DEF Seen
  <2> QED
    BY <1>1, <1>3, <2>1, SightKept
<1>10. Refusing'
  <2>1. \A x \in Places : Covered(x) => Covered(x)'
    BY <1>1, <1>2, <1>3, <1>5, CoverKept
  <2>2. \A u \in Callers : call'[u].pc = "release" =>
          call[u].pc = "release" /\ call'[u].q = call[u].q
    BY <1>3
  <2> QED
    BY <1>1, <2>1, <2>2, RefusingKept
<1> QED
  BY <1>4, <1>7, <1>8, <1>9, <1>10

LEMMA FirstTells ==
  ASSUME RegistryType, Shape, ~overlap
  PROVE  first = NULL <=> made = <<>>
<1>1. ASSUME made # <<>> PROVE first # NULL
  BY <1>1, FirstMember, OtherAssumption DEF Q!RegistryAssumption
<1>2. ASSUME made = <<>> PROVE first = NULL
  <2>1. Len(made) = 0
    BY <1>2
  <2>2. ASSUME NEW t \in Callers PROVE ~Changed(t)
    BY <1>2, <2>1 DEF Shape, Changed, LinkedForward, Bypassed
  <2> QED
    BY <1>2, <2>2 DEF Shape, Whole
<1> QED
  BY <1>1, <1>2

LEMMA TestFirstRegistered ==
  ASSUME Registered, ~overlap, NEW t \in Callers, Q!TestFirst(t)
  PROVE  Registered'
<1> USE DEF Registered
<1>1. PICK to \in {"alone", "next"} :
        /\ call[t].pc = "test" /\ Q!Goto(t, to)
        /\ to = "alone" <=> first = NULL
        /\ UNCHANGED <<first, forward, back, made, overlap, places, marks, only,
                       held>>
  BY DEF Q!TestFirst, Q!At, Q!links, Q!marks
<1>2. /\ to \in Owning /\ "test" \in Owning /\ "test" \in Q!Linking
      /\ to \in Q!Linking /\ to \notin Q!Unlinking
  BY DEF Owning, Working, Q!Linking, Q!Unlinking
<1>3. /\ call' \in [Callers -> [pc : Steps, q : Places \cup {NULL}]]
      /\ call'[t].pc = to /\ call'[t].q = call[t].q
      /\ \A u \in Callers \ {t} : call'[u] = call[u]
      /\ call[t].q \in Places
      /\ \A u \in Callers : call'[u].pc # "idle" => call'[u].q \in Places
  BY <1>1, <1>2, GoesOn
<1>4. RegistryType'
  BY <1>1, <1>3 DEF RegistryType
<1>5. Members' = Members
  BY <1>1, MembersKept
<1>6. Ownership'
  BY <1>1, <1>2, <1>3, <1>5 DEF Ownership
<1>7. Shape'
  BY <1>1, <1>3, ShapeKept DEF Changed
<1>8. Sight'
  <2>1. Seen(t)'
    BY <1>1, <1>3, FirstTells DEF Seen
  <2> QED
    BY <1>1, <1>3, <2>1, SightKept
<1>9. Refusing'
  <2>1. \A x \in Places : Covered(x) => Covered(x)'
    BY <1>1, <1>2, <1>3, <1>5, CoverKept
  <2>2. \A u \in Callers : call'[u].pc = "release" =>
          call[u].pc = "release" /\ call'[u].q = call[u].q
    BY <1>1, <1>3
  <2> QED
    BY <1>1, <2>1, <2>2, RefusingKept
<1> QED
  BY <1>4, <1>6, <1>7, <1>8, <1>9

LEMMA LinkOwnRegistered ==
  ASSUME Registered, ~overlap, NEW t \in Callers, Q!LinkOwn(t)
  PROVE  Registered'
<1> USE DEF Registered
<1> DEFINE q == call[t].q
<1>1. /\ call[t].pc = "next" /\ Q!Goto(t, "forward")
      /\ forward' = [forward EXCEPT ![q] = first]
      /\ back' = [back EXCEPT ![q] = back[first]]
      /\ UNCHANGED <<first, made, overlap, places, marks, only, held>>
  BY DEF Q!LinkOwn, Q!At, Q!marks, Q!OwnPrevious
<1>2. /\ "forward" \in Owning /\ "next" \in Owning /\ "next" \in Q!Linking
      /\ "forward" \in Q!Linking /\ "forward" \notin Q!Unlinking
  BY DEF Owning, Working, Q!Linking, Q!Unlinking
<1>3. /\ call' \in [Callers -> [pc : Steps, q : Places \cup {NULL}]]
      /\ call'[t].pc = "forward" /\ call'[t].q = q
      /\ \A u \in Callers \ {t} : call'[u] = call[u]
      /\ q \in Places
      /\ \A u \in Callers : call'[u].pc # "idle" => call'[u].q \in Places
  BY <1>1, <1>2, GoesOn
<1>4. made # <<>> /\ first \in Members /\ first \in Places
  BY <1>1, FirstMember DEF Sight, Seen
<1>5. RegistryType'
  BY <1>1, <1>3, <1>4 DEF RegistryType
<1>6. Members' = Members
  BY <1>1, MembersKept
<1>7. Ownership'
  BY <1>1, <1>2, <1>3, <1>6 DEF Ownership
<1>8. q \notin Members
  BY <1>1, <1>2 DEF Ownership
<1>9. \A x \in Places \ {q} : forward'[x] = forward[x] /\ back'[x] = back[x]
  BY <1>1 DEF RegistryType
<1>10. Members \subseteq Places
  BY DEF Members, RegistryType
<1>11. Shape'
  BY <1>1, <1>3, <1>8, <1>9, <1>10, ShapeKept DEF Changed
<1>12. Sight'
  <2>1. Seen(t)'
    <3>1. forward'[q] = first /\ back'[q] = back[first]
      BY <1>1, <1>3 DEF RegistryType
    <3>2. back'[first] = back[first]
      BY <1>4, <1>8, <1>9
    <3> QED
      BY <1>1, <1>3, <1>4, <3>1, <3>2 DEF Seen
  <2>2. ASSUME NEW u \in Callers \ {t} PROVE Seen(u)'
    <3>1. Seen(u)
      BY DEF Sight
    <3>2. CASE call[u].pc \in {"forward", "back", "step"}
      <4>1. call[u].q \in Places /\ call[u].q # q
        BY <1>1, <1>2, <3>2
        DEF RegistryType, Ownership, Owning, Working, Q!Linking, Q!Unlinking
      <4>2. /\ forward'[call[u].q] = forward[call[u].q]
            /\ back'[call[u].q] = back[call[u].q]
            /\ back'[first] = back[first]
        BY <1>4, <1>8, <1>9, <4>1
      <4> QED
        BY <1>1, <1>3, <3>1, <4>2 DEF Seen
    <3>3. CASE call[u].pc \notin {"forward", "back", "step"}
      BY <1>1, <1>3, <3>1, <3>3 DEF Seen
    <3> QED
      BY <3>2, <3>3
  <2> QED
    BY <2>1, <2>2 DEF Sight
<1>13. Refusing'
  <2>1. \A x \in Places : Covered(x) => Covered(x)'
    BY <1>1, <1>2, <1>3, <1>6, CoverKept
  <2>2. \A u \in Callers : call'[u].pc = "release" =>
          call[u].pc = "release" /\ call'[u].q = call[u].q
    BY <1>1, <1>3
  <2> QED
    BY <1>1, <2>1, <2>2, RefusingKept
<1> QED
  BY <1>5, <1>7, <1>11, <1>12, <1>13

LEMMA ReadyRegistered ==
  ASSUME Registered, ~overlap, NEW t \in Callers, Q!Ready(t)
  PROVE  Registered'
<1> USE DEF Registered
<1>1. /\ call[t].pc = "ready"
      /\ marks' = [marks EXCEPT ![call[t].q] = "READY"]
      /\ call' = [call EXCEPT ![t] = Q!Idle]
      /\ UNCHANGED <<first, forward, back, made, overlap, places, only, held>>
  BY DEF Q!Ready, Q!At, Q!links, Q!marks
<1>2. /\ call' \in [Callers -> [pc : Steps, q : Places \cup {NULL}]]
      /\ call'[t].pc = "idle"
      /\ \A u \in Callers \ {t} : call'[u] = call[u]
      /\ \A u \in Callers : call'[u].pc # "idle" => call'[u].q \in Places
  BY <1>1, EndsIdle
<1>3. RegistryType'
  BY <1>1, <1>2 DEF RegistryType, Q!States
<1>4. Members' = Members
  BY <1>1, MembersKept
<1>5. "idle" \notin Owning
  BY DEF Owning, Working, Q!Linking, Q!Unlinking
<1>6. Ownership'
  BY <1>1, <1>2, <1>4, <1>5
  DEF Ownership, Owning, Working, Q!Linking, Q!Unlinking
<1>7. Shape'
  BY <1>1, <1>2, ShapeKept DEF Changed
<1>8. Sight'
  <2>1. Seen(t)'
    BY <1>2 DEF Seen
  <2> QED
    BY <1>1, <1>2, <2>1, SightKept
<1>9. Refusing'
  <2>1. PICK q \in Places : q = call[t].q /\ q \in Members
    BY <1>1 DEF RegistryType, Ownership
  <2>2. ASSUME NEW x \in Places, Covered(x) PROVE Covered(x)'
    <3>1. CASE x \in Members \cup only \cup held
      BY <1>1, <1>4, <3>1 DEF Covered
    <3>2. CASE x \notin Members /\ Q!Busy(x)
      <4>1. PICK u \in Callers : call[u].q = x /\ call[u].pc \in Owning
        BY <3>2 DEF Q!Busy, Owning, Working
      <4>2. u # t
        BY <2>1, <3>2, <4>1
      <4> QED
        BY <1>2, <4>1, <4>2 DEF Covered, Q!Busy, Owning, Working
    <3> QED
      BY <2>2, <3>1, <3>2 DEF Covered
  <2>3. \A x \in Places : marks'[x] = marks[x] \/ Covered(x)'
    BY <1>1, <1>4, <2>1 DEF RegistryType, Covered
  <2>4. \A u \in Callers : call'[u].pc = "release" =>
          call[u].pc = "release" /\ call'[u].q = call[u].q
    BY <1>2
  <2> QED
    BY <2>2, <2>3, <2>4, RefusingKept
<1> QED
  BY <1>3, <1>6, <1>7, <1>8, <1>9

LEMMA FreeRegistered ==
  ASSUME Registered, ~overlap, NEW t \in Callers, Q!Free(t)
  PROVE  Registered'
<1> USE DEF Registered
<1>1. PICK q \in Places : q = call[t].q
  BY DEF Q!Free, Q!At, RegistryType
<1>2. /\ call[t].pc = "free"
      /\ marks' = [marks EXCEPT ![q] = "DELETED"]
      /\ places' = IF q = OsQueue THEN places ELSE places \ {q}
      /\ held' = IF Q!Users(q) # {} THEN held \cup {q} ELSE held
      /\ call' = [call EXCEPT ![t] = Q!Idle]
      /\ UNCHANGED <<first, forward, back, made, overlap, only>>
  BY <1>1 DEF Q!Free, Q!At, Q!links, Q!Freed, Q!AtEnd
<1>3. /\ call' \in [Callers -> [pc : Steps, q : Places \cup {NULL}]]
      /\ call'[t].pc = "idle"
      /\ \A u \in Callers \ {t} : call'[u] = call[u]
      /\ \A u \in Callers : call'[u].pc # "idle" => call'[u].q \in Places
  BY <1>2, EndsIdle
<1>4. RegistryType'
  BY <1>2, <1>3 DEF RegistryType, Q!States
<1>5. Members' = Members
  BY <1>2, MembersKept
<1>6. /\ "idle" \notin Owning /\ "free" \in Owning
      /\ "idle" \notin Q!Linking \cup Q!Unlinking
  BY DEF Owning, Working, Q!Linking, Q!Unlinking
<1>7. q \notin Members /\ \A u \in Callers \ {t} :
        call[u].pc \in Owning => call[u].q # q
  BY <1>1, <1>2, <1>6 DEF Ownership
<1>8. Ownership'
  BY <1>2, <1>3, <1>5, <1>6, <1>7 DEF Ownership
<1>9. Shape'
  BY <1>2, <1>3, ShapeKept DEF Changed
<1>10. Sight'
  <2>1. Seen(t)'
    BY <1>3 DEF Seen
  <2> QED
    BY <1>2, <1>3, <2>1, SightKept
<1>11. held \subseteq held'
  BY <1>2
<1>12. ASSUME NEW x \in Places \ {q}, Covered(x) PROVE Covered(x)'
  <2>1. CASE x \in Members \cup only \cup held
    BY <1>2, <1>5, <1>11, <2>1 DEF Covered
  <2>2. CASE Q!Busy(x)
    <3>1. PICK u \in Callers : call[u].q = x /\ call[u].pc \in Owning
      BY <2>2 DEF Q!Busy, Owning, Working
    <3>2. u # t
      BY <1>1, <3>1
    <3> QED
      BY <1>3, <3>1, <3>2 DEF Covered, Q!Busy, Owning, Working
  <2> QED
    BY <1>12, <2>1, <2>2 DEF Covered
<1>13. Refusing'
  <2>1. ASSUME NEW x \in Places
        PROVE  Covered(x)' \/ marks'[x] \in {"DELETED", "none"}
    <3>1. CASE x = q
      BY <1>2, <3>1 DEF RegistryType
    <3>2. CASE x # q
      <4>1. marks'[x] = marks[x]
        BY <1>2, <3>2 DEF RegistryType
      <4> QED
        BY <1>12, <3>2, <4>1 DEF Refusing
    <3> QED
      BY <3>1, <3>2
  <2>2. ASSUME NEW u \in Callers, call'[u].pc = "release"
        PROVE  Covered(call[u].q)'
    <3>1. u # t /\ call'[u] = call[u] /\ call[u].pc = "release"
      BY <1>3, <2>2
    <3>2. PICK x \in Places : x = call[u].q /\ Covered(x)
      BY <3>1 DEF RegistryType, Refusing
    <3>3. CASE x = q
      <4>1. call[u] \in [pc : Steps, q : Places \cup {NULL}]
        BY DEF RegistryType
      <4>2. call[u] = [pc |-> "release", q |-> q]
        BY <3>1, <3>2, <3>3, <4>1
      <4>3. x \in held'
        BY <1>2, <3>3, <4>2 DEF Q!Users
      <4>4. call'[u].q = x
        BY <3>1, <3>2
      <4> QED
        BY <4>3, <4>4 DEF Covered
    <3>4. CASE x # q
      <4>1. Covered(x)' /\ call'[u].q = x
        BY <1>12, <3>1, <3>2, <3>4
      <4> QED
        BY <4>1 DEF Covered, Q!Busy
    <3> QED
      BY <3>3, <3>4
  <2> QED
    BY <2>1, <2>2 DEF Refusing
<1> QED
  BY <1>4, <1>8, <1>9, <1>10, <1>13

-----------------------------------------------------------------------------
\* Steps that change the list.  If they leave overlap FALSE, nobody else is
\* linking or unlinking.

Alone(t) == \A u \in Callers \ {t} : call[u].pc \notin Working

LEMMA OverlapsUnlessAlone ==
  ASSUME NEW t \in Callers, ~overlap, Q!Overlaps(t)
  PROVE  overlap' \in BOOLEAN /\ (overlap' \/ Alone(t))
BY DEF Q!Overlaps, Alone, Working

LEMMA AloneSight ==
  ASSUME NEW t \in Callers, \A u \in Callers \ {t} : call'[u] = call[u],
         overlap' \/ Alone(t), ~overlap' => Seen(t)'
  PROVE  Sight'
<1> SUFFICES ASSUME ~overlap', NEW u \in Callers PROVE Seen(u)'
    BY DEF Sight
<1>1. CASE u # t
  <2>1. call'[u].pc \notin Working
    BY <1>1 DEF Alone
  <2> QED
    BY <2>1 DEF Seen, Working, Q!Linking, Q!Unlinking
<1> QED
  BY <1>1

LEMMA AloneShape ==
  ASSUME NEW t \in Callers, \A u \in Callers \ {t} : call'[u] = call[u],
         overlap' \/ Alone(t),
         ~overlap' =>
           /\ Backward'
           /\ ~Changed(t)' => Whole'
           /\ Changed(t)' => /\ call'[t].pc = "back" => LinkedForward(t)'
                             /\ call'[t].pc = "around" => Stepped'
                             /\ call'[t].pc = "around_back" => Bypassed(t)'
  PROVE  Shape'
<1> SUFFICES ASSUME ~overlap'
             PROVE  /\ Backward'
                    /\ (\A v \in Callers : ~Changed(v)') => Whole'
                    /\ \A v \in Callers : Changed(v)' =>
                         /\ \A u \in Callers \ {v} : ~Changed(u)'
                         /\ call'[v].pc = "back" => LinkedForward(v)'
                         /\ call'[v].pc = "around" => Stepped'
                         /\ call'[v].pc = "around_back" => Bypassed(v)'
    BY DEF Shape
<1>1. ASSUME NEW u \in Callers \ {t} PROVE ~Changed(u)'
  <2>1. call'[u].pc \notin Working
    BY DEF Alone
  <2> QED
    BY <2>1 DEF Changed, Working, Q!Linking, Q!Unlinking
<1> QED
  BY <1>1

LEMMA AlonePicture ==
  ASSUME NEW t \in Callers, ~overlap, Shape, Alone(t)
  PROVE  /\ Backward
         /\ ~Changed(t) => Whole
         /\ Changed(t) => /\ call[t].pc = "back" => LinkedForward(t)
                          /\ call[t].pc = "around" => Stepped
                          /\ call[t].pc = "around_back" => Bypassed(t)
<1>1. ASSUME NEW u \in Callers \ {t} PROVE ~Changed(u)
  <2>1. call[u].pc \notin Working
    BY DEF Alone
  <2> QED
    BY <2>1 DEF Changed, Working, Q!Linking, Q!Unlinking
<1> QED
  BY <1>1 DEF Shape

\* The links change, the list does not.
LEMMA OnlyLinksChange ==
  ASSUME Registered, ~overlap, NEW t \in Callers, NEW to, NEW old,
         call[t].pc = old, Q!Goto(t, to), Q!Overlaps(t),
         \/ old \in Q!Linking /\ to \in Q!Linking
         \/ old \in Q!Unlinking /\ to \in Q!Unlinking,
         UNCHANGED <<made, places, marks, only, held>>,
         first' \in Places \cup {NULL},
         forward' \in [Places -> Places \cup {NULL}],
         back' \in [Places -> Places \cup {NULL}]
  PROVE  /\ RegistryType' /\ Ownership' /\ Refusing'
         /\ call'[t].pc = to /\ call'[t].q = call[t].q
         /\ \A u \in Callers \ {t} : call'[u] = call[u]
         /\ overlap' \/ Alone(t)
<1> USE DEF Registered
<1>1. to \in Owning /\ old \in Owning /\ to # "release" /\ old # "idle"
  BY DEF Owning, Working, Q!Linking, Q!Unlinking
<1>2. /\ call' \in [Callers -> [pc : Steps, q : Places \cup {NULL}]]
      /\ call'[t].pc = to /\ call'[t].q = call[t].q
      /\ \A u \in Callers \ {t} : call'[u] = call[u]
      /\ \A u \in Callers : call'[u].pc # "idle" => call'[u].q \in Places
  BY <1>1, GoesOn
<1>3. overlap' \in BOOLEAN /\ (overlap' \/ Alone(t))
  BY OverlapsUnlessAlone
<1>4. RegistryType'
  BY <1>2, <1>3 DEF RegistryType
<1>5. Members' = Members
  BY MembersKept
<1>6. /\ to \in Q!Linking \cup {"free"} => old \in Q!Linking
      /\ to \in Q!Unlinking \cup {"ready"} => old \in Q!Unlinking
  BY DEF Q!Linking, Q!Unlinking
<1>7. Ownership'
  BY <1>1, <1>2, <1>5, <1>6 DEF Ownership
<1>8. Refusing'
  <2>1. \A x \in Places : Covered(x) => Covered(x)'
    BY <1>1, <1>2, <1>5, CoverKept
  <2>2. \A u \in Callers : call'[u].pc = "release" =>
          call[u].pc = "release" /\ call'[u].q = call[u].q
    BY <1>1, <1>2
  <2> QED
    BY <2>1, <2>2, RefusingKept
<1> QED
  BY <1>2, <1>3, <1>4, <1>7, <1>8

LEMMA BehindType ==
  ASSUME RegistryType
  PROVE  /\ Len(made) \in Nat
         /\ \A i \in 1 .. Len(made) : made[i] \in Places /\ made[i] \in Members
         /\ \A i \in 1 .. Len(made) : Behind(i) \in 1 .. Len(made)
         /\ \A i, j \in 1 .. Len(made) : Behind(i) = Behind(j) => i = j
         /\ made = <<>> <=> Len(made) = 0
BY DEF RegistryType, Behind, Members

LEMMA LinkForwardRegistered ==
  ASSUME Registered, ~overlap, NEW t \in Callers, Q!LinkForward(t)
  PROVE  Registered'
<1> USE DEF Registered
<1>1. PICK q \in Places : q = call[t].q
  BY DEF Q!LinkForward, Q!At, RegistryType
<1>2. /\ call[t].pc = "forward" /\ Q!Goto(t, "back") /\ Q!Overlaps(t)
      /\ forward' = [forward EXCEPT ![back[first]] = q]
      /\ UNCHANGED <<first, back, made, places, marks, only, held>>
  BY <1>1 DEF Q!LinkForward, Q!At
<1>3. "forward" \in Q!Linking /\ "back" \in Q!Linking
  BY DEF Q!Linking
<1>4. /\ first' \in Places \cup {NULL}
      /\ forward' \in [Places -> Places \cup {NULL}]
      /\ back' \in [Places -> Places \cup {NULL}]
  BY <1>2 DEF RegistryType
<1>5. /\ RegistryType' /\ Ownership' /\ Refusing'
      /\ call'[t].pc = "back" /\ call'[t].q = q
      /\ \A u \in Callers \ {t} : call'[u] = call[u]
      /\ overlap' \/ Alone(t)
  BY <1>1, <1>2, <1>3, <1>4, OnlyLinksChange
<1>6. ASSUME Alone(t) PROVE Seen(t)' /\ Backward' /\ LinkedForward(t)'
  <2>1. ~Changed(t) /\ Backward /\ Whole
    BY <1>2, <1>6, AlonePicture DEF Changed
  <2>2. made # <<>> /\ forward[q] = first /\ back[q] = back[first]
    BY <1>1, <1>2 DEF Sight, Seen
  <2>3. Len(made) \in Nat \ {0} /\ first = made[1]
    BY <2>1, <2>2, BehindType DEF Whole
  <2>4. back[first] = made[Len(made)]
    BY <2>1, <2>3 DEF Backward, Behind
  <2>5. q \notin Members /\ made[Len(made)] \in Members
    BY <1>1, <1>2, <1>3, <2>3, BehindType DEF Ownership
  <2>6. forward' = [forward EXCEPT ![made[Len(made)]] = q]
    BY <1>2, <2>4
  <2>7. forward'[q] = first
    BY <2>2, <2>5, <2>6 DEF RegistryType
  <2>8. Seen(t)'
    BY <1>2, <1>5, <2>2, <2>7 DEF Seen
  <2>9. forward'[made[Len(made)]] = q
    BY <2>3, <2>6, BehindType DEF RegistryType
  <2>10. ASSUME NEW i \in 1 .. Len(made) - 1
         PROVE  forward'[made[i]] = made[i + 1]
    <3>1. made[i] # made[Len(made)] /\ made[i] \in Places
      BY SMTT(30), <2>3, BehindType DEF Ownership
    <3>2. forward[made[i]] = made[i + 1]
      BY <2>1, <2>3 DEF Whole, Behind
    <3> QED
      BY <2>6, <3>1, <3>2 DEF RegistryType
  <2> QED
    BY <1>2, <1>5, <2>1, <2>3, <2>8, <2>9, <2>10
    DEF LinkedForward, Backward, Behind
<1>7. Sight' /\ Shape'
  BY <1>5, <1>6, AloneSight, AloneShape DEF Changed
<1> QED
  BY <1>5, <1>7

\* A new queue joins the list.
LEMMA JoinKeeps ==
  ASSUME Registered, ~overlap, NEW t \in Callers, NEW q \in Places,
         q = call[t].q, call[t].pc \in Q!Linking,
         Q!Goto(t, "ready"), Q!Overlaps(t), made' = Append(made, q),
         UNCHANGED <<places, marks, only, held>>,
         first' \in Places \cup {NULL},
         forward' \in [Places -> Places \cup {NULL}],
         back' \in [Places -> Places \cup {NULL}]
  PROVE  /\ RegistryType' /\ Ownership' /\ Refusing' /\ Sight'
         /\ call'[t].pc = "ready" /\ ~Changed(t)'
         /\ \A u \in Callers \ {t} : call'[u] = call[u]
         /\ overlap' \/ Alone(t)
         /\ q \notin Members
<1> USE DEF Registered
<1>1. /\ "ready" \in Owning /\ call[t].pc \in Owning /\ call[t].pc # "idle"
      /\ "ready" \notin Q!Linking \cup {"free"}
  BY DEF Owning, Working, Q!Linking, Q!Unlinking
<1>2. /\ call' \in [Callers -> [pc : Steps, q : Places \cup {NULL}]]
      /\ call'[t].pc = "ready" /\ call'[t].q = call[t].q
      /\ \A u \in Callers \ {t} : call'[u] = call[u]
      /\ \A u \in Callers : call'[u].pc # "idle" => call'[u].q \in Places
  BY <1>1, GoesOn
<1>3. overlap' \in BOOLEAN /\ (overlap' \/ Alone(t))
  BY OverlapsUnlessAlone
<1>4. /\ made' \in Seq(Places) /\ Len(made') = Len(made) + 1
      /\ \A i \in 1 .. Len(made) : made'[i] = made[i]
      /\ made'[Len(made) + 1] = q
      /\ Members' = Members \cup {q}
  BY JoinView DEF RegistryType
<1>5. RegistryType'
  BY <1>2, <1>3, <1>4 DEF RegistryType
<1>6. q \notin Members /\ q \in places
  BY <1>1 DEF Ownership
<1>7. Ownership'
  <2>1. \A u, v \in Callers :
          call'[u].pc \in Owning /\ call'[v].pc \in Owning /\ u # v
            => call'[u].q # call'[v].q
    BY <1>1, <1>2 DEF Ownership
  <2>2. \A u \in Callers : call'[u].pc \in Owning => call'[u].q \in places'
    BY <1>1, <1>2 DEF Ownership
  <2>3. ASSUME NEW i \in 1 .. Len(made) + 1, NEW j \in 1 .. Len(made) + 1,
               made'[i] = made'[j]
        PROVE  i = j
    <3>1. Len(made) \in Nat /\ \A k \in 1 .. Len(made) : made[k] \in Members
      BY BehindType
    <3>2. CASE i \in 1 .. Len(made) /\ j \in 1 .. Len(made)
      BY <1>4, <2>3, <3>2 DEF Ownership
    <3>3. CASE i \in 1 .. Len(made) /\ j = Len(made) + 1
      BY <1>4, <1>6, <2>3, <3>1, <3>3
    <3>4. CASE i = Len(made) + 1 /\ j \in 1 .. Len(made)
      BY <1>4, <1>6, <2>3, <3>1, <3>4
    <3> QED
      BY <3>1, <3>2, <3>3, <3>4
  <2>4. \A u \in Callers :
          call'[u].pc \in Q!Linking \cup {"free"} => call'[u].q \notin Members'
    <3>1. \A u \in Callers \ {t} : call'[u].pc \in Owning => call'[u].q # q
      BY <1>1, <1>2, <2>1
    <3> QED
      BY <1>1, <1>2, <1>4, <3>1 DEF Ownership, Owning, Working
  <2>5. \A u \in Callers :
          ~overlap' /\ call'[u].pc \in Q!Unlinking \cup {"ready"}
            => call'[u].q \in Members'
    BY <1>2, <1>4 DEF Ownership
  <2>6. Members' \subseteq places'
    BY <1>4, <1>6 DEF Ownership
  <2>7. \A i, j \in 1 .. Len(made') : made'[i] = made'[j] => i = j
    BY <1>4, <2>3
  <2> QED
    BY <2>1, <2>2, <2>4, <2>5, <2>6, <2>7 DEF Ownership
<1>8. Refusing'
  <2>1. \A x \in Places : Covered(x) => Covered(x)'
    BY <1>1, <1>2, <1>4 DEF Covered, Q!Busy, Owning, Working
  <2>2. \A u \in Callers : call'[u].pc = "release" =>
          call[u].pc = "release" /\ call'[u].q = call[u].q
    BY <1>2
  <2> QED
    BY <2>1, <2>2, RefusingKept
<1>9. Seen(t)' /\ ~Changed(t)'
  BY <1>2 DEF Seen, Changed
<1> QED
  BY <1>2, <1>3, <1>5, <1>6, <1>7, <1>8, <1>9, AloneSight

LEMMA LinkBackRegistered ==
  ASSUME Registered, ~overlap, NEW t \in Callers, Q!LinkBack(t)
  PROVE  Registered'
<1> USE DEF Registered
<1>1. PICK q \in Places : q = call[t].q
  BY DEF Q!LinkBack, Q!At, RegistryType
<1>2. /\ call[t].pc = "back" /\ Q!Goto(t, "ready") /\ Q!Overlaps(t)
      /\ back' = [back EXCEPT ![first] = q] /\ made' = Append(made, q)
      /\ UNCHANGED <<first, forward, places, marks, only, held>>
  BY <1>1 DEF Q!LinkBack, Q!At, Q!BackTo
<1>3. call[t].pc \in Q!Linking
  BY <1>2 DEF Q!Linking
<1>4. /\ first' \in Places \cup {NULL}
      /\ forward' \in [Places -> Places \cup {NULL}]
      /\ back' \in [Places -> Places \cup {NULL}]
  BY <1>2 DEF RegistryType
<1>5. /\ RegistryType' /\ Ownership' /\ Refusing' /\ Sight'
      /\ ~Changed(t)' /\ q \notin Members
      /\ \A u \in Callers \ {t} : call'[u] = call[u]
      /\ overlap' \/ Alone(t)
  BY <1>1, <1>2, <1>3, <1>4, JoinKeeps
<1>6. ASSUME Alone(t) PROVE Backward' /\ Whole'
  <2>1. Backward /\ LinkedForward(t)
    BY <1>2, <1>6, AlonePicture DEF Changed
  <2>2. forward[q] = first /\ back[q] = back[first]
    BY <1>1, <1>2 DEF Sight, Seen
  <2>3. /\ Len(made) \in Nat \ {0} /\ first = made[1]
        /\ forward[made[Len(made)]] = q
        /\ \A i \in 1 .. Len(made) - 1 : forward[made[i]] = made[i + 1]
    BY <1>1, <2>1, BehindType DEF LinkedForward
  <2>4. /\ made' \in Seq(Places) /\ Len(made') = Len(made) + 1
        /\ \A i \in 1 .. Len(made) : made'[i] = made[i]
        /\ made'[Len(made) + 1] = q
    BY <1>2, JoinView DEF RegistryType
  <2>5. Whole'
    <3>1. ASSUME NEW i \in 1 .. Len(made) + 1
          PROVE  forward[made'[i]] = made'[IF i = Len(made) + 1 THEN 1 ELSE i + 1]
      <4>1. CASE i < Len(made)
        BY <2>3, <2>4, <4>1
      <4>2. CASE i = Len(made)
        BY <2>3, <2>4, <4>2
      <4>3. CASE i = Len(made) + 1
        BY <2>2, <2>3, <2>4, <4>3
      <4> QED
        BY <2>3, <4>1, <4>2, <4>3
    <3>2. made' # <<>> /\ first = made'[1]
      BY <2>3, <2>4
    <3> QED
      BY <1>2, <2>4, <3>1, <3>2 DEF Whole, Behind
  <2>6. Backward'
    <3>1. back[made[1]] = made[Len(made)]
      BY <2>1, <2>3 DEF Backward, Behind
    <3>2. q # made[1] /\ made[1] \in Places
      BY <1>5, <2>3, BehindType
    <3>3. back'[q] = made[Len(made)] /\ back'[made[1]] = q
      BY <1>2, <2>2, <2>3, <3>1, <3>2 DEF RegistryType
    <3>4. ASSUME NEW i \in 1 .. Len(made) + 1
          PROVE  back'[made'[IF i = Len(made) + 1 THEN 1 ELSE i + 1]] = made'[i]
      <4>1. CASE i < Len(made)
        <5>1. i + 1 \in 1 .. Len(made) /\ 1 \in 1 .. Len(made) /\ i + 1 # 1
          BY <2>3, <4>1
        <5>2. made[i + 1] # made[1]
          BY <5>1 DEF Ownership
        <5>3. back[made[i + 1]] = made[i]
          BY <2>1, <2>3, <4>1 DEF Backward, Behind
        <5>4. made[i + 1] \in Places
          BY <5>1, BehindType
        <5>5. back'[made[i + 1]] = made[i]
          BY <1>2, <2>3, <5>2, <5>3, <5>4 DEF RegistryType
        <5> QED
          BY <2>3, <2>4, <4>1, <5>1, <5>5
      <4>2. CASE i = Len(made)
        BY <2>3, <2>4, <3>3, <4>2
      <4>3. CASE i = Len(made) + 1
        BY <2>3, <2>4, <3>3, <4>3
      <4> QED
        BY <2>3, <4>1, <4>2, <4>3
    <3> QED
      BY <2>4, <3>4 DEF Backward, Behind
  <2> QED
    BY <2>5, <2>6
<1>7. Shape'
  BY <1>5, <1>6, AloneShape
<1> QED
  BY <1>5, <1>7

LEMMA LinkAloneRegistered ==
  ASSUME Registered, ~overlap, NEW t \in Callers, Q!LinkAlone(t)
  PROVE  Registered'
<1> USE DEF Registered
<1>1. PICK q \in Places : q = call[t].q
  BY DEF Q!LinkAlone, Q!At, RegistryType
<1>2. /\ call[t].pc = "alone" /\ Q!Goto(t, "ready") /\ Q!Overlaps(t)
      /\ first' = q
      /\ forward' = [forward EXCEPT ![q] = q] /\ back' = [back EXCEPT ![q] = q]
      /\ made' = Append(made, q)
      /\ UNCHANGED <<places, marks, only, held>>
  BY <1>1 DEF Q!LinkAlone, Q!At
<1>3. call[t].pc \in Q!Linking
  BY <1>2 DEF Q!Linking
<1>4. /\ first' \in Places \cup {NULL}
      /\ forward' \in [Places -> Places \cup {NULL}]
      /\ back' \in [Places -> Places \cup {NULL}]
  BY <1>2 DEF RegistryType
<1>5. /\ RegistryType' /\ Ownership' /\ Refusing' /\ Sight'
      /\ ~Changed(t)'
      /\ \A u \in Callers \ {t} : call'[u] = call[u]
      /\ overlap' \/ Alone(t)
  BY <1>1, <1>2, <1>3, <1>4, JoinKeeps
<1>6. Len(made) = 0
  BY <1>2 DEF Sight, Seen
<1>7. made' \in Seq(Places) /\ Len(made') = 1 /\ made'[1] = q /\ made' # <<>>
  BY SMTT(30), <1>2, <1>6, JoinView DEF RegistryType
<1>8. forward'[q] = q /\ back'[q] = q
  BY <1>2 DEF RegistryType
<1>9. \A i \in 1 .. 1 : i = 1
  OBVIOUS
<1>10. Backward' /\ Whole'
  BY <1>2, <1>7, <1>8, <1>9 DEF Backward, Whole, Behind
<1>11. Shape'
  BY <1>5, <1>10, AloneShape
<1> QED
  BY <1>5, <1>11

LEMMA StepRegistered ==
  ASSUME Registered, ~overlap, NEW t \in Callers, Q!Step(t)
  PROVE  Registered'
<1> USE DEF Registered
<1>1. PICK q \in Places : q = call[t].q
  BY DEF Q!Step, Q!At, RegistryType
<1>2. /\ call[t].pc = "step" /\ Q!Goto(t, "around") /\ Q!Overlaps(t)
      /\ first' = forward[q]
      /\ UNCHANGED <<forward, back, made, places, marks, only, held>>
  BY <1>1 DEF Q!Step, Q!At, Q!StepTo
<1>3. "step" \in Q!Unlinking /\ "around" \in Q!Unlinking
  BY DEF Q!Unlinking
<1>4. /\ first' \in Places \cup {NULL}
      /\ forward' \in [Places -> Places \cup {NULL}]
      /\ back' \in [Places -> Places \cup {NULL}]
  BY <1>2 DEF RegistryType
<1>5. /\ RegistryType' /\ Ownership' /\ Refusing'
      /\ call'[t].pc = "around" /\ call'[t].q = q
      /\ \A u \in Callers \ {t} : call'[u] = call[u]
      /\ overlap' \/ Alone(t)
  BY <1>1, <1>2, <1>3, <1>4, OnlyLinksChange
<1>6. ASSUME Alone(t) PROVE Backward' /\ Changed(t)' /\ Stepped'
  <2>1. Backward /\ Whole
    BY <1>2, <1>6, AlonePicture DEF Changed
  <2>2. first = q /\ forward[q] # q
    BY <1>1, <1>2 DEF Sight, Seen
  <2>3. made # <<>>
    BY <1>1, <1>2, <1>3, BehindType DEF Ownership, Members
  <2>4. Len(made) \in Nat \ {0} /\ made[1] = q
    BY <2>1, <2>2, <2>3, BehindType DEF Whole
  <2>5. Len(made) # 1
    BY <2>1, <2>2, <2>4 DEF Whole, Behind
  <2>6. forward[q] = made[2]
    <3>1. 1 \in 1 .. Len(made) /\ Behind(1) = 2
      BY <2>4, <2>5 DEF Behind
    <3>2. forward[made[1]] = made[Behind(1)]
      BY <2>1, <3>1 DEF Whole
    <3> QED
      BY <2>4, <3>1, <3>2
  <2>7. Backward'
    BY <1>2, <2>1 DEF Backward, Behind
  <2>8. Changed(t)'
    BY <1>2, <1>5, <2>3, <2>4 DEF Changed
  <2>9. \A i \in 1 .. Len(made) : forward[made[i]] = made[Behind(i)]
    BY <2>1 DEF Whole
  <2>10. Stepped'
    <3>1. Len(made) > 1
      <4>1. Len(made) \in Nat /\ Len(made) # 0 /\ Len(made) # 1
        BY <2>4, <2>5
      <4>2. \A n \in Nat : n # 0 /\ n # 1 => n > 1
        OBVIOUS
      <4> QED
        BY <4>1, <4>2
    <3>2. first' = made'[2] /\ made' = made /\ forward' = forward
      BY <1>2, <2>6
    <3>3. \A i \in 1 .. Len(made) :
            forward[made[i]] = made[IF i = Len(made) THEN 1 ELSE i + 1]
      BY <2>9 DEF Behind
    <3> QED
      BY <3>1, <3>2, <3>3 DEF Stepped, Behind
  <2> QED
    BY <2>7, <2>8, <2>10
<1>7. Sight' /\ Shape'
  <2>1. Seen(t)'
    BY <1>5 DEF Seen
  <2> QED
    BY <1>5, <1>6, <2>1, AloneSight, AloneShape
<1> QED
  BY <1>5, <1>7

LEMMA AroundRegistered ==
  ASSUME Registered, ~overlap, NEW t \in Callers, Q!Around(t)
  PROVE  Registered'
<1> USE DEF Registered
<1>1. PICK q \in Places : q = call[t].q
  BY DEF Q!Around, Q!At, RegistryType
<1>2. /\ call[t].pc = "around" /\ Q!Goto(t, "around_back") /\ Q!Overlaps(t)
      /\ forward' = [forward EXCEPT ![back[q]] = forward[q]]
      /\ UNCHANGED <<first, back, made, places, marks, only, held>>
  BY <1>1 DEF Q!Around, Q!At
<1>3. "around" \in Q!Unlinking /\ "around_back" \in Q!Unlinking
  BY DEF Q!Unlinking
<1>4. /\ first' \in Places \cup {NULL}
      /\ forward' \in [Places -> Places \cup {NULL}]
      /\ back' \in [Places -> Places \cup {NULL}]
  BY <1>2 DEF RegistryType
<1>5. /\ RegistryType' /\ Ownership' /\ Refusing'
      /\ call'[t].pc = "around_back" /\ call'[t].q = q
      /\ \A u \in Callers \ {t} : call'[u] = call[u]
      /\ overlap' \/ Alone(t)
  BY <1>1, <1>2, <1>3, <1>4, OnlyLinksChange
<1>6. ASSUME Alone(t) PROVE Backward' /\ Bypassed(t)'
  <2>1. PICK k \in 1 .. Len(made) : made[k] = q
    BY <1>1, <1>2, <1>3 DEF Ownership, Members
  <2>2. /\ Backward /\ made # <<>>
        /\ ~Changed(t) => Whole
        /\ Changed(t) => Stepped
    BY <1>2, <1>6, <2>1, AlonePicture, BehindType
  <2>3. /\ Len(made) > 1
        /\ first = IF k = 1 THEN made[2] ELSE made[1]
        /\ \A i \in 1 .. Len(made) : forward[made[i]] = made[Behind(i)]
    <3>1. CASE k = 1
      BY <1>1, <1>2, <2>1, <2>2, <3>1 DEF Changed, Stepped
    <3>2. CASE k # 1
      <4>1. 1 \in 1 .. Len(made) /\ Len(made) > 1
        BY <2>1, <3>2, BehindType
      <4>2. made[1] # q
        BY <2>1, <3>2, <4>1 DEF Ownership
      <4>3. Whole
        BY <1>1, <1>2, <2>2, <4>2 DEF Changed
      <4> QED
        BY <2>2, <3>2, <4>1, <4>3 DEF Whole
    <3> QED
      BY <3>1, <3>2
  <2>4. PICK j \in 1 .. Len(made) : Behind(j) = k
    <3>1. CASE k = 1
      <4>1. Len(made) \in 1 .. Len(made) /\ Behind(Len(made)) = 1
        BY <2>1, BehindType DEF Behind
      <4> QED
        BY <3>1, <4>1
    <3>2. CASE k # 1
      <4>1. k - 1 \in 1 .. Len(made) /\ Behind(k - 1) = k
        BY <2>1, <3>2, BehindType DEF Behind
      <4> QED
        BY <4>1
    <3> QED
      BY <3>1, <3>2
  <2>5. back[q] = made[j]
    BY <2>1, <2>2, <2>4 DEF Backward
  <2>6. forward' = [forward EXCEPT ![made[j]] = made[Behind(k)]]
    BY <1>2, <2>1, <2>3, <2>5
  <2>7. ASSUME NEW i \in 1 .. Len(made)
        PROVE  forward'[made[i]] = made[Behind(IF Behind(i) = k THEN k ELSE i)]
    <3>1. CASE i = j
      BY <2>4, <2>6, <3>1, BehindType DEF RegistryType
    <3>2. CASE i # j
      <4>1. Behind(i) # k
        BY <2>4, <3>2, BehindType
      <4>2. made[i] # made[j]
        BY <3>2 DEF Ownership
      <4>3. forward'[made[i]] = forward[made[i]]
        BY <2>6, <4>2, BehindType DEF RegistryType
      <4> QED
        BY <2>3, <4>1, <4>3
    <3> QED
      BY <3>1, <3>2
  <2>8. Bypassed(t)'
    BY <1>2, <1>5, <2>1, <2>3, <2>7 DEF Bypassed, Behind
  <2>9. Backward'
    BY <1>2, <2>2 DEF Backward, Behind
  <2> QED
    BY <2>8, <2>9
<1>7. Sight' /\ Shape'
  <2>1. Seen(t)' /\ Changed(t)'
    BY <1>5 DEF Seen, Changed
  <2> QED
    BY <1>5, <1>6, <2>1, AloneSight, AloneShape
<1> QED
  BY <1>5, <1>7

\* The position behind one that stays, when position k goes.
Staying(i, k) == IF i < k THEN i ELSE i + 1

LEMMA BehindWithout ==
  ASSUME RegistryType, Len(made) > 1, NEW k \in 1 .. Len(made),
         NEW i \in 1 .. Len(made) - 1
  PROVE  LET m == IF i = Len(made) - 1 THEN 1 ELSE i + 1
             s == Staying(i, k)
         IN /\ m \in 1 .. Len(made) - 1 /\ s \in 1 .. Len(made) /\ s # k
            /\ Staying(m, k) = IF Behind(s) = k THEN Behind(k) ELSE Behind(s)
<1>1. \A n \in Nat : \A a \in 1 .. n : \A b \in 1 .. n - 1 :
        n > 1 =>
          LET m == IF b = n - 1 THEN 1 ELSE b + 1
              s == IF b < a THEN b ELSE b + 1
              over == IF s = n THEN 1 ELSE s + 1
          IN /\ m \in 1 .. n - 1 /\ s \in 1 .. n /\ s # a
             /\ (IF m < a THEN m ELSE m + 1)
                  = IF over = a THEN IF a = n THEN 1 ELSE a + 1 ELSE over
  OBVIOUS
<1>2. Len(made) \in Nat
  BY BehindType
<1> QED
  BY <1>1, <1>2 DEF Staying, Behind

\* A queue has left the list.
LEMMA LeaveKeeps ==
  ASSUME Registered, ~overlap, NEW t \in Callers, NEW q \in Places,
         q = call[t].q, call[t].pc = "around_back",
         Q!Goto(t, "free"), Q!Overlaps(t), made' = RemoveAt(made, Q!Position(q)),
         UNCHANGED <<first, forward, places, marks, only, held>>,
         back' \in [Places -> Places \cup {NULL}]
  PROVE  /\ RegistryType' /\ Ownership' /\ Refusing' /\ Sight'
         /\ call'[t].pc = "free" /\ ~Changed(t)'
         /\ \A u \in Callers \ {t} : call'[u] = call[u]
         /\ overlap' \/ Alone(t)
<1> USE DEF Registered
<1>1. /\ "free" \in Owning /\ "around_back" \in Owning
      /\ "around_back" \in Q!Unlinking
      /\ "free" \notin Q!Unlinking \cup {"ready"}
  BY DEF Owning, Working, Q!Linking, Q!Unlinking
<1>2. /\ call' \in [Callers -> [pc : Steps, q : Places \cup {NULL}]]
      /\ call'[t].pc = "free" /\ call'[t].q = q
      /\ \A u \in Callers \ {t} : call'[u] = call[u]
      /\ \A u \in Callers : call'[u].pc # "idle" => call'[u].q \in Places
  BY <1>1, GoesOn
<1>3. overlap' \in BOOLEAN /\ (overlap' \/ Alone(t))
  BY OverlapsUnlessAlone
<1>4. PICK k \in 1 .. Len(made) : k = Q!Position(q) /\ made[k] = q
  <2>1. q \in Members
    BY <1>1 DEF Ownership
  <2> QED
    BY <2>1, PositionView DEF RegistryType
<1>5. /\ made' \in Seq(Places) /\ Len(made') = Len(made) - 1
      /\ \A i \in 1 .. Len(made) - 1 :
           made'[i] = IF i < k THEN made[i] ELSE made[i + 1]
      /\ Members' = Members \ {q}
  BY <1>4, LeaveView DEF RegistryType, Ownership
<1>6. RegistryType'
  BY <1>2, <1>3, <1>5 DEF RegistryType
<1>7. Ownership'
  <2>1. \A u, v \in Callers :
          call'[u].pc \in Owning /\ call'[v].pc \in Owning /\ u # v
            => call'[u].q # call'[v].q
    BY <1>1, <1>2 DEF Ownership
  <2>2. \A u \in Callers : call'[u].pc \in Owning => call'[u].q \in places'
    BY <1>1, <1>2 DEF Ownership
  <2>3. ASSUME NEW i \in 1 .. Len(made) - 1, NEW j \in 1 .. Len(made) - 1,
               made'[i] = made'[j]
        PROVE  i = j
    <3>1. Len(made) \in Nat
      BY BehindType
    <3>2. PICK a \in 1 .. Len(made) : /\ a = IF i < k THEN i ELSE i + 1
                                     /\ made'[i] = made[a]
      BY <1>5, <3>1
    <3>3. PICK b \in 1 .. Len(made) : /\ b = IF j < k THEN j ELSE j + 1
                                     /\ made'[j] = made[b]
      BY <1>5, <3>1
    <3>4. a = b
      BY <2>3, <3>2, <3>3 DEF Ownership
    <3> QED
      BY <3>1, <3>2, <3>3, <3>4
  <2>4. \A u \in Callers :
          call'[u].pc \in Q!Linking \cup {"free"} => call'[u].q \notin Members'
    BY <1>2, <1>5 DEF Ownership
  <2>5. \A u \in Callers :
          ~overlap' /\ call'[u].pc \in Q!Unlinking \cup {"ready"}
            => call'[u].q \in Members'
    <3>1. \A u \in Callers \ {t} : call'[u].pc \in Owning => call'[u].q # q
      BY <1>1, <1>2, <2>1
    <3> QED
      BY <1>1, <1>2, <1>5, <3>1 DEF Ownership, Owning, Working
  <2>6. Members' \subseteq places'
    BY <1>5 DEF Ownership
  <2>7. \A i, j \in 1 .. Len(made') : made'[i] = made'[j] => i = j
    BY <1>5, <2>3
  <2> QED
    BY <2>1, <2>2, <2>4, <2>5, <2>6, <2>7 DEF Ownership
<1>8. Refusing'
  <2>1. \A x \in Places : Covered(x) => Covered(x)'
    BY <1>1, <1>2, <1>5 DEF Covered, Q!Busy, Owning, Working
  <2>2. \A u \in Callers : call'[u].pc = "release" =>
          call[u].pc = "release" /\ call'[u].q = call[u].q
    BY <1>2
  <2> QED
    BY <2>1, <2>2, RefusingKept
<1>9. Seen(t)' /\ ~Changed(t)'
  BY <1>2 DEF Seen, Changed
<1> QED
  BY <1>2, <1>3, <1>6, <1>7, <1>8, <1>9, AloneSight

LEMMA AroundBackRegistered ==
  ASSUME Registered, ~overlap, NEW t \in Callers, Q!AroundBack(t)
  PROVE  Registered'
<1> USE DEF Registered
<1>1. PICK q \in Places : q = call[t].q
  BY DEF Q!AroundBack, Q!At, RegistryType
<1>2. /\ call[t].pc = "around_back" /\ Q!Goto(t, "free") /\ Q!Overlaps(t)
      /\ back' = [back EXCEPT ![forward[q]] = back[q]]
      /\ made' = RemoveAt(made, Q!Position(q))
      /\ UNCHANGED <<first, forward, places, marks, only, held>>
  BY <1>1 DEF Q!AroundBack, Q!At, Q!RemoveAt, RemoveAt
<1>3. back' \in [Places -> Places \cup {NULL}]
  BY <1>2 DEF RegistryType
<1>4. /\ RegistryType' /\ Ownership' /\ Refusing' /\ Sight'
      /\ ~Changed(t)'
      /\ \A u \in Callers \ {t} : call'[u] = call[u]
      /\ overlap' \/ Alone(t)
  BY <1>1, <1>2, <1>3, LeaveKeeps
<1>5. ASSUME Alone(t) PROVE Backward' /\ Whole'
  <2>1. Backward /\ Bypassed(t)
    BY <1>2, <1>5, AlonePicture DEF Changed
  <2>2. PICK k \in 1 .. Len(made) :
          /\ Len(made) > 1 /\ made[k] = q
          /\ first = IF k = 1 THEN made[2] ELSE made[1]
          /\ \A i \in 1 .. Len(made) :
               forward[made[i]] = made[Behind(IF Behind(i) = k THEN k ELSE i)]
    BY <1>1, <2>1 DEF Bypassed
  <2>3. /\ made' \in Seq(Places) /\ Len(made') = Len(made) - 1
        /\ \A i \in 1 .. Len(made) - 1 : made'[i] = made[Staying(i, k)]
    <3>1. q \in Members
      BY <2>2 DEF Members
    <3>2. Q!Position(q) = k
      BY <2>2, <3>1, PositionView DEF RegistryType, Ownership
    <3>3. /\ made' \in Seq(Places) /\ Len(made') = Len(made) - 1
          /\ \A i \in 1 .. Len(made) - 1 :
               made'[i] = IF i < k THEN made[i] ELSE made[i + 1]
      BY <1>2, <3>2, LeaveView DEF RegistryType, Ownership
    <3> QED
      BY <3>3 DEF Staying
  <2>4. Behind(k) \in 1 .. Len(made) /\ Behind(k) # k
    BY <2>2, BehindType DEF Behind
  <2>5. forward[q] = made[Behind(k)]
    BY <2>2, <2>4
  <2>6. PICK j \in 1 .. Len(made) : Behind(j) = k
    <3>1. CASE k = 1
      <4>1. Len(made) \in 1 .. Len(made) /\ Behind(Len(made)) = 1
        BY <2>2, BehindType DEF Behind
      <4> QED
        BY <3>1, <4>1
    <3>2. CASE k # 1
      <4>1. k - 1 \in 1 .. Len(made) /\ Behind(k - 1) = k
        BY <2>2, <3>2, BehindType DEF Behind
      <4> QED
        BY <4>1
    <3> QED
      BY <3>1, <3>2
  <2>7. back[q] = made[j]
    BY <2>1, <2>2, <2>6 DEF Backward
  <2>8. back' = [back EXCEPT ![made[Behind(k)]] = made[j]]
    BY <1>2, <2>5, <2>7
  <2>9. ASSUME NEW i \in 1 .. Len(made) - 1
        PROVE  LET m == IF i = Len(made) - 1 THEN 1 ELSE i + 1
                   s == Staying(i, k)
               IN /\ m \in 1 .. Len(made) - 1 /\ s \in 1 .. Len(made) /\ s # k
                  /\ Staying(m, k) = IF Behind(s) = k THEN Behind(k) ELSE Behind(s)
    BY <2>2, BehindWithout
  <2>10. Whole'
    <3>1. ASSUME NEW i \in 1 .. Len(made) - 1
          PROVE  forward[made'[i]] = made'[IF i = Len(made) - 1 THEN 1 ELSE i + 1]
      <4> DEFINE m == IF i = Len(made) - 1 THEN 1 ELSE i + 1
                 s == Staying(i, k)
      <4>1. /\ m \in 1 .. Len(made) - 1 /\ s \in 1 .. Len(made)
            /\ Staying(m, k) = IF Behind(s) = k THEN Behind(k) ELSE Behind(s)
        BY <2>9
      <4> HIDE DEF m, s
      <4>2. forward[made[s]] = made[Behind(IF Behind(s) = k THEN k ELSE s)]
        BY <2>2, <4>1
      <4>3. made'[m] = made[IF Behind(s) = k THEN Behind(k) ELSE Behind(s)]
        BY <2>3, <4>1
      <4>4. forward[made[s]] = made'[m]
        BY <4>2, <4>3
      <4>5. made'[i] = made[s]
        BY <2>3 DEF s
      <4> QED
        BY <4>4, <4>5 DEF m
    <3>2. made' # <<>> /\ first = made'[1]
      BY <2>2, <2>3, BehindType DEF Staying
    <3> QED
      BY <1>2, <2>3, <3>1, <3>2 DEF Whole, Behind
  <2>11. Backward'
    <3>1. ASSUME NEW i \in 1 .. Len(made) - 1
          PROVE  back'[made'[IF i = Len(made) - 1 THEN 1 ELSE i + 1]] = made'[i]
      <4> DEFINE m == IF i = Len(made) - 1 THEN 1 ELSE i + 1
                 s == Staying(i, k)
      <4>1. /\ m \in 1 .. Len(made) - 1 /\ s \in 1 .. Len(made) /\ s # k
            /\ Staying(m, k) = IF Behind(s) = k THEN Behind(k) ELSE Behind(s)
        BY <2>9
      <4>2. made'[i] = made[s]
        BY <2>3
      <4> HIDE DEF m, s
      <4>3. made'[m] = made[IF Behind(s) = k THEN Behind(k) ELSE Behind(s)]
        BY <2>3, <4>1
      <4>4. back'[made'[m]] = made[s]
        <5>1. CASE Behind(s) = k
          <6>1. s = j
            BY <2>6, <4>1, <5>1, BehindType
          <6> QED
            BY <2>4, <2>8, <4>3, <5>1, <6>1, BehindType DEF RegistryType
        <5>2. CASE Behind(s) # k
          <6>1. Behind(s) \in 1 .. Len(made) /\ Behind(s) # Behind(k)
            BY <4>1, BehindType
          <6>2. made[Behind(s)] # made[Behind(k)]
            BY <2>4, <6>1 DEF Ownership
          <6>3. back'[made[Behind(s)]] = back[made[Behind(s)]]
            BY <2>8, <6>1, <6>2, BehindType DEF RegistryType
          <6>4. back[made[Behind(s)]] = made[s]
            BY <2>1, <4>1 DEF Backward
          <6> QED
            BY <4>3, <5>2, <6>3, <6>4
        <5> QED
          BY <5>1, <5>2
      <4> QED
        BY <4>2, <4>4 DEF m
    <3> QED
      BY <2>3, <3>1 DEF Backward, Behind
  <2> QED
    BY <2>10, <2>11
<1>6. Shape'
  BY <1>4, <1>5, AloneShape
<1> QED
  BY <1>4, <1>6

-----------------------------------------------------------------------------
\* A queue that starts the list and leads to itself is the only one, or the
\* other one is half unlinked.
LEMMA OnlyMember ==
  ASSUME Registered, ~overlap, NEW q \in Places, made # <<>>, first = q,
         forward[q] = q, NEW t \in Callers, call[t].q = q,
         call[t].pc = "test_delete", NEW x \in Members \ {q}
  PROVE  \E u \in Callers \ {t} : call[u].q = x /\ call[u].pc \in Owning
<1> USE DEF Registered
<1>1. Len(made) \in Nat \ {0} /\ 1 \in 1 .. Len(made)
  BY BehindType
<1>2. PICK i \in 1 .. Len(made) : made[i] = x
  BY DEF Members
<1>3. \A a, b \in 1 .. Len(made) : made[a] = made[b] => a = b
  BY DEF Ownership
<1>4. "around_back" \in Owning /\ "test_delete" \in Owning
  BY DEF Owning, Working, Q!Unlinking
<1>5. CASE \A u \in Callers : ~Changed(u)
  <2>1. made[1] = q /\ forward[made[1]] = made[Behind(1)]
    BY <1>1, <1>5 DEF Shape, Whole
  <2>2. Behind(1) = 1
    BY <1>1, <1>3, <2>1, BehindType
  <2>3. Len(made) = 1
    BY <1>1, <2>2 DEF Behind
  <2> QED
    BY <1>2, <2>1, <2>3
<1>6. ASSUME NEW u \in Callers, Changed(u)
      PROVE  call[u].q = x /\ call[u].pc \in Owning /\ u # t
  <2>1. CASE call[u].pc = "back"
    <3>1. LinkedForward(u) /\ call[u].q \notin Members
      BY <1>6, <2>1 DEF Shape, Ownership, Q!Linking
    <3>2. first = made[1] /\ made[1] \in Members
      BY <1>1, <3>1, BehindType DEF LinkedForward
    <3>3. CASE Len(made) = 1
      BY <3>1, <3>2, <3>3 DEF LinkedForward
    <3>4. CASE Len(made) # 1
      <4> DEFINE n == Len(made)
      <4> HIDE DEF n
      <4>a. n \in Nat \ {0} /\ n # 1
        BY <1>1, <3>4 DEF n
      <4>b. 2 \in 1 .. n /\ 1 \in 1 .. n - 1 /\ 1 + 1 = 2
        BY <4>a
      <4>0. 2 \in 1 .. Len(made) /\ 1 \in 1 .. Len(made) - 1 /\ 1 + 1 = 2
        BY <4>b DEF n
      <4>1. forward[made[1]] = made[1 + 1]
        BY <3>1, <4>0 DEF LinkedForward
      <4> QED
        BY <1>1, <1>3, <3>2, <4>0, <4>1
    <3> QED
      BY <3>3, <3>4
  <2>2. CASE call[u].pc = "around"
    <3>1. /\ Len(made) > 1 /\ first = made[2]
          /\ forward[made[2]] = made[Behind(2)] /\ 2 \in 1 .. Len(made)
      BY <1>1, <1>6, <2>2 DEF Shape, Stepped
    <3>2. Behind(2) = 2
      BY <1>3, <3>1, BehindType
    <3> QED
      BY <1>1, <3>1, <3>2 DEF Behind
  <2>3. CASE call[u].pc = "around_back"
    <3>1. PICK k \in 1 .. Len(made) :
            /\ Len(made) > 1 /\ made[k] = call[u].q
            /\ first = IF k = 1 THEN made[2] ELSE made[1]
            /\ \A j \in 1 .. Len(made) :
                 forward[made[j]] = made[Behind(IF Behind(j) = k THEN k ELSE j)]
      BY <1>6, <2>3 DEF Shape, Bypassed
    <3>2. PICK j \in 1 .. Len(made) : made[j] = q /\ j # k
      <4>1. 2 \in 1 .. Len(made)
        BY <1>1, <3>1
      <4> QED
        BY <1>1, <1>3, <3>1, <4>1
    <3>3. j = Behind(IF Behind(j) = k THEN k ELSE j)
      <4> DEFINE c == IF Behind(j) = k THEN k ELSE j
      <4>1. c \in 1 .. Len(made)
        OBVIOUS
      <4>2. forward[made[j]] = made[Behind(c)]
        BY <3>1
      <4> HIDE DEF c
      <4>3. Behind(c) \in 1 .. Len(made)
        BY <4>1, BehindType
      <4>4. made[Behind(c)] = made[j]
        BY <3>2, <4>2
      <4>5. Behind(c) = j
        BY <1>3, <4>3, <4>4
      <4> QED
        BY <4>5 DEF c
    <3>4. Behind(j) # j
      BY <1>1, <3>1, <3>2 DEF Behind
    <3>5. Behind(j) = k /\ Behind(k) = j
      BY <3>3, <3>4
    <3>6. Len(made) = 2 /\ \A a \in 1 .. Len(made) : a = j \/ a = k
      <4>1. \A n \in Nat \ {0} : \A a, b \in 1 .. n :
              /\ a # b
              /\ (IF a = n THEN 1 ELSE a + 1) = b
              /\ (IF b = n THEN 1 ELSE b + 1) = a
              => n = 2 /\ \A d \in 1 .. n : d = a \/ d = b
        OBVIOUS
      <4> DEFINE n == Len(made)
      <4>2. /\ (IF j = n THEN 1 ELSE j + 1) = k
            /\ (IF k = n THEN 1 ELSE k + 1) = j
        BY <3>5 DEF Behind
      <4>3. n \in Nat \ {0} /\ j \in 1 .. n /\ k \in 1 .. n /\ j # k
        BY <1>1, <3>1, <3>2
      <4> HIDE DEF n
      <4>4. n = 2 /\ \A d \in 1 .. n : d = j \/ d = k
        BY <4>1, <4>2, <4>3
      <4> QED
        BY <4>4 DEF n
    <3>7. i = k
      BY <1>2, <3>2, <3>6
    <3> QED
      BY <1>2, <1>4, <2>3, <3>1, <3>7
  <2> QED
    BY <1>6, <2>1, <2>2, <2>3 DEF Changed
<1> QED
  BY <1>5, <1>6

LEMMA TestOnlyRegistered ==
  ASSUME Registered, ~overlap, NEW t \in Callers, Q!TestOnly(t)
  PROVE  Registered'
<1> USE DEF Registered
<1>1. PICK q \in Places : q = call[t].q
  BY DEF Q!TestOnly, Q!At, RegistryType
<1>2. /\ call[t].pc = "test_delete"
      /\ UNCHANGED <<forward, back, marks>>
  BY DEF Q!TestOnly, Q!At
<1>3. /\ "test_delete" \in Q!Unlinking /\ "test_delete" \in Owning
      /\ q \in Members /\ made # <<>>
  BY SMTT(30), <1>1, <1>2, BehindType DEF Owning, Working, Q!Unlinking, Ownership, Members
<1>4. CASE first = q /\ forward[q] = q
  <2>1. /\ first' = NULL /\ Q!Overlaps(t)
        /\ places' = IF q = OsQueue THEN places ELSE places \ {q}
        /\ held \subseteq held' /\ held' \subseteq held \cup {q}
        /\ only' = only \cup {q} /\ made' = <<>>
        /\ call' = [call EXCEPT ![t] = Q!Idle]
    BY <1>1, <1>4 DEF Q!TestOnly, Q!Freed
  <2>2. /\ call' \in [Callers -> [pc : Steps, q : Places \cup {NULL}]]
        /\ call'[t].pc = "idle"
        /\ \A u \in Callers \ {t} : call'[u] = call[u]
        /\ \A u \in Callers : call'[u].pc # "idle" => call'[u].q \in Places
    BY <2>1, EndsIdle
  <2>3. overlap' \in BOOLEAN /\ (overlap' \/ Alone(t))
    BY <2>1, OverlapsUnlessAlone
  <2>4. Members' = {} /\ Len(made') = 0 /\ made' \in Seq(Places)
    BY <2>1 DEF Members
  <2>5. RegistryType'
    BY <1>2, <2>1, <2>2, <2>3, <2>4 DEF RegistryType
  <2>6. ASSUME NEW x \in Members \ {q}
        PROVE  \E u \in Callers \ {t} : call[u].q = x /\ call[u].pc \in Owning
    BY <1>1, <1>2, <1>3, <1>4, OnlyMember
  <2>7. \A u \in Callers \ {t} : call[u].pc \in Owning => call[u].q # q
    BY <1>1, <1>2, <1>3 DEF Ownership
  <2>8. "idle" \notin Owning
    BY DEF Owning, Working, Q!Linking, Q!Unlinking
  <2>9. Ownership'
    <3>1. \A u \in Callers : call'[u].pc \in Owning => call'[u].q \in places'
      BY <2>1, <2>2, <2>7, <2>8 DEF Ownership
    <3>2. \A u, v \in Callers :
            call'[u].pc \in Owning /\ call'[v].pc \in Owning /\ u # v
              => call'[u].q # call'[v].q
      BY <2>2, <2>8 DEF Ownership
    <3>3. ASSUME NEW u \in Callers, ~overlap',
                 call'[u].pc \in Q!Unlinking \cup {"ready"}
          PROVE  FALSE
      <4>1. Alone(t) /\ u # t /\ call[u].pc = "ready" /\ "ready" \in Owning
        BY <2>2, <2>3, <2>8, <3>3 DEF Alone, Owning, Working
      <4>2. call[u].q \in Members /\ call[u].q # q
        BY <2>7, <4>1 DEF Ownership
      <4>3. PICK v \in Callers \ {t} :
              call[v].q = call[u].q /\ call[v].pc \in Owning
        BY <2>6, <4>2
      <4>4. ~Changed(t)
        BY <1>2 DEF Changed
      <4>5. Whole
        BY <4>1, <4>4, AlonePicture
      <4>6. made[1] = q /\ forward[made[1]] = made[Behind(1)] /\ 1 \in 1 .. Len(made)
        BY <1>3, <1>4, <4>5, BehindType DEF Whole
      <4>7. Behind(1) = 1
        BY <1>4, <4>6, BehindType DEF Ownership
      <4>8. Len(made) = 1
        BY <4>6, <4>7, BehindType DEF Behind
      <4> QED
        BY <4>2, <4>6, <4>8 DEF Members
    <3> QED
      BY <2>4, <3>1, <3>2, <3>3 DEF Ownership
  <2>10. ~Changed(t)' /\ Seen(t)'
    BY <2>2 DEF Changed, Seen
  <2>11. Whole' /\ Backward'
    BY <2>1, <2>4 DEF Whole, Backward
  <2>12. Sight' /\ Shape'
    BY <2>2, <2>3, <2>10, <2>11, AloneSight, AloneShape
  <2>13. Refusing'
    <3>1. ASSUME NEW x \in Places, Covered(x) PROVE Covered(x)'
      <4>1. CASE x \in only \cup held \cup {q}
        BY <2>1, <4>1 DEF Covered
      <4>2. CASE x # q /\ (x \in Members \/ Q!Busy(x))
        <5>1. PICK u \in Callers : call[u].q = x /\ call[u].pc \in Owning
          BY <2>6, <4>2 DEF Q!Busy, Owning, Working
        <5>2. u # t
          BY <1>1, <4>2, <5>1
        <5> QED
          BY <2>2, <5>1, <5>2 DEF Covered, Q!Busy, Owning, Working
      <4> QED
        BY <3>1, <4>1, <4>2 DEF Covered
    <3>2. \A u \in Callers : call'[u].pc = "release" =>
            call[u].pc = "release" /\ call'[u].q = call[u].q
      BY <2>2
    <3> QED
      BY <1>2, <3>1, <3>2, RefusingKept
  <2> QED
    BY <2>5, <2>9, <2>12, <2>13
<1>5. CASE ~(first = q /\ forward[q] = q)
  <2>1. PICK to \in {"step", "around"} :
          /\ Q!Goto(t, to) /\ (to = "step" <=> first = q)
          /\ UNCHANGED <<first, places, made, overlap, only, held>>
    BY <1>1, <1>5 DEF Q!TestOnly
  <2>2. /\ to \in Owning /\ to \in Q!Unlinking
        /\ to \notin Q!Linking \cup {"free"}
    BY DEF Owning, Working, Q!Linking, Q!Unlinking
  <2>3. /\ call' \in [Callers -> [pc : Steps, q : Places \cup {NULL}]]
        /\ call'[t].pc = to /\ call'[t].q = q
        /\ \A u \in Callers \ {t} : call'[u] = call[u]
        /\ \A u \in Callers : call'[u].pc # "idle" => call'[u].q \in Places
    BY <1>1, <1>2, <2>1, <2>2, GoesOn
  <2>4. RegistryType'
    BY <1>2, <2>1, <2>3 DEF RegistryType
  <2>5. Members' = Members
    BY <2>1, MembersKept
  <2>6. Ownership'
    BY <1>1, <1>3, <1>2, <2>1, <2>2, <2>3, <2>5 DEF Ownership
  <2>7. ~Changed(t)'
    <3> SUFFICES ASSUME to = "around", q = made[1] PROVE FALSE
      BY <2>1, <2>3 DEF Changed
    <3>1. first # made[1]
      BY <2>1
    <3>2. PICK u \in Callers : Changed(u)
      BY <1>3, <3>1 DEF Shape, Whole
    <3>3. call[u].q = q /\ call[u].pc \in Owning /\ u # t
      <4>1. CASE call[u].pc = "back"
        BY <3>1, <3>2, <4>1 DEF Shape, LinkedForward
      <4>2. CASE call[u].pc = "around"
        BY <1>2, <3>2, <4>2 DEF Changed, Owning, Working, Q!Unlinking
      <4>3. CASE call[u].pc = "around_back"
        BY <1>2, <3>1, <3>2, <4>3
        DEF Shape, Bypassed, Owning, Working, Q!Unlinking
      <4> QED
        BY <3>2, <4>1, <4>2, <4>3 DEF Changed
    <3> QED
      BY <1>1, <1>2, <1>3, <3>3 DEF Ownership
  <2>8. Shape'
    BY <1>2, <2>1, <2>3, <2>7, ShapeKept DEF Changed
  <2>9. Sight'
    <3>1. Seen(t)'
      BY <1>2, <1>5, <2>1, <2>3 DEF Seen
    <3> QED
      BY <1>2, <2>1, <2>3, <3>1, SightKept
  <2>10. Refusing'
    <3>1. \A x \in Places : Covered(x) => Covered(x)'
      BY <1>1, <1>3, <2>1, <2>2, <2>3, <2>5, CoverKept
    <3>2. \A u \in Callers : call'[u].pc = "release" =>
            call[u].pc = "release" /\ call'[u].q = call[u].q
      BY <2>1, <2>3
    <3> QED
      BY <1>2, <3>1, <3>2, RefusingKept
  <2> QED
    BY <2>4, <2>6, <2>8, <2>9, <2>10
<1> QED
  BY <1>4, <1>5

LEMMA RegisteredStep == Registered /\ [Next]_vars => Registered'
<1> SUFFICES ASSUME Registered, [Next]_vars PROVE Registered'
    OBVIOUS
<1>1. CASE UNCHANGED queueVars
  <2>1. UNCHANGED <<first, forward, back, marks, call, places, made, overlap,
                    only, held>>
    BY <1>1 DEF queueVars
  <2>2. Members' = Members
    BY <2>1, MembersKept
  <2>3. \A u \in Callers : (Changed(u)' <=> Changed(u)) /\ (Seen(u)' <=> Seen(u))
    BY <2>1 DEF Changed, Seen
  <2>4. Shape'
    <3>1. overlap => Shape'
      BY <2>1 DEF Shape
    <3>2. ~overlap => Shape'
      BY <2>1, <2>3, ShapeKept DEF Registered
    <3> QED
      BY <3>1, <3>2
  <2>5. \A x \in Places : Covered(x)' <=> Covered(x)
    BY <2>1, <2>2 DEF Covered, Q!Busy
  <2>6. Refusing'
    BY <2>1, <2>5, RefusingKept DEF Registered
  <2> QED
    BY <2>1, <2>2, <2>3, <2>4, <2>6 DEF Registered, RegistryType, Ownership, Sight
<1>2. ASSUME ~overlap, NEW t \in Callers,
             LinkStep(t) \/ QuietStep(t) \/ Q!TestOnly(t)
      PROVE  Registered'
  <2>1. CASE LinkStep(t)
    BY <1>2, <2>1, LinkForwardRegistered, LinkBackRegistered,
       LinkAloneRegistered, StepRegistered, AroundRegistered,
       AroundBackRegistered DEF LinkStep
  <2>2. CASE QuietStep(t)
    BY <1>2, <2>2, CreateRegistered, DeleteRegistered, UseRegistered,
       TestFirstRegistered, LinkOwnRegistered, ReadyRegistered, FreeRegistered,
       ClaimRegistered, ReleaseRegistered DEF QuietStep
  <2> QED
    BY <1>2, <2>1, <2>2, TestOnlyRegistered
<1> QED
  BY <1>1, <1>2, RegistrySteps

LEMMA RegisteredIntact == Registered => QueuesIntact
<1> SUFFICES ASSUME Registered PROVE Q!ListIntact /\ Q!RefusedAfterDelete
    BY DEF QueuesIntact
<1> USE DEF Registered
<1>1. Q!ListIntact
  <2> SUFFICES ASSUME ~overlap, \A t \in Callers : call[t].pc \notin Working
               PROVE  /\ first = IF Len(made) = 0 THEN NULL ELSE made[1]
                      /\ \A i \in 1 .. Len(made) :
                           /\ forward[made[i]] = made[(i % Len(made)) + 1]
                           /\ back[made[(i % Len(made)) + 1]] = made[i]
      BY DEF Q!ListIntact, Working
  <2>1. \A t \in Callers : ~Changed(t)
    BY DEF Changed, Working, Q!Linking, Q!Unlinking
  <2>2. Whole /\ Backward
    BY <2>1 DEF Shape
  <2>3. ASSUME NEW i \in 1 .. Len(made) PROVE (i % Len(made)) + 1 = Behind(i)
    <3>1. CASE i = Len(made)
      BY <3>1, BehindType DEF Behind
    <3>2. CASE i # Len(made)
      <4>1. i \in 0 .. Len(made) - 1
        BY <3>2, BehindType
      <4>2. \A n \in Nat \ {0} : \A x \in 0 .. n - 1 : x % n = x
        OBVIOUS
      <4>3. Len(made) \in Nat \ {0}
        BY BehindType
      <4> QED
        BY <3>2, <4>1, <4>2, <4>3 DEF Behind
    <3> QED
      BY <3>1, <3>2
  <2>4. /\ first = IF Len(made) = 0 THEN NULL ELSE made[1]
        /\ \A i \in 1 .. Len(made) : /\ forward[made[i]] = made[Behind(i)]
                                    /\ back[made[Behind(i)]] = made[i]
    BY <2>2, BehindType DEF Whole, Backward
  <2> QED
    BY <2>3, <2>4
<1>2. Q!RefusedAfterDelete
  BY MembersAre DEF Q!RefusedAfterDelete, Refusing, Covered, RegistryType
<1> QED
  BY <1>1, <1>2

\* The list of queues is intact between the calls, and a queue that was
\* deleted refuses every call but in the two known cases, for any number of
\* threads and queues (queue.c:64, 90-103, 113-124).
THEOREM QueuesAlwaysIntact == Spec => []QueuesIntact
<1>1. Init => Registered
  BY InitRegistered DEF Init
<1>2. Registered /\ [Next]_vars => Registered'
  BY RegisteredStep
<1>3. Registered => QueuesIntact
  BY RegisteredIntact
<1> QED
  BY <1>1, <1>2, <1>3, PTL DEF Spec

-----------------------------------------------------------------------------
\* The ring of threads.  Where a thread is in a call that changes the ring:
\* the kernel thread alone creates, resumes and unlinks others.
OwnMoments == {"run", "sleep_arm", "yield", "delete_prev"}
Moments == OwnMoments \cup {"create", "resume_link", "resume_ready",
                            "unlink_next", "unlink_prev", "unlink_again"}

LinksType == /\ next \in [R!Threads -> R!Threads \cup {NULL}]
             /\ prev \in [R!Threads -> R!Threads \cup {NULL}]

PlaceType ==
  /\ current \in R!Threads \cup {NULL}
  /\ stopped = "no" => current \in R!Threads
  /\ stopped \in {"no", "fault", "undefined"}
  /\ cpu \in R!Threads \cup {NULL}
  /\ saved \in [R!Threads -> R!Threads]
  /\ handler \in {"none", "unlink_next", "unlink_prev"}
  /\ causes \subseteq {"return", "preempted", "tick", "svc"}

\* A call of the kernel thread is about an application thread.
CallType ==
  /\ pc \in [R!Threads -> Moments]
  /\ \A t \in Applications : pc[t] \in OwnMoments
  /\ arg \in Applications \cup {NULL}
  /\ R!Calling(Kernel) => arg \in Applications

ThreadType ==
  /\ state \in [R!Threads -> {"NEW", "READY", "SLEEPING"}]
  /\ timer_own \subseteq Applications
  /\ armed \in [R!Threads -> Nat]
  /\ freed \subseteq Applications

\* Until os_first_start nothing runs, and nothing can go wrong.
Booting ==
  /\ kernel_ptr \in {Kernel, NULL}
  /\ cpu = NULL <=> kernel_ptr = Kernel
  /\ cpu = NULL =>
       /\ current = Kernel /\ handler = "none" /\ stopped = "no"
       /\ freed = {} /\ \A t \in R!Threads : pc[t] = "run" /\ armed[t] = 0

\* Whose context each thread has saved and the processor has: its own, or once
\* a thread returned that of a thread that was deleted.
ContextsOwn ==
  /\ \A t \in R!Threads : /\ saved[t] \in freed \cup {t}
                          /\ "return" \notin causes => saved[t] = t
  /\ cpu # NULL /\ handler = "none" /\ stopped = "no" =>
       /\ cpu \in freed \cup {current}
       /\ "return" \notin causes => cpu = current
  /\ \A t \in Applications : pc[t] = "delete_prev" => "return" \in causes

RingType == LinksType /\ PlaceType /\ CallType /\ ThreadType /\ Booting

LEMMA RingSteps == [Next]_vars => [R!Next]_ringVars
BY DEF Next, vars

LEMMA RingConstants ==
  /\ Kernel \in R!Threads /\ Kernel \notin Applications
  /\ Applications \subseteq R!Threads /\ NULL \notin R!Threads
  /\ R!Threads = Applications \cup {Kernel}
BY RingAssumption DEF R!Threads, R!KernelAssumption, R!NullAssumption

LEMMA RingTypeIsTypeOK == RingType => R!TypeOK
BY DEF RingType, LinksType, PlaceType, CallType, ThreadType, Booting, R!TypeOK

LEMMA InitRing == R!Init => RingType
BY RingConstants
DEF R!Init, RingType, LinksType, PlaceType, CallType, ThreadType, Booting,
    Moments, OwnMoments, R!Calling

\* What the statements that link and unlink do to the types of the links.
LEMMA LinkTypes ==
  ASSUME LinksType, NEW t \in R!Threads, current \in R!Threads,
         \/ R!Link(t) \/ R!LinkSelf(t) \/ R!LinkNeighbours(t)
         \/ R!UnlinkNext(t) \/ R!UnlinkPrev(t) \/ R!Unlink(t)
  PROVE  LinksType'
<1>1. CASE R!Link(t)
  BY <1>1 DEF LinksType, R!Link
<1>2. CASE R!LinkSelf(t)
  BY <1>2 DEF LinksType, R!LinkSelf
<1>3. CASE R!LinkNeighbours(t)
  BY <1>3 DEF LinksType, R!LinkNeighbours
<1>4. CASE R!UnlinkNext(t)
  BY <1>4 DEF LinksType, R!UnlinkNext
<1>5. CASE R!UnlinkPrev(t)
  BY <1>5 DEF LinksType, R!UnlinkPrev
<1>6. CASE R!Unlink(t)
  BY <1>6 DEF LinksType, R!Unlink
<1> QED
  BY <1>1, <1>2, <1>3, <1>4, <1>5, <1>6

LEMMA RingTypeStep == RingType /\ ContextsOwn /\ [R!Next]_ringVars => RingType'
<1> SUFFICES ASSUME RingType, ContextsOwn, [R!Next]_ringVars
             PROVE  RingType'
  OBVIOUS
<1> USE RingConstants DEF RingType
<1>1. \A t \in Applications : t # NULL /\ t # Kernel /\ t \in R!Threads
  OBVIOUS
<1>2. R!Calling(Kernel) => R!target(Kernel) \in Applications
  BY DEF R!target, CallType
<1>3. \A t \in Applications : R!target(t) = t
  BY DEF R!target
<1>4. cpu \in R!Threads => kernel_ptr = NULL
  BY DEF Booting
<1>5. CASE UNCHANGED ringVars
  BY <1>5 DEF ringVars, LinksType, PlaceType, CallType, ThreadType, Booting,
              R!Calling
<1>6. ASSUME NEW t \in Applications, R!BootCreate(t) PROVE RingType'
  <2>1. LinksType'
    BY <1>6, LinkTypes DEF R!BootCreate, Booting
  <2> QED
    BY <1>6, <2>1 DEF R!BootCreate, R!SetState, R!timers, R!contexts,
       PlaceType, CallType, ThreadType, Booting, R!Calling
<1>7. ASSUME NEW t \in Applications, R!SwitchToKernel(t) PROVE RingType'
  <2>1. t = cpu /\ kernel_ptr # Kernel
    BY <1>4, <1>7 DEF R!SwitchToKernel, R!At, R!Runs
  <2>2. /\ stopped' = "fault" /\ causes' = causes \cup {"svc"}
        /\ UNCHANGED <<next, prev, current, saved, cpu, kernel_ptr, state,
                       timer_own, armed, freed, pc, arg, handler>>
    BY <1>7, <2>1 DEF R!SwitchToKernel, R!links, R!timers, R!contexts
  <2> QED
    BY <2>1, <2>2
    DEF LinksType, PlaceType, CallType, ThreadType, Booting, R!Calling
<1>8. CASE R!os_first_start
  BY <1>8 DEF R!os_first_start, R!links, R!timers,
     LinksType, PlaceType, CallType, ThreadType, Booting, R!Calling
<1>9. ASSUME NEW t \in R!Threads, R!Expire(t) PROVE RingType'
  <2>1. cpu # NULL
    BY <1>9 DEF R!Expire, R!Due, Booting
  <2>2. LinksType'
    BY <1>9, LinkTypes DEF R!Expire, R!links, PlaceType, LinksType
  <2>3. PlaceType'
    BY <1>9 DEF R!Expire, R!contexts, PlaceType
  <2>4. ThreadType'
    BY <1>9 DEF R!Expire, R!Due, R!SetState, ThreadType
  <2> QED
    BY <1>9, <2>1, <2>2, <2>3, <2>4
    DEF R!Expire, R!contexts, CallType, Booting, R!Calling
<1>10. CASE R!PendSV
  <2>1. cpu # NULL /\ current \in R!Threads /\ kernel_ptr = NULL
    BY <1>4, <1>10 DEF R!PendSV, R!Interruptible, PlaceType
  <2>2. saved' \in [R!Threads -> R!Threads]
    BY <1>10, <2>1 DEF R!PendSV, R!Save, PlaceType
  <2>3. PlaceType'
    <3>1. CASE state[current] = "READY"
      <4>1. current' \in R!Threads \cup {NULL}
        BY <1>10, <2>1, <3>1 DEF R!PendSV, R!Successor, LinksType
      <4> QED
        BY <1>10, <2>1, <2>2, <3>1, <4>1
        DEF R!PendSV, R!Restore, R!NoThread, PlaceType
    <3>2. CASE state[current] # "READY"
      BY <1>10, <2>1, <2>2, <3>2 DEF R!PendSV, PlaceType
    <3> QED
      BY <3>1, <3>2
  <2>4. CallType' /\ cpu' # NULL
    <3>1. CallType'
      BY <1>10 DEF R!PendSV, CallType, Moments, OwnMoments, R!Calling
    <3>2. current' \in R!Threads \cup {NULL} => cpu' # NULL
      BY <1>10, <2>1, <2>2 DEF R!PendSV, R!Restore, PlaceType
    <3> QED
      BY <2>3, <3>1, <3>2 DEF PlaceType
  <2> QED
    BY <1>10, <2>1, <2>3, <2>4
    DEF R!PendSV, R!links, R!timers, LinksType, ThreadType, Booting
<1>11. CASE R!PendSVUnlink
  <2>1. current \in R!Threads
    BY <1>11 DEF R!PendSVUnlink, PlaceType
  <2>2. cpu # NULL /\ kernel_ptr = NULL
    BY <1>4, <1>11 DEF R!PendSVUnlink, Booting, PlaceType
  <2>3. LinksType'
    BY <1>11, <2>1, LinkTypes DEF R!PendSVUnlink
  <2>4. PlaceType' /\ cpu' # NULL
    <3>1. CASE handler = "unlink_next"
      BY <1>11, <2>2, <3>1 DEF R!PendSVUnlink, PlaceType
    <3>2. CASE handler = "unlink_prev"
      <4>1. current' \in R!Threads \cup {NULL}
        BY <1>11, <2>1, <2>3, <3>2
        DEF R!PendSVUnlink, R!CurrentWithout, LinksType
      <4> QED
        BY <1>11, <2>1, <2>2, <3>2, <4>1
        DEF R!PendSVUnlink, R!Restore, R!NoThread, PlaceType
    <3> QED
      BY <1>11, <3>1, <3>2 DEF R!PendSVUnlink
  <2> QED
    BY <1>11, <2>2, <2>3, <2>4
    DEF R!PendSVUnlink, R!timers, CallType, ThreadType, Booting, R!Calling
<1>12. ASSUME NEW t \in R!Threads, R!Call(t) PROVE RingType'
  <2>1. /\ cpu = t /\ cpu # NULL /\ stopped = "no" /\ current \in R!Threads
        /\ kernel_ptr = NULL /\ t \notin freed
    BY <1>4, <1>12
    DEF R!Call, R!BeginSleep, R!BeginDelete, R!Arm, R!SleepUnlink, R!EndDelete,
        R!Begins, R!At, R!Runs, PlaceType
  <2>2. pc[t] # "run" => R!target(t) \in R!Threads
                         /\ (t = Kernel => arg \in Applications)
    BY <1>2, <1>3 DEF R!Calling, CallType
  <2>3. ASSUME NEW u \in Applications, R!BeginSleep(t, u) PROVE RingType'
    BY <2>1, <2>3
    DEF R!BeginSleep, R!Begins, R!SetState, R!Goto, R!ThreadFrame, R!links,
        R!contexts, LinksType, PlaceType, CallType, ThreadType, Booting,
        R!Calling, Moments, OwnMoments
  <2>4. ASSUME NEW u \in Applications, R!BeginDelete(t, u) PROVE RingType'
    <3>1. LinksType'
      BY <2>1, <2>4, LinkTypes DEF R!BeginDelete, R!links, LinksType
    <3>2. CallType' /\ PlaceType'
      BY <2>1, <2>4
      DEF R!BeginDelete, R!Begins, R!Goto, R!contexts, PlaceType, CallType,
          R!Calling, Moments, OwnMoments
    <3> QED
      BY <2>1, <2>4, <3>1, <3>2
      DEF R!BeginDelete, R!timers, R!contexts, ThreadType, Booting
  <2>5. CASE R!Arm(t)
    <3>1. armed' \in [R!Threads -> Nat]
        <4>1. R!target(t) \in R!Threads
        BY <2>2, <2>5 DEF R!Arm, R!At
      <4> QED
        BY <2>5, <4>1 DEF R!Arm, R!ArmedTimers, ThreadType
    <3>2. t # Kernel => R!target(t) = current
      BY <1>3, <2>1, <2>5 DEF R!Arm, R!At, R!Runs, ContextsOwn
    <3>3. CallType'
      BY <2>2, <2>5, <3>2 DEF R!Arm, R!At, R!Goto, CallType, R!Calling, Moments,
                        OwnMoments
    <3> QED
      BY <2>1, <2>5, <3>1, <3>3
      DEF R!Arm, R!ThreadFrame, R!links, R!contexts, LinksType, PlaceType,
          ThreadType, Booting
  <2>6. CASE R!SleepUnlink(t)
    <3>1. t = Kernel /\ arg \in R!Threads
      BY <2>2, <2>6 DEF R!SleepUnlink, R!At, CallType, OwnMoments
    <3>2. LinksType'
      BY <2>1, <2>6, <3>1, LinkTypes DEF R!SleepUnlink
    <3> QED
      BY <2>1, <2>2, <2>6, <3>1, <3>2
      DEF R!SleepUnlink, R!At, R!Goto, R!ThreadFrame, R!timers, R!contexts,
          PlaceType, CallType, ThreadType, Booting, R!Calling, Moments,
          OwnMoments
  <2>7. CASE R!EndDelete(t)
    <3>1. R!target(t) \in Applications
      BY <1>2, <1>3, <2>7 DEF R!EndDelete, R!At, R!Calling
    <3>2. LinksType'
      BY <1>1, <2>1, <2>7, <3>1, LinkTypes DEF R!EndDelete
    <3>3. current' \in R!Threads \cup {NULL}
      BY <2>1, <2>7, <3>1, <3>2 DEF R!EndDelete, R!CurrentWithout, LinksType
    <3> QED
      BY <2>1, <2>2, <2>7, <3>1, <3>2, <3>3
      DEF R!EndDelete, R!At, R!Goto, R!NoThread, R!ThreadFrame, R!timers,
          R!contexts, PlaceType, CallType, ThreadType, Booting, R!Calling,
          Moments, OwnMoments
  <2> QED
    BY <1>12, <2>3, <2>4, <2>5, <2>6, <2>7 DEF R!Call
<1>13. CASE R!KernelCall
  <2>1. /\ cpu = Kernel /\ cpu # NULL /\ stopped = "no"
        /\ current \in R!Threads /\ kernel_ptr = NULL
    BY <1>4, <1>13
    DEF R!KernelCall, R!BeginCreate, R!BeginResume, R!EndCreate, R!ResumeLink,
        R!EndResume, R!UseFreed, R!Begins, R!At, R!Runs, PlaceType
  <2>2. pc[Kernel] # "run" => arg \in Applications
    BY DEF R!Calling, CallType
  <2>3. ASSUME NEW u \in Applications, R!BeginCreate(u) \/ R!BeginResume(u)
        PROVE  RingType'
    <3>1. LinksType'
      BY <2>1, <2>3, LinkTypes DEF R!BeginCreate, R!BeginResume
    <3>2. CallType'
      BY <2>3 DEF R!BeginCreate, R!BeginResume, R!Begins, R!Goto, CallType,
         R!Calling, Moments, OwnMoments
    <3> QED
      BY <2>1, <2>3, <3>1, <3>2
      DEF R!BeginCreate, R!BeginResume, R!ThreadFrame, R!timers, R!contexts,
          PlaceType, ThreadType, Booting
  <2>4. CASE R!EndCreate \/ R!ResumeLink
    <3>1. LinksType'
      BY <1>1, <2>1, <2>2, <2>4, LinkTypes DEF R!EndCreate, R!ResumeLink, R!At
    <3>2. ThreadType'
      BY <1>1, <2>2, <2>4
      DEF R!EndCreate, R!ResumeLink, R!At, R!SetState, R!timers, ThreadType
    <3>3. CallType'
      BY <2>2, <2>4 DEF R!EndCreate, R!ResumeLink, R!At, R!Goto, CallType,
         R!Calling, Moments, OwnMoments
    <3> QED
      BY <2>1, <2>4, <3>1, <3>2, <3>3
      DEF R!EndCreate, R!ResumeLink, R!ThreadFrame, R!timers, R!contexts,
          PlaceType, Booting
  <2>5. CASE R!EndResume
    <3>1. ThreadType'
      BY <1>1, <2>2, <2>5 DEF R!EndResume, R!At, R!SetState, ThreadType
    <3> QED
      BY <2>1, <2>5, <3>1
      DEF R!EndResume, R!Goto, R!ThreadFrame, R!links, R!contexts, LinksType,
          PlaceType, CallType, Booting, R!Calling, Moments, OwnMoments
  <2>6. CASE R!UseFreed
    BY <2>1, <2>6
    DEF R!UseFreed, R!SetState, R!Goto, R!ThreadFrame, R!links,
        R!timers, R!contexts, LinksType, PlaceType, CallType, ThreadType,
        Booting, R!Calling, Moments, OwnMoments
  <2> QED
    BY <1>13, <2>3, <2>4, <2>5, <2>6 DEF R!KernelCall
<1> QED
  BY <1>5, <1>6, <1>7, <1>8, <1>9, <1>10, <1>11, <1>12, <1>13 DEF R!Next

LEMMA ContextsStep ==
  RingType /\ ContextsOwn /\ [R!Next]_ringVars => ContextsOwn'
<1> SUFFICES ASSUME RingType, ContextsOwn, [R!Next]_ringVars
             PROVE  ContextsOwn'
  OBVIOUS
<1> USE RingConstants DEF RingType
<1>1. freed \subseteq freed' /\ causes \subseteq causes'
  BY DEF ringVars, R!Next, R!BootCreate, R!SwitchToKernel, R!os_first_start,
     R!Call, R!Expire, R!KernelCall, R!PendSV, R!PendSVUnlink, R!BeginSleep,
     R!BeginDelete, R!Arm, R!SleepUnlink, R!EndDelete, R!BeginCreate,
     R!BeginResume, R!EndCreate, R!ResumeLink, R!EndResume, R!UseFreed,
     R!ThreadFrame
<1>t. \A t \in Applications : pc'[t] = "delete_prev" => "return" \in causes'
  <2>1. SUFFICES ASSUME NEW t \in Applications, pc'[t] = "delete_prev",
                        pc[t] # "delete_prev"
                 PROVE  "return" \in causes'
    BY <1>1 DEF ContextsOwn
  <2>2. pc' # pc /\ pc'[t] # pc[t]
    BY <2>1
  <2>3. \E u \in R!Threads : R!Call(u)
    BY <2>1, <2>2
    DEF R!Next, ringVars, R!BootCreate, R!SwitchToKernel, R!os_first_start,
        R!Expire, R!PendSV, R!PendSVUnlink, R!KernelCall, R!BeginCreate,
        R!BeginResume, R!EndCreate, R!ResumeLink, R!EndResume, R!UseFreed,
        R!Goto, CallType
  <2>4. PICK u \in R!Threads : R!Call(u)
    BY <2>3
  <2>5. PICK v \in Applications : R!BeginDelete(u, v)
    BY <2>1, <2>2, <2>4
    DEF R!Call, R!BeginSleep, R!Arm, R!SleepUnlink, R!EndDelete, R!Goto,
        CallType
  <2> QED
    BY <2>1, <2>2, <2>5 DEF R!BeginDelete, R!Begins, R!Goto, CallType
<1>2. CASE UNCHANGED <<saved, cpu, current, handler>> /\ stopped = "no"
  BY <1>1, <1>t, <1>2 DEF ContextsOwn
<1>3. CASE UNCHANGED <<saved, cpu, current, handler, stopped>>
  BY <1>1, <1>t, <1>3 DEF ContextsOwn
<1>4. CASE R!os_first_start
  BY <1>1, <1>t, <1>4 DEF R!os_first_start, ContextsOwn, Booting
<1>5. CASE R!PendSV
  <2>1. /\ cpu \in freed \cup {current} /\ current \in R!Threads
        /\ "return" \notin causes => cpu = current
        /\ stopped = "no"
    BY <1>5 DEF R!PendSV, R!Interruptible, PlaceType, ContextsOwn
  <2>2. \A t \in R!Threads :
          /\ saved'[t] \in freed \cup {t}
          /\ "return" \notin causes => saved'[t] = t
    BY <1>5, <2>1 DEF R!PendSV, R!Save, PlaceType, ContextsOwn
  <2>3. CASE state[current] # "READY"
    BY <1>1, <1>t, <1>5, <2>2, <2>3 DEF R!PendSV, ContextsOwn
  <2>4. CASE state[current] = "READY"
    <3>1. current' \in R!Threads \cup {NULL}
      BY <1>5, <2>1, <2>4 DEF R!PendSV, R!Successor, LinksType
    <3> QED
      BY <1>1, <1>t, <1>5, <2>2, <2>4, <3>1
      DEF R!PendSV, R!Restore, R!NoThread, ContextsOwn
  <2> QED
    BY <2>3, <2>4
<1>6. CASE R!PendSVUnlink
  <2>1. CASE handler = "unlink_next"
    BY <1>1, <1>t, <1>6, <2>1 DEF R!PendSVUnlink, ContextsOwn
  <2>2. CASE handler = "unlink_prev"
    <3>1. LinksType' /\ current \in R!Threads
      BY <1>6, <2>2, LinkTypes DEF R!PendSVUnlink, PlaceType
    <3>2. current' \in R!Threads \cup {NULL}
      BY <1>6, <2>2, <3>1 DEF R!PendSVUnlink, R!CurrentWithout, LinksType
    <3> QED
      BY <1>1, <1>t, <1>6, <2>2, <3>2
      DEF R!PendSVUnlink, R!Restore, R!NoThread, ContextsOwn
  <2> QED
    BY <1>6, <2>1, <2>2 DEF R!PendSVUnlink
<1>7. ASSUME NEW t \in R!Threads, R!EndDelete(t) PROVE ContextsOwn'
  <2>1. CASE t = Kernel
    <3>1. current = Kernel /\ R!target(t) # Kernel
      BY <1>7, <2>1 DEF R!EndDelete, R!At, R!Runs, R!target, R!Calling,
         CallType, ThreadType, ContextsOwn
    <3>2. current' = current
      BY <1>7, <3>1 DEF R!EndDelete, R!CurrentWithout
    <3> QED
      BY <1>1, <1>t, <1>7, <2>1, <3>1, <3>2
      DEF R!EndDelete, R!ThreadFrame, R!contexts, R!At, R!Runs, ContextsOwn
  <2>2. CASE t # Kernel
    BY <1>1, <1>t, <1>7, <2>2
    DEF R!EndDelete, R!target, R!ThreadFrame, R!contexts, R!At, R!Runs,
        ContextsOwn
  <2> QED
    BY <2>1, <2>2
<1>8. ASSUME NEW t \in Applications, R!SwitchToKernel(t) PROVE ContextsOwn'
  <2>1. kernel_ptr # Kernel
    BY <1>8 DEF R!SwitchToKernel, R!At, R!Runs, Booting
  <2> QED
    BY <1>1, <1>t, <1>8, <2>1
    DEF R!SwitchToKernel, R!At, R!Runs, R!contexts, ContextsOwn
<1>9. CASE UNCHANGED ringVars
  BY <1>3, <1>9 DEF ringVars
<1>10. CASE \E t \in Applications : R!BootCreate(t)
  BY <1>3, <1>10 DEF R!BootCreate, R!contexts
<1>11. CASE \E t \in R!Threads : R!Expire(t)
  BY <1>2, <1>11 DEF R!Expire, R!contexts
<1>12. ASSUME NEW t \in R!Threads, R!Call(t) PROVE ContextsOwn'
  BY <1>2, <1>7, <1>12
  DEF R!Call, R!BeginSleep, R!BeginDelete, R!Arm, R!SleepUnlink, R!Begins,
      R!At, R!Runs, R!ThreadFrame, R!contexts
<1>13. CASE R!KernelCall
  BY <1>2, <1>13
  DEF R!KernelCall, R!BeginCreate, R!BeginResume, R!EndCreate, R!ResumeLink,
      R!EndResume, R!UseFreed, R!Begins, R!At, R!Runs, R!ThreadFrame,
      R!contexts
<1> QED
  BY <1>4, <1>5, <1>6, <1>8, <1>9, <1>10, <1>11, <1>12, <1>13 DEF R!Next

LEMMA InitContexts == R!Init => ContextsOwn
BY RingConstants DEF R!Init, ContextsOwn

-----------------------------------------------------------------------------
\* The threads of M form one ring: pv leads back where nx leads on, and no
\* smaller set of them is closed under nx.
OneRing(M, nx, pv) ==
  /\ \A u \in M : /\ nx[u] \in M /\ pv[u] \in M
                  /\ pv[nx[u]] = u /\ nx[pv[u]] = u
  /\ \A W \in SUBSET M : W # {} /\ (\A u \in W : nx[u] \in W) => W = M

LEMMA SameRing ==
  ASSUME NEW M, NEW nx, NEW pv, NEW nx2, NEW pv2, OneRing(M, nx, pv),
         \A u \in M : nx2[u] = nx[u] /\ pv2[u] = pv[u]
  PROVE  OneRing(M, nx2, pv2)
<1>1. ASSUME NEW W \in SUBSET M, W # {}, \A u \in W : nx2[u] \in W
      PROVE  W = M
  <2>1. \A u \in W : nx[u] \in W
    BY <1>1
  <2> QED
    BY <1>1, <2>1 DEF OneRing
<1>2. \A u \in M : /\ nx2[u] \in M /\ pv2[u] \in M
                   /\ pv2[nx2[u]] = u /\ nx2[pv2[u]] = u
  BY DEF OneRing
<1> QED
  BY <1>1, <1>2 DEF OneRing

\* A thread joins in front of c.
LEMMA JoinRing ==
  ASSUME NEW M, NEW nx, NEW pv, OneRing(M, nx, pv), NEW c \in M,
         NEW t, t \notin M, NEW nx2, NEW pv2,
         nx2[t] = c, nx2[pv[c]] = t, pv2[t] = pv[c], pv2[c] = t,
         \A u \in M : u # pv[c] => nx2[u] = nx[u],
         \A u \in M : u # c => pv2[u] = pv[u]
  PROVE  OneRing(M \cup {t}, nx2, pv2)
<1>1. /\ pv[c] \in M /\ nx[pv[c]] = c
      /\ \A u \in M : /\ nx[u] \in M /\ pv[u] \in M
                      /\ pv[nx[u]] = u /\ nx[pv[u]] = u
  BY DEF OneRing
<1>2. ASSUME NEW u \in M \cup {t}
      PROVE  /\ nx2[u] \in M \cup {t} /\ pv2[u] \in M \cup {t}
             /\ pv2[nx2[u]] = u /\ nx2[pv2[u]] = u
  <2>1. CASE u = t
    BY <1>1, <2>1
  <2>2. CASE u \in M
    <3>1. u # pv[c] => nx2[u] = nx[u] /\ nx[u] # c /\ pv2[nx[u]] = u
      BY <1>1, <2>2
    <3>2. u # c => pv2[u] = pv[u] /\ pv[u] # pv[c] /\ nx2[pv[u]] = u
      BY <1>1, <2>2
    <3> QED
      BY <1>1, <2>2, <3>1, <3>2
  <2> QED
    BY <2>1, <2>2
<1>3. ASSUME NEW W \in SUBSET (M \cup {t}), W # {}, \A u \in W : nx2[u] \in W
      PROVE  W = M \cup {t}
  <2>1. W \ {t} # {}
    BY <1>3
  <2>2. ASSUME NEW u \in W \ {t} PROVE nx[u] \in W \ {t}
    <3>1. CASE u = pv[c]
      <4>1. nx2[u] = t /\ nx2[t] = c /\ nx[u] = c
        BY <1>1, <3>1
      <4> QED
        BY <1>3, <2>2, <4>1
    <3>2. CASE u # pv[c]
      <4>1. u \in M /\ nx2[u] = nx[u] /\ nx[u] \in M
        BY <1>1, <3>2
      <4> QED
        BY <1>3, <4>1
    <3> QED
      BY <3>1, <3>2
  <2>3. W \ {t} = M
    BY <2>1, <2>2 DEF OneRing
  <2>4. t \in W
    <3>1. pv[c] \in W /\ nx2[pv[c]] = t
      BY <1>1, <2>3
    <3> QED
      BY <1>3, <3>1
  <2> QED
    BY <2>3, <2>4
<1> QED
  BY <1>2, <1>3 DEF OneRing

\* A thread that is not alone leaves.
LEMMA LeaveRing ==
  ASSUME NEW M, NEW nx, NEW pv, OneRing(M, nx, pv), NEW t \in M, nx[t] # t,
         NEW nx2, NEW pv2, nx2[pv[t]] = nx[t], pv2[nx[t]] = pv[t],
         \A u \in M \ {t} : u # pv[t] => nx2[u] = nx[u],
         \A u \in M \ {t} : u # nx[t] => pv2[u] = pv[u]
  PROVE  OneRing(M \ {t}, nx2, pv2)
<1>1. \A u \in M : /\ nx[u] \in M /\ pv[u] \in M
                   /\ pv[nx[u]] = u /\ nx[pv[u]] = u
  BY DEF OneRing
<1>2. pv[t] # t /\ nx[t] \in M \ {t} /\ pv[t] \in M \ {t}
  BY <1>1
<1>3. ASSUME NEW u \in M \ {t}
      PROVE  /\ nx2[u] \in M \ {t} /\ pv2[u] \in M \ {t}
             /\ pv2[nx2[u]] = u /\ nx2[pv2[u]] = u
  <2>1. u # pv[t] => nx2[u] = nx[u] /\ nx[u] # t /\ nx[u] # nx[t]
    BY <1>1
  <2>2. u # nx[t] => pv2[u] = pv[u] /\ pv[u] # t /\ pv[u] # pv[t]
    BY <1>1
  <2> QED
    BY <1>1, <1>2, <2>1, <2>2
<1>4. ASSUME NEW W \in SUBSET (M \ {t}), W # {}, \A u \in W : nx2[u] \in W
      PROVE  W = M \ {t}
  <2> DEFINE R1 == IF pv[t] \in W THEN W \cup {t} ELSE W
  <2>1. R1 \in SUBSET M /\ R1 # {} /\ R1 \ {t} = W
    BY <1>4
  <2>2. ASSUME NEW u \in R1 PROVE nx[u] \in R1
    <3>1. CASE u = t
      <4>1. pv[t] \in W /\ nx2[pv[t]] = nx[t]
        BY <3>1
      <4> QED
        BY <1>4, <3>1, <4>1
    <3>2. CASE u = pv[t]
      BY <1>1, <1>2, <3>2
    <3>3. CASE u # t /\ u # pv[t]
      <4>1. u \in W /\ nx2[u] = nx[u]
        BY <3>3
      <4> QED
        BY <1>4, <4>1
    <3> QED
      BY <3>1, <3>2, <3>3
  <2> HIDE DEF R1
  <2>3. R1 = M
    BY <2>1, <2>2 DEF OneRing
  <2> QED
    BY <2>1, <2>3
<1> QED
  BY <1>3, <1>4 DEF OneRing

\* Alone or not.
LEMMA AloneInRing ==
  ASSUME NEW M, NEW nx, NEW pv, OneRing(M, nx, pv), NEW t \in M
  PROVE  nx[t] = t <=> M = {t}
<1>1. nx[t] = t => M = {t}
  <2> SUFFICES ASSUME nx[t] = t PROVE M = {t}
    OBVIOUS
  <2>1. {t} \in SUBSET M /\ {t} # {} /\ \A u \in {t} : nx[u] \in {t}
    OBVIOUS
  <2> QED
    BY <2>1 DEF OneRing
<1>2. nx[t] \in M
  BY DEF OneRing
<1> QED
  BY <1>1, <1>2

\* The threads in the ring: those that are READY, the current one, until
\* PendSV unlinks it, and one that the kernel thread is about to unlink or has
\* just linked.
Linked ==
  {t \in R!Threads :
     /\ R!Exists(t)
     /\ \/ state[t] = "READY"
        \/ t = current
        \/ t = arg /\ pc[Kernel] \in {"resume_ready", "sleep_arm",
                                      "unlink_next", "unlink_prev"}}

\* One of two statements that unlink a thread has been executed; which thread
\* it is, and what the links look like then.
Halved == \/ handler = "unlink_prev"
          \/ pc[current] \in {"unlink_prev", "delete_prev"}

HalfRing(l) ==
  /\ l \in Linked /\ next[l] # l
  /\ prev[next[l]] = prev[l]
  /\ OneRing(Linked, next, [prev EXCEPT ![next[l]] = l])

LinkShape ==
  /\ ~Halved => OneRing(Linked, next, prev)
  /\ Halved => HalfRing(R!target(current))
  /\ pc[Kernel] \in {"create", "resume_link"} =>
       next[arg] = current /\ prev[arg] = prev[current]
  /\ pc[Kernel] = "unlink_again" =>
       /\ next[arg] \in Linked /\ prev[arg] \in Linked
       /\ next[prev[arg]] = next[arg] /\ prev[next[arg]] = prev[arg]

\* Who is doing what: only the current thread is in a call, it is not READY
\* where it has put itself to sleep, and a call of the kernel thread is about
\* a thread in the state that the call asks for.
Doing ==
  /\ state[Kernel] = "READY"
  /\ timer_own = {t \in R!Threads : state[t] = "SLEEPING"}
  /\ \A t \in freed : state[t] = "READY"
  /\ \A t \in R!Threads : R!Calling(t) => /\ t = cpu /\ t = current
                                          /\ handler = "none" /\ t \notin freed
  /\ pc[Kernel] # "yield"
  /\ current \in R!Threads /\ R!Exists(current)
  /\ state[current] = "SLEEPING" <=>
       (\/ handler # "none" \/ pc[current] = "yield"
        \/ pc[current] = "sleep_arm" /\ current # Kernel)
  /\ R!Calling(Kernel) =>
       /\ arg \notin freed
       /\ state[arg] = IF pc[Kernel] = "create" THEN "NEW"
                       ELSE IF pc[Kernel] = "delete_prev" THEN "READY"
                       ELSE "SLEEPING"

RingShape == ~R!Harmed => Doing /\ LinkShape

LEMMA InitShape == R!Init => RingShape
<1> SUFFICES ASSUME R!Init PROVE Doing /\ LinkShape
  BY DEF RingShape
<1>1. Doing
  BY RingConstants DEF R!Init, Doing, R!Exists, R!Calling
<1>2. Linked = {Kernel} /\ ~Halved
  BY RingConstants DEF R!Init, Linked, Halved, R!Exists
<1>3. OneRing({Kernel}, next, prev)
  BY RingConstants DEF R!Init, OneRing
<1> QED
  BY <1>1, <1>2, <1>3, RingConstants DEF LinkShape, R!Init

\* The ring of the property is the ring of the invariant.
LEMMA RingIs ==
  ASSUME OneRing(Linked, next, prev), current \in Linked
  PROVE  R!Ring = Linked
<1> DEFINE T == R!Threads \cup {NULL}
           Closed(W) == current \in W /\ \A u \in W \ {NULL} : next[u] \in W
<1>1. Linked \in SUBSET T /\ NULL \notin Linked
  BY RingConstants DEF Linked
<1>2. Closed(Linked)
  BY DEF OneRing
<1>3. ASSUME NEW W \in SUBSET T, Closed(W) PROVE Linked \subseteq W
  <2>1. W \cap Linked \in SUBSET Linked /\ W \cap Linked # {}
    BY <1>3
  <2>2. \A u \in W \cap Linked : next[u] \in W \cap Linked
    BY <1>1, <1>3 DEF OneRing
  <2>3. W \cap Linked = Linked
    <3> DEFINE V == W \cap Linked
    <3> HIDE DEF V
    <3>1. V \in SUBSET Linked /\ V # {} /\ \A u \in V : next[u] \in V
      BY <2>1, <2>2 DEF V
    <3>2. V = Linked
      BY <3>1 DEF OneRing
    <3> QED
      BY <3>2 DEF V
  <2> QED
    BY <2>3
<1>4. R!Ring = {t \in T : \A W \in SUBSET T : Closed(W) => t \in W}
  BY DEF R!Ring
<1> HIDE DEF T, Closed
<1> QED
  BY <1>1, <1>2, <1>3, <1>4

LEMMA ShapeIsIntact == RingType /\ RingShape => R!RingIntact
<1> SUFFICES ASSUME RingType, RingShape, ~R!Harmed, R!Quiet
             PROVE  /\ R!Ring = {t \in R!Threads :
                                   state[t] = "READY" /\ R!Exists(t)}
                    /\ \A t \in R!Ring : prev[next[t]] = t
  BY DEF R!RingIntact
<1>1. Doing /\ LinkShape
  BY DEF RingShape
<1>2. \A t \in R!Threads : pc[t] = "run"
  BY DEF R!Quiet, R!Calling
<1>3. handler = "none" /\ state[current] = "READY"
  BY <1>1, <1>2 DEF R!Quiet, Doing, R!Exists, RingType, ThreadType
<1>4. Linked = {t \in R!Threads : state[t] = "READY" /\ R!Exists(t)}
  BY <1>2, <1>3, RingConstants DEF Linked
<1>5. OneRing(Linked, next, prev) /\ current \in Linked
  BY <1>1, <1>2, <1>3, <1>4 DEF LinkShape, Halved, Doing
<1> QED
  BY <1>4, <1>5, RingIs DEF OneRing

-----------------------------------------------------------------------------
\* Steps that link and unlink nothing.
LEMMA SameShape ==
  ASSUME LinkShape, UNCHANGED <<next, prev>>, Linked' = Linked,
         ~Halved, ~Halved',
         pc'[Kernel] \notin {"create", "resume_link", "unlink_again"}
  PROVE  LinkShape'
BY DEF LinkShape

LEMMA LinkedKept ==
  ASSUME UNCHANGED <<state, freed, current, arg>>,
         pc[Kernel] = "run" /\ pc'[Kernel] = "run"
  PROVE  Linked' = Linked
BY DEF Linked, R!Exists

LEMMA QuietSteps ==
  ASSUME RingType, RingType', ContextsOwn, Doing, LinkShape, ~R!Harmed',
         UNCHANGED ringVars \/ R!os_first_start \/ R!UseFreed
         \/ R!EndResume \/ (\E t \in R!Threads : R!Arm(t))
         \/ (\E t \in Applications : R!SwitchToKernel(t))
  PROVE  Doing' /\ LinkShape'
<1> USE RingConstants
<1>1. CASE UNCHANGED ringVars
  <2>1. Linked' = Linked /\ (Halved' <=> Halved)
    BY <1>1 DEF ringVars, Linked, Halved, R!Exists
  <2>2. Doing'
    BY <1>1 DEF ringVars, Doing, R!Exists, R!Calling
  <2>3. LinkShape'
    BY <1>1, <2>1 DEF ringVars, LinkShape, HalfRing, R!target
  <2> QED
    BY <2>2, <2>3
<1>2. CASE R!os_first_start
  <2>1. \A t \in R!Threads : pc[t] = "run"
    BY <1>2 DEF R!os_first_start, RingType, Booting
  <2>2. UNCHANGED <<next, prev, state, freed, current, arg, pc, handler>>
    BY <1>2 DEF R!os_first_start, R!links
  <2>3. current = Kernel /\ handler = "none" /\ ~Halved /\ ~Halved'
    BY <1>2, <2>1, <2>2 DEF R!os_first_start, RingType, Booting, Halved
  <2>4. Doing'
    BY <1>2, <2>1, <2>2
    DEF R!os_first_start, R!timers, Doing, R!Exists, R!Calling
  <2> QED
    BY <2>1, <2>2, <2>3, <2>4, LinkedKept, SameShape
<1>3. CASE R!UseFreed \/ \E t \in Applications : R!SwitchToKernel(t)
  <2>1. UNCHANGED <<next, prev, state, timer_own, freed, current, arg, pc,
                    handler, cpu>>
    <3>1. CASE R!UseFreed
      BY <3>1 DEF R!UseFreed, R!links, R!timers, R!ThreadFrame, R!contexts
    <3>2. CASE \E t \in Applications : R!SwitchToKernel(t)
      <4>1. kernel_ptr # Kernel
        BY <3>2 DEF R!SwitchToKernel, R!At, R!Runs, RingType, Booting
      <4> QED
        BY <3>2, <4>1 DEF R!SwitchToKernel, R!links, R!timers, R!contexts
    <3> QED
      BY <1>3, <3>1, <3>2
  <2>2. Linked' = Linked /\ (Halved' <=> Halved)
    BY <2>1 DEF Linked, Halved, R!Exists
  <2>3. Doing'
    BY <2>1 DEF Doing, R!Exists, R!Calling
  <2>4. LinkShape'
    BY <2>1, <2>2 DEF LinkShape, HalfRing, R!target
  <2> QED
    BY <2>3, <2>4
<1>4. CASE R!EndResume
  <2>1. /\ pc[Kernel] = "resume_ready" /\ pc' = [pc EXCEPT ![Kernel] = "run"]
        /\ UNCHANGED <<next, prev, freed, current, arg, handler, cpu>>
        /\ state' = [state EXCEPT ![arg] = "READY"]
        /\ timer_own' = timer_own \ {arg}
    BY <1>4 DEF R!EndResume, R!At, R!Goto, R!SetState, R!ThreadFrame, R!links,
       R!contexts
  <2>2. arg \in Applications /\ current = Kernel /\ handler = "none"
    BY <2>1 DEF Doing, R!Calling, RingType, CallType
  <2>3. state[arg] = "SLEEPING" /\ arg \notin freed
    BY <2>1 DEF Doing, R!Calling
  <2>4. Linked' = Linked
    BY <2>1, <2>2, <2>3 DEF Linked, R!Exists, RingType, ThreadType, CallType
  <2>5. ~Halved /\ ~Halved' /\ pc'[Kernel] = "run"
    BY <2>1, <2>2 DEF Halved, RingType, CallType
  <2>6. Doing'
    BY <2>1, <2>2, <2>3 DEF Doing, R!Exists, R!Calling, RingType, ThreadType,
     CallType
  <2> QED
    BY <2>1, <2>4, <2>5, <2>6, SameShape
<1>5. ASSUME NEW t \in R!Threads, R!Arm(t) PROVE Doing' /\ LinkShape'
  <2>1. /\ pc[t] = "sleep_arm" /\ t = cpu /\ t = current /\ handler = "none"
        /\ UNCHANGED <<next, prev, state, timer_own, freed, current, arg,
                       handler, cpu>>
    BY <1>5 DEF R!Arm, R!At, R!Runs, R!ThreadFrame, R!links, R!contexts, Doing,
       R!Calling
  <2>2. pc' = [pc EXCEPT ![t] = IF t = Kernel THEN "unlink_next" ELSE "yield"]
    BY <1>5, <2>1 DEF R!Arm, R!Goto, R!target, RingType, CallType, R!Calling
  <2>3. ~Halved /\ ~Halved' /\ pc'[Kernel] \in {"run", "unlink_next"}
    BY <2>1, <2>2 DEF Halved, RingType, CallType, Doing, R!Calling
  <2>4. Linked' = Linked
    BY <2>1, <2>2 DEF Linked, R!Exists, RingType, ThreadType, CallType,
       Doing, R!Calling
  <2>5. Doing'
    BY <2>1, <2>2 DEF Doing, R!Exists, R!Calling, RingType, CallType
  <2> QED
    BY <2>1, <2>3, <2>4, <2>5, SameShape
<1> QED
  BY <1>1, <1>2, <1>3, <1>4, <1>5

\* Steps of the kernel thread: who is doing what while it is in a call.
LEMMA KernelCalls ==
  ASSUME RingType, Doing, R!Calling(Kernel)
  PROVE  /\ current = Kernel /\ cpu = Kernel /\ handler = "none"
         /\ arg \in Applications /\ arg \notin freed
         /\ \A t \in Applications : pc[t] = "run"
BY RingConstants DEF Doing, R!Calling, RingType, CallType

\* A thread is linked by one statement after the other, or by both.
LEMMA LinkedAnew ==
  ASSUME RingType, OneRing(Linked, next, prev), current \in Linked,
         NEW t \in R!Threads, t \notin Linked,
         \/ R!Link(t)
         \/ R!LinkNeighbours(t) /\ next[t] = current /\ prev[t] = prev[current]
  PROVE  OneRing(Linked \cup {t}, next', prev')
<1>1. Linked \subseteq R!Threads
  BY DEF Linked
<1>2. prev[current] \in Linked /\ t # current /\ t # prev[current]
  BY DEF OneRing
<1>3. /\ next'[t] = current /\ next'[prev[current]] = t
      /\ prev'[t] = prev[current] /\ prev'[current] = t
      /\ \A u \in Linked : u # prev[current] => next'[u] = next[u]
      /\ \A u \in Linked : u # current => prev'[u] = prev[u]
  <2>1. CASE R!Link(t)
    BY <1>1, <1>2, <2>1 DEF R!Link, RingType, LinksType
  <2>2. CASE R!LinkNeighbours(t) /\ next[t] = current /\ prev[t] = prev[current]
    BY <1>1, <1>2, <2>2 DEF R!LinkNeighbours, RingType, LinksType
  <2> QED
    BY <2>1, <2>2
<1> QED
  BY <1>3, JoinRing

\* The thread's own links are set while the ring does not lead to it.
LEMMA LinkSelfShape ==
  ASSUME RingType, OneRing(Linked, next, prev), current \in Linked,
         NEW t \in R!Threads, t \notin Linked, R!LinkSelf(t)
  PROVE  /\ OneRing(Linked, next', prev')
         /\ next'[t] = current /\ prev'[t] = prev[current]
         /\ prev'[current] = prev[current]
<1>1. /\ next'[t] = current /\ prev'[t] = prev[current]
      /\ \A u \in R!Threads : u # t => next'[u] = next[u] /\ prev'[u] = prev[u]
  BY DEF R!LinkSelf, RingType, LinksType
<1>2. \A u \in Linked : u \in R!Threads /\ u # t
  BY DEF Linked
<1> QED
  BY <1>1, <1>2, SameRing

LEMMA RunsCurrent ==
  ASSUME RingType, ContextsOwn, NEW t \in R!Threads, R!Runs(t)
  PROVE  current = t /\ cpu = t /\ handler = "none" /\ t \notin freed
BY RingConstants DEF R!Runs, ContextsOwn

LEMMA RunningKernel ==
  ASSUME RingType, ContextsOwn, Doing, LinkShape,
         R!At(Kernel, "run") \/ (cpu = NULL /\ current = Kernel)
  PROVE  /\ current = Kernel /\ handler = "none" /\ pc[Kernel] = "run"
         /\ \A t \in R!Threads : pc[t] = "run"
         /\ ~Halved /\ OneRing(Linked, next, prev) /\ current \in Linked
         /\ \A t \in Applications :
              t \in Linked <=> (state[t] = "READY" /\ t \notin freed)
<1> USE RingConstants
<1>1. /\ current = Kernel /\ handler = "none" /\ pc[Kernel] = "run"
      /\ \A t \in R!Threads : pc[t] = "run"
  <2>1. CASE R!At(Kernel, "run")
    <3>1. /\ current = Kernel /\ cpu = Kernel /\ handler = "none"
          /\ pc[Kernel] = "run"
      BY <2>1, RunsCurrent DEF R!At
    <3> QED
      BY <3>1 DEF Doing, R!Calling
  <2>2. CASE cpu = NULL
    BY <2>2 DEF RingType, Booting
  <2> QED
    BY <2>1, <2>2
<1>2. ~Halved
  BY <1>1 DEF Halved
<1> QED
  BY <1>1, <1>2 DEF LinkShape, Doing, Linked, R!Exists, RingType, ThreadType

LEMMA CreateShape ==
  ASSUME RingType, RingType', ContextsOwn, Doing, LinkShape,
         NEW u \in Applications, R!BeginCreate(u) \/ R!BeginResume(u)
  PROVE  Doing' /\ LinkShape'
<1> USE RingConstants
<1>1. /\ u \notin freed /\ arg' = u /\ R!LinkSelf(u) /\ R!At(Kernel, "run")
      /\ UNCHANGED <<current, state, timer_own, freed, cpu, handler>>
  BY DEF R!BeginCreate, R!BeginResume, R!Begins, R!ThreadFrame, R!timers,
     R!contexts
<1>2. \/ pc' = [pc EXCEPT ![Kernel] = "create"] /\ state[u] = "NEW"
      \/ pc' = [pc EXCEPT ![Kernel] = "resume_link"] /\ state[u] = "SLEEPING"
  BY DEF R!BeginCreate, R!BeginResume, R!Goto
<1>3. /\ current = Kernel /\ cpu = Kernel /\ handler = "none"
      /\ pc[Kernel] = "run" /\ \A t \in R!Threads : pc[t] = "run"
      /\ ~Halved /\ OneRing(Linked, next, prev) /\ current \in Linked
      /\ u \notin Linked
  BY <1>1, <1>2, RunningKernel DEF R!At, R!Runs
<1>4. /\ \A t \in Applications : pc'[t] = "run"
      /\ pc'[Kernel] \in {"create", "resume_link"}
      /\ pc'[Kernel] = "create" <=> state[u] = "NEW"
  BY <1>2, <1>3 DEF RingType, CallType
<1>5. Linked' = Linked /\ ~Halved'
  BY <1>1, <1>3, <1>4 DEF Linked, Halved, R!Exists
<1>6. Doing'
  BY <1>1, <1>2, <1>3, <1>4 DEF Doing, R!Exists, R!Calling
<1>7. /\ OneRing(Linked, next', prev')
      /\ next'[u] = current /\ prev'[u] = prev'[current]
  BY <1>1, <1>3, LinkSelfShape
<1> QED
  BY <1>1, <1>4, <1>5, <1>6, <1>7 DEF LinkShape

LEMMA BootCreateShape ==
  ASSUME RingType, RingType', ContextsOwn, Doing, LinkShape,
         NEW t \in Applications, R!BootCreate(t)
  PROVE  Doing' /\ LinkShape'
<1> USE RingConstants
<1>1. /\ R!Link(t) /\ state[t] = "NEW" /\ state' = [state EXCEPT ![t] = "READY"]
      /\ UNCHANGED <<current, timer_own, freed, cpu, handler, pc, arg>>
  BY DEF R!BootCreate, R!SetState, R!timers, R!contexts
<1>2. /\ current = Kernel /\ handler = "none"
      /\ \A u \in R!Threads : pc[u] = "run"
      /\ ~Halved /\ OneRing(Linked, next, prev) /\ current \in Linked
      /\ t \notin Linked /\ freed = {}
  BY <1>1, RunningKernel DEF R!BootCreate, RingType, Booting
<1>3. Linked' = Linked \cup {t} /\ ~Halved'
  BY <1>1, <1>2 DEF Linked, Halved, R!Exists, RingType, ThreadType
<1>4. Doing'
  BY <1>1, <1>2 DEF Doing, R!Exists, R!Calling, RingType, ThreadType
<1>5. OneRing(Linked \cup {t}, next', prev')
  BY <1>1, <1>2, LinkedAnew
<1> QED
  BY <1>1, <1>2, <1>3, <1>4, <1>5 DEF LinkShape

LEMMA LinkShapeSteps ==
  ASSUME RingType, RingType', ContextsOwn, Doing, LinkShape,
         R!EndCreate \/ R!ResumeLink
  PROVE  Doing' /\ LinkShape'
<1> USE RingConstants
<1>1. /\ R!LinkNeighbours(arg)
      /\ UNCHANGED <<current, timer_own, freed, cpu, handler, arg>>
      /\ \/ /\ pc[Kernel] = "create" /\ state' = [state EXCEPT ![arg] = "READY"]
            /\ pc' = [pc EXCEPT ![Kernel] = "run"]
         \/ /\ pc[Kernel] = "resume_link" /\ state' = state
            /\ pc' = [pc EXCEPT ![Kernel] = "resume_ready"]
  BY DEF R!EndCreate, R!ResumeLink, R!At, R!SetState, R!Goto, R!ThreadFrame,
     R!timers, R!contexts
<1>2. /\ current = Kernel /\ cpu = Kernel /\ handler = "none"
      /\ arg \in Applications /\ arg \notin freed
      /\ \A u \in Applications : pc[u] = "run"
  BY <1>1, KernelCalls DEF R!Calling
<1>3. state[arg] = IF pc[Kernel] = "create" THEN "NEW" ELSE "SLEEPING"
  BY <1>1 DEF Doing, R!Calling
<1>4. /\ ~Halved /\ OneRing(Linked, next, prev) /\ current \in Linked
      /\ arg \notin Linked
      /\ next[arg] = current /\ prev[arg] = prev[current]
  BY <1>1, <1>2, <1>3 DEF LinkShape, Halved, Doing, Linked, R!Exists
<1>5. Linked' = Linked \cup {arg} /\ ~Halved'
  BY <1>1, <1>2, <1>3, <1>4
  DEF Linked, Halved, R!Exists, RingType, ThreadType, CallType
<1>6. Doing'
  BY <1>1, <1>2, <1>3 DEF Doing, R!Exists, R!Calling, RingType, ThreadType,
     CallType
<1>7. OneRing(Linked \cup {arg}, next', prev')
  BY <1>1, <1>2, <1>4, LinkedAnew
<1>8. pc'[Kernel] \in {"run", "resume_ready"}
  BY <1>1 DEF RingType, CallType
<1> QED
  BY <1>5, <1>6, <1>7, <1>8 DEF LinkShape

LEMMA SleepShape ==
  ASSUME RingType, RingType', ContextsOwn, Doing, LinkShape,
         NEW t \in R!Threads, NEW u \in Applications, R!BeginSleep(t, u)
  PROVE  Doing' /\ LinkShape'
<1> USE RingConstants
<1>1. /\ R!At(t, "run") /\ u \notin freed /\ t \in {Kernel, u}
      /\ state[u] # "NEW" /\ u \notin timer_own
      /\ arg' = (IF t = Kernel THEN u ELSE arg)
      /\ timer_own' = timer_own \cup {u}
      /\ state' = [state EXCEPT ![u] = "SLEEPING"]
      /\ pc' = [pc EXCEPT ![t] = "sleep_arm"]
      /\ UNCHANGED <<next, prev, current, freed, cpu, handler>>
  BY DEF R!BeginSleep, R!Begins, R!SetState, R!Goto, R!ThreadFrame, R!links,
     R!contexts
<1>2. /\ current = t /\ cpu = t /\ handler = "none" /\ t \notin freed
      /\ \A v \in R!Threads : pc[v] = "run"
  <2>1. /\ current = t /\ cpu = t /\ handler = "none" /\ t \notin freed
        /\ pc[t] = "run"
    BY <1>1, RunsCurrent DEF R!At
  <2> QED
    BY <2>1 DEF Doing, R!Calling
<1>3. state[u] = "READY"
  BY <1>1 DEF Doing, RingType, ThreadType
<1>4. ~Halved /\ ~Halved' /\ pc'[Kernel] \in {"run", "sleep_arm"}
  BY <1>1, <1>2 DEF Halved, RingType, CallType
<1>5. Linked' = Linked
  BY <1>1, <1>2, <1>3 DEF Linked, R!Exists, RingType, ThreadType, CallType
<1>6. Doing'
  BY <1>1, <1>2, <1>3 DEF Doing, R!Exists, R!Calling, RingType, ThreadType,
     CallType
<1> QED
  BY <1>1, <1>4, <1>5, <1>6, SameShape

\* The first and the second of the statements that unlink a thread.
LEMMA HalfUnlinked ==
  ASSUME RingType, OneRing(Linked, next, prev), NEW l \in Linked,
         next[l] # l, R!UnlinkNext(l), Linked' = Linked
  PROVE  HalfRing(l)'
<1>1. Linked \subseteq R!Threads /\ next[l] \in Linked /\ prev[next[l]] = l
  BY DEF Linked, OneRing
<1>2. /\ next' = next /\ prev' = [prev EXCEPT ![next[l]] = prev[l]]
  BY DEF R!UnlinkNext
<1>3. prev'[next[l]] = prev'[l]
  BY <1>1, <1>2 DEF RingType, LinksType
<1> DEFINE pv == [prev' EXCEPT ![next[l]] = l]
<1>4. \A u \in Linked : next[u] = next[u] /\ pv[u] = prev[u]
  BY <1>1, <1>2 DEF RingType, LinksType
<1> HIDE DEF pv
<1>5. OneRing(Linked, next, pv)
  BY <1>4, SameRing
<1> QED
  BY <1>2, <1>3, <1>5 DEF HalfRing, pv

LEMMA WholeUnlinked ==
  ASSUME RingType, NEW l, HalfRing(l), R!UnlinkPrev(l)
  PROVE  /\ OneRing(Linked \ {l}, next', prev')
         /\ next'[l] = next[l] /\ prev'[l] = prev[l]
         /\ next[l] \in Linked \ {l} /\ prev[l] \in Linked \ {l}
         /\ next'[prev[l]] = next[l] /\ prev'[next[l]] = prev[l]
<1>1. /\ l \in Linked /\ next[l] # l /\ prev[next[l]] = prev[l]
      /\ next' = [next EXCEPT ![prev[l]] = next[l]] /\ prev' = prev
      /\ Linked \subseteq R!Threads
  BY DEF HalfRing, R!UnlinkPrev, Linked
<1>2. PICK pv : /\ pv = [prev EXCEPT ![next[l]] = l]
                /\ OneRing(Linked, next, pv)
  BY DEF HalfRing
<1>3. next[l] \in Linked /\ pv[l] \in Linked
  BY <1>1, <1>2 DEF OneRing
<1>4. pv[l] = prev[l] /\ \A u \in Linked : u # next[l] => pv[u] = prev[u]
  BY <1>1, <1>2, <1>3 DEF RingType, LinksType
<1>5. prev[l] # l
  BY <1>1, <1>2, <1>3, <1>4 DEF OneRing
<1>6. /\ next'[prev[l]] = next[l] /\ prev'[next[l]] = prev[l]
      /\ next'[l] = next[l]
      /\ \A u \in Linked : u # prev[l] => next'[u] = next[u]
  BY <1>1, <1>3, <1>4, <1>5 DEF RingType, LinksType
<1>7. /\ next'[pv[l]] = next[l] /\ prev'[next[l]] = pv[l]
      /\ \A u \in Linked \ {l} : u # pv[l] => next'[u] = next[u]
      /\ \A u \in Linked \ {l} : u # next[l] => prev'[u] = pv[u]
  BY <1>1, <1>4, <1>6
<1>8. OneRing(Linked \ {l}, next', prev')
  <2>1. l \in Linked /\ next[l] # l /\ OneRing(Linked, next, pv)
    BY <1>1, <1>2
  <2> QED
    BY <1>7, <2>1, LeaveRing, Zenon
<1> QED
  BY <1>1, <1>3, <1>4, <1>5, <1>6, <1>8

LEMMA NotAlone ==
  ASSUME OneRing(Linked, next, prev), NEW l \in Linked, NEW k \in Linked, k # l
  PROVE  next[l] # l
BY AloneInRing

LEMMA SleepUnlinkShape ==
  ASSUME RingType, RingType', ContextsOwn, Doing, LinkShape,
         NEW t \in R!Threads, R!SleepUnlink(t)
  PROVE  Doing' /\ LinkShape'
<1> USE RingConstants
<1>1. /\ UNCHANGED <<current, state, timer_own, freed, arg, cpu, handler>>
      /\ \/ /\ pc[t] = "unlink_next" /\ R!UnlinkNext(arg)
            /\ pc' = [pc EXCEPT ![t] = "unlink_prev"]
         \/ /\ pc[t] = "unlink_prev" /\ R!UnlinkPrev(arg)
            /\ pc' = [pc EXCEPT ![t] = "unlink_again"]
         \/ /\ pc[t] = "unlink_again" /\ R!Unlink(arg)
            /\ pc' = [pc EXCEPT ![t] = "run"]
  BY DEF R!SleepUnlink, R!At, R!Goto, R!ThreadFrame, R!timers, R!contexts
<1>2. t = Kernel
  BY <1>1 DEF RingType, CallType, OwnMoments
<1>3. /\ current = Kernel /\ cpu = Kernel /\ handler = "none"
      /\ arg \in Applications /\ arg \notin freed
      /\ \A u \in Applications : pc[u] = "run"
  BY <1>1, <1>2, KernelCalls DEF R!Calling
<1>4. state[arg] = "SLEEPING" /\ Kernel \in Linked /\ Kernel # arg
      /\ R!target(current) = arg /\ R!target(current)' = arg
  BY <1>1, <1>2, <1>3 DEF Doing, R!Calling, Linked, R!Exists, R!target
<1>5. Doing'
  BY <1>1, <1>2, <1>3, <1>4 DEF Doing, R!Exists, R!Calling, RingType, CallType
<1>6. CASE pc[t] = "unlink_next"
  <2>1. Linked' = Linked /\ arg \in Linked /\ Halved' /\ ~Halved
    BY <1>1, <1>2, <1>3, <1>4, <1>6
    DEF Linked, R!Exists, Halved, RingType, CallType
  <2>2. OneRing(Linked, next, prev) /\ R!UnlinkNext(arg)
    BY <1>1, <1>6, <2>1 DEF LinkShape
  <2>3. next[arg] # arg
    BY <1>4, <2>1, <2>2, NotAlone
  <2>4. PICK l \in Linked : l = arg
    BY <2>1
  <2>5. HalfRing(l)'
    BY <2>1, <2>2, <2>3, <2>4, HalfUnlinked
  <2>6. HalfRing(R!target(current))'
    BY <1>1, <1>4, <2>4, <2>5
  <2>7. pc'[Kernel] = "unlink_prev"
    BY <1>1, <1>2, <1>6 DEF RingType, CallType
  <2> QED
    BY <1>5, <2>1, <2>6, <2>7 DEF LinkShape
<1>7. CASE pc[t] = "unlink_prev"
  <2>1. HalfRing(arg) /\ R!UnlinkPrev(arg)
    BY <1>1, <1>2, <1>3, <1>4, <1>7 DEF LinkShape, Halved
  <2>2. Linked' = Linked \ {arg} /\ ~Halved' /\ pc'[Kernel] = "unlink_again"
    BY <1>1, <1>2, <1>3, <1>4, <1>7
    DEF Linked, R!Exists, Halved, RingType, CallType
  <2>3. /\ OneRing(Linked \ {arg}, next', prev')
        /\ next'[arg] = next[arg] /\ prev'[arg] = prev[arg]
        /\ next[arg] \in Linked \ {arg} /\ prev[arg] \in Linked \ {arg}
        /\ next'[prev[arg]] = next[arg] /\ prev'[next[arg]] = prev[arg]
    BY <2>1, WholeUnlinked
  <2> QED
    BY <1>1, <1>5, <2>2, <2>3 DEF LinkShape
<1>8. CASE pc[t] = "unlink_again"
  <2>1. Linked' = Linked /\ ~Halved /\ ~Halved' /\ pc'[Kernel] = "run"
    BY <1>1, <1>2, <1>3, <1>4, <1>8
    DEF Linked, R!Exists, Halved, RingType, CallType
  <2>2. next' = next /\ prev' = prev
    <3>1. next[prev[arg]] = next[arg] /\ prev[next[arg]] = prev[arg]
      BY <1>2, <1>8 DEF LinkShape
    <3>2. /\ prev' = [prev EXCEPT ![next[arg]] = prev[arg]]
          /\ next' = [next EXCEPT ![prev[arg]] = next[arg]]
      BY <1>1, <1>8 DEF R!Unlink
    <3> QED
      BY <3>1, <3>2 DEF RingType, LinksType
  <2> QED
    BY <1>5, <2>1, <2>2, SameShape
<1> QED
  BY <1>1, <1>6, <1>7, <1>8

LEMMA BeginDeleteShape ==
  ASSUME RingType, RingType', ContextsOwn, Doing, LinkShape,
         NEW t \in R!Threads, NEW u \in Applications, R!BeginDelete(t, u)
  PROVE  Doing' /\ LinkShape'
<1> USE RingConstants
<1>1. /\ R!At(t, "run") /\ u \notin freed /\ t \in {Kernel, u}
      /\ state[u] # "NEW" /\ next[current] # current
      /\ arg' = (IF t = Kernel THEN u ELSE arg)
      /\ UNCHANGED <<current, state, timer_own, freed, cpu, handler>>
      /\ \/ /\ state[u] = "READY" /\ R!UnlinkNext(u)
            /\ pc' = [pc EXCEPT ![t] = "delete_prev"]
         \/ UNCHANGED <<next, prev, pc>>
  BY DEF R!BeginDelete, R!Begins, R!Goto, R!links, R!timers, R!contexts
<1>2. /\ current = t /\ cpu = t /\ handler = "none" /\ t \notin freed
      /\ \A v \in R!Threads : pc[v] = "run"
  <2>1. /\ current = t /\ cpu = t /\ handler = "none" /\ t \notin freed
        /\ pc[t] = "run"
    BY <1>1, RunsCurrent DEF R!At
  <2> QED
    BY <2>1 DEF Doing, R!Calling
<1>3. ~Halved /\ OneRing(Linked, next, prev) /\ current \in Linked
  BY <1>2 DEF Halved, LinkShape, Doing, Linked
<1>4. CASE UNCHANGED <<next, prev, pc>>
  <2>1. Linked' = Linked /\ ~Halved'
    BY <1>1, <1>2, <1>4 DEF Linked, Halved, R!Exists
  <2>2. Doing'
    BY <1>1, <1>2, <1>4 DEF Doing, R!Exists, R!Calling
  <2> QED
    BY <1>2, <1>3, <1>4, <2>1, <2>2, SameShape
<1>5. CASE /\ state[u] = "READY" /\ R!UnlinkNext(u)
           /\ pc' = [pc EXCEPT ![t] = "delete_prev"]
  <2>1. Linked' = Linked /\ Halved' /\ pc'[Kernel] \in {"run", "delete_prev"}
    BY <1>1, <1>2, <1>5 DEF Linked, Halved, R!Exists, RingType, CallType
  <2>2. u \in Linked /\ R!target(current)' = u
    BY <1>1, <1>2, <1>5 DEF Linked, R!Exists, R!target
  <2>3. next[u] # u
    BY <1>1, <1>3, <2>2, AloneInRing
  <2>4. HalfRing(u)'
    BY <1>3, <1>5, <2>1, <2>2, <2>3, HalfUnlinked
  <2>5. HalfRing(R!target(current))'
    BY <2>2, <2>4
  <2>6. Doing'
    BY <1>1, <1>2, <1>5 DEF Doing, R!Exists, R!Calling, RingType, CallType
  <2> QED
    BY <2>1, <2>5, <2>6 DEF LinkShape
<1> QED
  BY <1>1, <1>4, <1>5

LEMMA EndDeleteShape ==
  ASSUME RingType, RingType', ContextsOwn, Doing, LinkShape,
         NEW t \in R!Threads, R!EndDelete(t)
  PROVE  Doing' /\ LinkShape'
<1> USE RingConstants
<1> DEFINE l == R!target(t)
<1>1. /\ R!UnlinkPrev(l) /\ current' = R!CurrentWithout(l)
      /\ freed' = freed \cup {l} /\ pc' = [pc EXCEPT ![t] = "run"]
      /\ pc[t] = "delete_prev"
      /\ UNCHANGED <<state, timer_own, arg, cpu, handler>>
  BY DEF R!EndDelete, R!At, R!Goto, R!ThreadFrame, R!timers, R!contexts
<1>2. /\ current = t /\ cpu = t /\ handler = "none" /\ t \notin freed
      /\ \A v \in R!Threads : v # t => pc[v] = "run"
  BY <1>1 DEF Doing, R!Calling
<1>3. state[l] = "READY" /\ l \notin freed /\ l \in Applications
  BY <1>1, <1>2
  DEF Doing, R!Calling, R!target, R!Exists, RingType, CallType, ThreadType
<1>4. HalfRing(l)
  BY <1>1, <1>2 DEF LinkShape, Halved
<1>5. /\ OneRing(Linked \ {l}, next', prev')
      /\ next'[l] = next[l] /\ next[l] \in Linked \ {l}
  BY <1>1, <1>4, WholeUnlinked
<1>6. \A v \in Linked \ {l} :
        state[v] = "READY" /\ v \in R!Threads /\ v \notin freed
  BY <1>1, <1>2, <1>3 DEF Linked, R!Exists, R!target, Doing
<1>7. current' \in Linked \ {l}
  <2>1. l # current => current \in Linked
    BY DEF Doing, Linked
  <2> HIDE DEF l
  <2> QED
    BY <1>1, <1>5, <2>1 DEF R!CurrentWithout
<1> HIDE DEF l
<1>8. \A v \in R!Threads : pc'[v] = "run"
  BY <1>1, <1>2 DEF RingType, CallType
<1>9. Linked' = Linked \ {l} /\ ~Halved'
  <2>1. \A v \in R!Threads :
          v \in Linked' <=> (state[v] = "READY" /\ v \notin freed')
    BY <1>1, <1>6, <1>7, <1>8 DEF Linked, R!Exists
  <2>2. \A v \in R!Threads :
          v # l => (v \in Linked <=> (state[v] = "READY" /\ v \notin freed))
    BY <1>6 DEF Linked, R!Exists
  <2>3. Linked \subseteq R!Threads /\ Linked' \subseteq R!Threads
    BY DEF Linked, R!Threads
  <2>4. ~Halved'
    BY <1>1, <1>2, <1>6, <1>7, <1>8 DEF Halved
  <2> QED
    BY <1>1, <2>1, <2>2, <2>3, <2>4
<1>10. Doing'
  BY <1>1, <1>2, <1>3, <1>6, <1>7, <1>8 DEF Doing, R!Exists, R!Calling
<1> QED
  BY <1>5, <1>8, <1>9, <1>10 DEF LinkShape

\* A time slice that does no damage ends where no call is under way.
LEMMA SwitchShape ==
  ASSUME RingType, RingType', ContextsOwn, Doing, LinkShape, ~R!Harmed',
         R!PendSV
  PROVE  Doing' /\ LinkShape'
<1> USE RingConstants
<1>1. /\ handler = "none" /\ cpu # NULL /\ stopped = "no"
      /\ ~(cpu = Kernel /\ R!Calling(Kernel))
      /\ UNCHANGED <<next, prev, state, timer_own, freed, arg>>
      /\ pc' = IF pc[cpu] = "yield" THEN [pc EXCEPT ![cpu] = "run"] ELSE pc
      /\ pc[cpu] \notin {"sleep_arm", "delete_prev"}
  BY DEF R!PendSV, R!Interruptible, R!links, R!timers, R!Harmed
<1>2. cpu \in R!Threads /\ current \in R!Threads
  BY <1>1 DEF RingType, PlaceType
<1>3. pc[cpu] \in {"run", "yield"} /\ (pc[cpu] = "yield" => cpu = current)
  BY <1>1, <1>2 DEF RingType, CallType, OwnMoments, R!Calling, Doing
<1>4. \A t \in R!Threads : t # cpu => pc[t] = "run"
  BY DEF Doing, R!Calling
<1>5. \A t \in R!Threads : pc'[t] = "run"
  BY <1>1, <1>2, <1>3, <1>4 DEF RingType, CallType
<1>6. pc[Kernel] = "run" /\ pc[current] \in {"run", "yield"} /\ ~Halved
  BY <1>1, <1>2, <1>3, <1>4 DEF Halved, Doing, R!Calling
<1>7. OneRing(Linked, next, prev) /\ current \in Linked
  BY <1>6 DEF LinkShape, Doing, Linked
<1>8. \A t \in Linked : /\ t \in R!Threads /\ R!Exists(t)
                        /\ state[t] = "READY" \/ t = current
  BY <1>6 DEF Linked
<1>9. CASE state[current] = "READY"
  <2>1. current' = next[current] /\ handler' = "none"
    BY <1>1, <1>9 DEF R!PendSV, R!Successor
  <2>2. current' \in Linked
    BY <1>7, <2>1 DEF OneRing
  <2>3. Linked' = Linked /\ ~Halved'
    BY <1>1, <1>5, <1>6, <1>8, <1>9, <2>1, <2>2 DEF Linked, Halved, R!Exists
  <2>4. Doing'
    BY <1>1, <1>5, <1>8, <1>9, <2>1, <2>2 DEF Doing, R!Exists, R!Calling
  <2> QED
    BY <1>1, <1>5, <1>6, <2>3, <2>4, SameShape
<1>10. CASE state[current] # "READY"
  <2>1. current' = current /\ cpu' = cpu /\ handler' = "unlink_next"
    BY <1>1, <1>10 DEF R!PendSV
  <2>2. Linked' = Linked /\ ~Halved'
    BY <1>1, <1>2, <1>5, <1>6, <2>1 DEF Linked, Halved, R!Exists
  <2>3. state[current] = "SLEEPING"
    BY <1>10 DEF Doing, R!Exists, RingType, ThreadType
  <2>4. Doing'
    BY <1>1, <1>5, <2>1, <2>3 DEF Doing, R!Exists, R!Calling
  <2> QED
    BY <1>1, <1>5, <1>6, <2>2, <2>4, SameShape
<1> QED
  BY <1>9, <1>10

LEMMA SwitchUnlinkShape ==
  ASSUME RingType, RingType', ContextsOwn, Doing, LinkShape, R!PendSVUnlink
  PROVE  Doing' /\ LinkShape'
<1> USE RingConstants
<1>1. /\ handler \in {"unlink_next", "unlink_prev"}
      /\ UNCHANGED <<state, timer_own, freed, pc, arg>>
  BY DEF R!PendSVUnlink, R!timers
<1>2. \A t \in R!Threads : pc[t] = "run"
  BY <1>1 DEF Doing, R!Calling
<1>3. /\ state[current] = "SLEEPING" /\ current \in R!Threads
      /\ current \in Applications /\ current \in Linked
      /\ R!target(current) = current /\ Kernel \in Linked
  BY <1>1 DEF Doing, R!target, Linked, R!Exists, RingType, ThreadType
<1>4. CASE handler = "unlink_next"
  <2>1. R!UnlinkNext(current) /\ handler' = "unlink_prev"
        /\ UNCHANGED <<current, cpu>>
    BY <1>4 DEF R!PendSVUnlink
  <2>2. Linked' = Linked /\ Halved' /\ ~Halved
    BY <1>1, <1>2, <1>3, <1>4, <2>1 DEF Linked, Halved, R!Exists
  <2>3. OneRing(Linked, next, prev)
    BY <2>2 DEF LinkShape
  <2>4. next[current] # current
    BY <1>3, <2>3, NotAlone
  <2>5. PICK l \in Linked : l = current
    BY <1>3
  <2>6. HalfRing(l)'
    BY <2>1, <2>2, <2>3, <2>4, <2>5, HalfUnlinked
  <2>7. R!target(current)' = l
    BY <1>3, <2>1, <2>5 DEF R!target
  <2>8. Doing'
    BY <1>1, <1>2, <1>3, <2>1 DEF Doing, R!Exists, R!Calling
  <2> QED
    BY <1>1, <1>2, <2>2, <2>6, <2>7, <2>8 DEF LinkShape
<1>5. CASE handler = "unlink_prev"
  <2>1. R!UnlinkPrev(current) /\ handler' = "none"
        /\ current' = R!CurrentWithout(current)
    BY <1>5 DEF R!PendSVUnlink
  <2>2. HalfRing(current)
    BY <1>3, <1>5 DEF LinkShape, Halved
  <2>3. /\ OneRing(Linked \ {current}, next', prev')
        /\ next'[current] = next[current]
        /\ next[current] \in Linked \ {current}
    BY <2>1, <2>2, WholeUnlinked
  <2>4. current' \in Linked \ {current}
    BY <2>1, <2>3 DEF R!CurrentWithout
  <2>5. \A t \in Linked \ {current} :
          t \in R!Threads /\ R!Exists(t) /\ state[t] = "READY"
    BY <1>2 DEF Linked
  <2>6. Linked' = Linked \ {current} /\ ~Halved'
    <3>1. \A t \in R!Threads :
            t \in Linked' <=> state[t] = "READY" /\ t \notin freed
      BY <1>1, <1>2, <2>4, <2>5 DEF Linked, R!Exists
    <3>2. \A t \in R!Threads :
            t \in Linked \ {current} <=> state[t] = "READY" /\ t \notin freed
      BY <1>3, <2>5 DEF Linked, R!Exists
    <3>3. Linked \subseteq R!Threads /\ Linked' \subseteq R!Threads
      BY DEF Linked, R!Threads
    <3>4. ~Halved'
      BY <1>1, <1>2, <2>1, <2>4, <2>5 DEF Halved
    <3> QED
      BY <3>1, <3>2, <3>3, <3>4
  <2>7. Doing'
    BY <1>1, <1>2, <1>3, <2>1, <2>4, <2>5 DEF Doing, R!Exists, R!Calling
  <2> QED
    BY <1>1, <1>2, <2>3, <2>6, <2>7 DEF LinkShape
<1> QED
  BY <1>1, <1>4, <1>5

\* A thread that TIM3 wakes is not in the ring; it joins a ring that is half
\* unlinked where that is whole.
LEMMA WakeShape ==
  ASSUME RingType, RingType', ContextsOwn, Doing, LinkShape, ~R!Harmed',
         NEW t \in R!Threads, R!Expire(t)
  PROVE  Doing' /\ LinkShape'
<1> USE RingConstants
<1>1. UNCHANGED <<current, freed, cpu, pc, arg, handler>>
  BY DEF R!Expire, R!contexts
<1>2. CASE state[t] # "SLEEPING"
  <2>1. UNCHANGED <<next, prev, state, timer_own>>
    BY <1>2 DEF R!Expire, R!links
  <2>2. Linked' = Linked /\ (Halved' <=> Halved)
    BY <1>1, <2>1 DEF Linked, Halved, R!Exists
  <2>3. Doing'
    BY <1>1, <2>1 DEF Doing, R!Exists, R!Calling
  <2>4. LinkShape'
    BY <1>1, <2>1, <2>2 DEF LinkShape, HalfRing, R!target
  <2> QED
    BY <2>3, <2>4
<1>3. CASE state[t] = "SLEEPING"
  <2>1. /\ R!Link(t) /\ state' = [state EXCEPT ![t] = "READY"]
        /\ timer_own' = timer_own \ {t} /\ ~R!Disturbs(t)
    BY <1>3 DEF R!Expire, R!SetState, R!Harmed
  <2>2. /\ handler # "unlink_prev" /\ (handler = "unlink_next" => t # current)
        /\ \A u \in R!Threads :
             /\ R!Calling(u) => t # R!target(u)
             /\ pc[u] \notin {"create", "resume_link"}
             /\ pc[u] \in {"unlink_prev", "unlink_again", "delete_prev"}
                  => current \notin {R!target(u), next[R!target(u)]}
    BY <2>1 DEF R!Disturbs
  <2>3. t # current /\ (R!Calling(Kernel) => t # arg) /\ current \in Linked
    BY <1>3, <2>2 DEF Doing, R!Calling, R!target, RingType, PlaceType, Linked
  <2>4. t \notin Linked /\ t \notin freed
    BY <1>3, <2>3 DEF Linked, R!Calling, Doing
  <2>5. Linked' = Linked \cup {t} /\ (Halved' <=> Halved)
    BY <1>1, <2>1, <2>3, <2>4 DEF Linked, Halved, R!Exists, RingType, ThreadType
  <2>6. Doing'
    BY <1>1, <1>3, <2>1, <2>3, <2>4
    DEF Doing, R!Exists, R!Calling, RingType, ThreadType
  <2>7. /\ next' = [next EXCEPT ![t] = current, ![prev[current]] = t]
        /\ prev' = [prev EXCEPT ![t] = prev[current], ![current] = t]
    BY <2>1 DEF R!Link
  <2>8. Linked \subseteq R!Threads
    BY DEF Linked
  <2>9. CASE Halved
    <3>1. /\ pc[current] \in {"unlink_prev", "delete_prev"}
          /\ current \notin {R!target(current), next[R!target(current)]}
      BY <2>2, <2>9 DEF Halved, Doing
    <3>2. PICK l : l = R!target(current)
      OBVIOUS
    <3>3. /\ l \in Linked /\ next[l] # l /\ prev[next[l]] = prev[l]
          /\ HalfRing(R!target(current))
      BY <2>9, <3>2 DEF LinkShape, HalfRing
    <3>4. PICK pv : /\ pv = [prev EXCEPT ![next[l]] = l]
                    /\ OneRing(Linked, next, pv)
      BY <3>2, <3>3 DEF HalfRing
    <3>5. /\ next[l] \in Linked /\ pv[current] \in Linked
          /\ next[pv[current]] = current
      BY <2>3, <3>3, <3>4 DEF OneRing
    <3>6. /\ pv[current] = prev[current] /\ prev[current] # l
          /\ t # next[l] /\ t # l
          /\ \A u \in Linked : u # next[l] => pv[u] = prev[u]
      BY <2>4, <2>8, <3>1, <3>2, <3>3, <3>4, <3>5 DEF RingType, LinksType
    <3>7. /\ next'[l] = next[l] /\ prev'[next[l]] = prev[l]
          /\ prev'[l] = prev[l]
      BY <2>4, <2>7, <2>8, <3>1, <3>2, <3>3, <3>5, <3>6
      DEF RingType, LinksType
    <3>8. PICK pv2 : pv2 = [prev' EXCEPT ![next'[l]] = l]
      OBVIOUS
    <3>9. /\ next'[t] = current /\ next'[pv[current]] = t
          /\ pv2[t] = pv[current] /\ pv2[current] = t
          /\ \A u \in Linked : u # pv[current] => next'[u] = next[u]
          /\ \A u \in Linked : u # current => pv2[u] = pv[u]
      <4>1. /\ next'[t] = current /\ next'[pv[current]] = t
            /\ \A u \in Linked : u # pv[current] => next'[u] = next[u]
        BY <2>4, <2>7, <2>8, <3>5, <3>6 DEF RingType, LinksType
      <4>2. /\ prev'[t] = prev[current] /\ prev'[current] = t
            /\ \A u \in Linked : u # current => prev'[u] = prev[u]
        BY <2>3, <2>4, <2>7, <2>8 DEF RingType, LinksType
      <4>3. prev' \in [R!Threads -> R!Threads \cup {NULL}]
        BY DEF RingType, LinksType
      <4>4. /\ \A u \in R!Threads : u # next[l] => pv2[u] = prev'[u]
            /\ pv2[next[l]] = l /\ pv[next[l]] = l
        BY <2>8, <3>4, <3>5, <3>7, <3>8, <4>3 DEF RingType, LinksType
      <4> QED
        BY <2>3, <2>8, <3>1, <3>2, <3>6, <4>1, <4>2, <4>4
    <3>10. OneRing(Linked \cup {t}, next', pv2)
      <4>1. OneRing(Linked, next, pv) /\ current \in Linked /\ t \notin Linked
        BY <2>3, <2>4, <3>4
      <4> QED
        BY <3>9, <4>1, JoinRing
    <3>11. HalfRing(l)'
      BY <2>5, <3>3, <3>7, <3>8, <3>10 DEF HalfRing
    <3>12. R!target(current)' = l
      BY <1>1, <3>2 DEF R!target
    <3>13. pc'[Kernel] \notin {"create", "resume_link", "unlink_again"}
      BY <1>1, <2>2, <3>1 DEF Doing, R!Calling
    <3> QED
      BY <2>5, <2>6, <2>9, <3>11, <3>12, <3>13 DEF LinkShape
  <2>10. CASE ~Halved
    <3>1. OneRing(Linked, next, prev)
      BY <2>10 DEF LinkShape
    <3>2. OneRing(Linked \cup {t}, next', prev')
      BY <2>1, <2>3, <2>4, <3>1, LinkedAnew
    <3>3. ASSUME pc[Kernel] = "unlink_again"
          PROVE  /\ next'[arg] \in Linked' /\ prev'[arg] \in Linked'
                 /\ next'[prev'[arg]] = next'[arg]
                 /\ prev'[next'[arg]] = prev'[arg]
      <4>1. /\ current = Kernel /\ arg \in R!Threads /\ arg # t
            /\ arg # current /\ arg \notin Linked
        BY <2>3, <3>3, KernelCalls DEF R!Calling, Linked, Doing
      <4>2. /\ next[arg] \in Linked /\ prev[arg] \in Linked
            /\ next[prev[arg]] = next[arg] /\ prev[next[arg]] = prev[arg]
            /\ next[arg] # current
        BY <2>2, <3>3, <4>1 DEF LinkShape, R!target
      <4>3. /\ prev[current] \in Linked /\ next[prev[current]] = current
            /\ prev[arg] # prev[current]
        BY <2>3, <3>1, <4>2 DEF OneRing
      <4>4. /\ next'[arg] = next[arg] /\ prev'[arg] = prev[arg]
            /\ next'[prev[arg]] = next[prev[arg]]
            /\ prev'[next[arg]] = prev[next[arg]]
        BY <2>4, <2>7, <2>8, <4>1, <4>2, <4>3 DEF RingType, LinksType
      <4> QED
        BY <2>5, <4>2, <4>4
    <3> QED
      BY <1>1, <2>2, <2>5, <2>6, <2>10, <3>2, <3>3 DEF LinkShape
  <2> QED
    BY <2>9, <2>10
<1> QED
  BY <1>2, <1>3

LEMMA ShapeStep ==
  RingType /\ ContextsOwn /\ RingShape /\ [R!Next]_ringVars => RingShape'
<1> SUFFICES ASSUME RingType, ContextsOwn, RingShape, [R!Next]_ringVars,
                    ~R!Harmed'
             PROVE  Doing' /\ LinkShape'
  BY DEF RingShape
<1>1. RingType'
  BY RingTypeStep
<1>2. causes \subseteq causes'
  BY DEF ringVars, R!Next, R!BootCreate, R!SwitchToKernel, R!os_first_start,
     R!Call, R!Expire, R!KernelCall, R!PendSV, R!PendSVUnlink, R!BeginSleep,
     R!BeginDelete, R!Arm, R!SleepUnlink, R!EndDelete, R!BeginCreate,
     R!BeginResume, R!EndCreate, R!ResumeLink, R!EndResume, R!UseFreed,
     R!ThreadFrame
<1>3. Doing /\ LinkShape
  BY <1>2 DEF RingShape, R!Harmed
<1>4. CASE UNCHANGED ringVars \/ R!os_first_start
           \/ \E t \in Applications : R!SwitchToKernel(t)
  BY <1>1, <1>3, <1>4, QuietSteps
<1>5. CASE \E t \in Applications : R!BootCreate(t)
  BY <1>1, <1>3, <1>5, BootCreateShape
<1>6. CASE R!PendSV \/ R!PendSVUnlink
  BY <1>1, <1>3, <1>6, SwitchShape, SwitchUnlinkShape
<1>7. CASE \E t \in R!Threads : R!Expire(t)
  BY <1>1, <1>3, <1>7, WakeShape
<1>8. CASE \E t \in R!Threads : R!Call(t)
  BY <1>1, <1>3, <1>8, SleepShape, BeginDeleteShape, QuietSteps,
     SleepUnlinkShape, EndDeleteShape DEF R!Call
<1>9. CASE R!KernelCall
  BY <1>1, <1>3, <1>9, CreateShape, LinkShapeSteps, QuietSteps
  DEF R!KernelCall
<1> QED
  BY <1>4, <1>5, <1>6, <1>7, <1>8, <1>9 DEF R!Next

\* Between calls the ring holds exactly the READY threads, linked both ways,
\* whatever was created, put to sleep, woken, deleted and switched before; and
\* what is saved of a thread is its own, until a thread returns from its
\* function (operate_thread_list.c:65-110, thread_manage.c:60-90,
\* os_thread_schedule.s:82-107).
THEOREM RingAlwaysIntact == Spec => []RingIntact
<1>1. Init => RingType /\ ContextsOwn /\ RingShape
  BY InitRing, InitContexts, InitShape DEF Init
<1>2. RingType /\ ContextsOwn /\ RingShape /\ [Next]_vars
        => (RingType /\ ContextsOwn /\ RingShape)'
  BY RingSteps, RingTypeStep, ContextsStep, ShapeStep
<1>3. RingType /\ ContextsOwn /\ RingShape => RingIntact
  BY ShapeIsIntact DEF RingIntact, R!ContextsKept, ContextsOwn
<1> QED
  BY <1>1, <1>2, <1>3, PTL DEF Spec

-----------------------------------------------------------------------------
\* Time slices.  The ring is a sequence here: its first thread has the
\* processor, and whoever is behind another one runs after it.
Ready(p) == status[ring[p]] = "READY"

\* What a thread may still count down in its turn; a turn is never longer.
Rest(u) == IF left[u] = 0 THEN Wrap ELSE left[u]

SliceType ==
  /\ ring \in Seq(S!Threads) /\ Len(ring) >= 1
  /\ status \in [S!Threads -> {"NEW", "READY", "SLEEPING", "DELETED"}]
  /\ slice \in [S!Threads -> 0 .. Wrap - 1]
  /\ left \in [S!Threads -> 0 .. Wrap - 1]
  /\ {switch, tick, masked} \subseteq BOOLEAN
  /\ waited \in [S!Threads -> [S!Threads -> Nat]]

\* The ring holds each READY thread once and, until PendSV takes it out, a
\* first one that sleeps; the kernel thread is READY for ever.
RingOfReady ==
  /\ \A p, q \in 1 .. Len(ring) : ring[p] = ring[q] => p = q
  /\ status[Kernel] = "READY"
  /\ \A u \in S!Threads :
       status[u] = "READY" => \E p \in 1 .. Len(ring) : ring[p] = u
  /\ \A p \in 2 .. Len(ring) : Ready(p)
  /\ Ready(1) \/ (status[ring[1]] = "SLEEPING" /\ switch)
  /\ masked => ring[1] = Kernel /\ ~switch
  /\ \A u \in S!Threads : slice[u] # 0 => left[u] \in 1 .. slice[u]

\* Whoever has the processor or is not in the ring has waited for no one; a
\* thread has waited a turn of each other one at most, and for none of those
\* that run before it; and with the rest of the present turn it is one turn.
Waiting ==
  /\ \A t \in S!Threads :
       (\A p \in 2 .. Len(ring) : ring[p] # t) => waited[t] = S!NoWait
  /\ \A t, u \in S!Threads : status[u] = "NEW" => waited[t][u] = 0
  /\ \A p \in 2 .. Len(ring) : \A u \in S!Threads :
       waited[ring[p]][u] <= S!Turn(u)
  /\ \A p \in 2 .. Len(ring) : \A q \in 2 .. p : waited[ring[p]][ring[q]] = 0
  /\ ~switch => \A p \in 2 .. Len(ring) :
       waited[ring[p]][ring[1]] + Rest(ring[1]) <= S!Turn(ring[1])

LEMMA CountDown ==
  ASSUME NEW n \in Nat, n > 0, NEW x \in 0 .. n - 1
  PROVE  (x - 1) % n = IF x = 0 THEN n - 1 ELSE x - 1
OBVIOUS

LEMMA TailView ==
  ASSUME NEW A, NEW s \in Seq(A), Len(s) >= 1
  PROVE  /\ Tail(s) \in Seq(A) /\ Len(Tail(s)) = Len(s) - 1
         /\ \A j \in 1 .. Len(s) - 1 : Tail(s)[j] = s[j + 1]
         /\ Head(s) = s[1]
OBVIOUS

LEMMA CountUp ==
  ASSUME NEW A, NEW u \in A, NEW f \in [A -> Nat]
  PROVE  /\ [f EXCEPT ![u] = @ + 1] \in [A -> Nat]
         /\ [f EXCEPT ![u] = @ + 1][u] = f[u] + 1 /\ f[u] \in Nat
         /\ \A v \in A : v # u => [f EXCEPT ![u] = @ + 1][v] = f[v]
OBVIOUS

LEMMA RotatedView ==
  ASSUME NEW A, NEW s \in Seq(A), Len(s) >= 1
  PROVE  /\ Append(Tail(s), s[1]) \in Seq(A)
         /\ Len(Append(Tail(s), s[1])) = Len(s)
         /\ \A j \in 1 .. Len(s) : Append(Tail(s), s[1])[j] =
              IF j < Len(s) THEN s[j + 1] ELSE s[1]
<1>1. PICK r \in Seq(A) : r = Tail(s)
  BY TailView
<1>2. /\ Len(r) = Len(s) - 1 /\ Len(s) \in Nat /\ s[1] \in A
      /\ \A j \in 1 .. Len(s) - 1 : r[j] = s[j + 1]
  BY <1>1, TailView
<1>3. /\ Append(r, s[1]) \in Seq(A) /\ Len(Append(r, s[1])) = Len(r) + 1
      /\ \A j \in 1 .. Len(r) + 1 :
           Append(r, s[1])[j] = IF j = Len(r) + 1 THEN s[1] ELSE r[j]
  BY <1>2, AppendView
<1>4. ASSUME NEW j \in 1 .. Len(s)
      PROVE  Append(r, s[1])[j] = IF j < Len(s) THEN s[j + 1] ELSE s[1]
  <2>1. Len(r) + 1 = Len(s) /\ j \in 1 .. Len(r) + 1
    BY <1>2
  <2>2. j < Len(s) => j \in 1 .. Len(s) - 1
    BY <1>2
  <2> QED
    BY <1>2, <1>3, <2>1, <2>2
<1>5. Len(Append(r, s[1])) = Len(s)
  BY <1>2, <1>3
<1> QED
  BY <1>1, <1>3, <1>4, <1>5, Zenon

LEMMA SliceSteps == [Next]_vars => [S!Next]_sliceVars
BY DEF Next, vars

LEMMA SliceConstants ==
  /\ Kernel \in S!Threads /\ Kernel \notin Applications
  /\ Applications \subseteq S!Threads
  /\ Wrap \in Nat /\ Wrap > 2 /\ Slices \subseteq 0 .. Wrap - 1
BY OtherAssumption DEF S!SliceAssumption, S!Threads

LEMMA SliceView ==
  ASSUME SliceType
  PROVE  /\ S!current = ring[1] /\ ring[1] \in S!Threads
         /\ \A p \in 1 .. Len(ring) : ring[p] \in S!Threads
         /\ Len(ring) \in Nat /\ 1 \in 1 .. Len(ring)
         /\ \A t : t \in S!ToSet(Tail(ring)) <=>
                     \E p \in 2 .. Len(ring) : ring[p] = t
         /\ \A t : t \in S!ToSet(ring) <=>
                     \E p \in 1 .. Len(ring) : ring[p] = t
<1>1. /\ S!current = ring[1] /\ ring[1] \in S!Threads
      /\ \A p \in 1 .. Len(ring) : ring[p] \in S!Threads
      /\ Len(ring) \in Nat /\ 1 \in 1 .. Len(ring)
  BY TailView DEF SliceType, S!current
<1>2. \A t : t \in S!ToSet(ring) <=> \E p \in 1 .. Len(ring) : ring[p] = t
  <2>1. DOMAIN ring = 1 .. Len(ring)
    BY DEF SliceType
  <2> QED
    BY <2>1, Zenon DEF S!ToSet
<1>3. /\ Tail(ring) \in Seq(S!Threads) /\ Len(Tail(ring)) = Len(ring) - 1
      /\ \A j \in 1 .. Len(ring) - 1 : Tail(ring)[j] = ring[j + 1]
  BY TailView DEF SliceType
<1>4. ASSUME NEW t
      PROVE  t \in S!ToSet(Tail(ring)) <=>
               \E p \in 2 .. Len(ring) : ring[p] = t
  <2>0. DOMAIN Tail(ring) = 1 .. Len(ring) - 1
    BY <1>3
  <2>1. t \in S!ToSet(Tail(ring)) <=>
          \E j \in 1 .. Len(ring) - 1 : Tail(ring)[j] = t
    BY <2>0, Zenon DEF S!ToSet
  <2>2. ASSUME NEW j \in 1 .. Len(ring) - 1, Tail(ring)[j] = t
        PROVE  \E p \in 2 .. Len(ring) : ring[p] = t
    <3>1. j + 1 \in 2 .. Len(ring) /\ ring[j + 1] = t
      BY <1>1, <1>3, <2>2
    <3> QED
      BY <3>1
  <2>3. ASSUME NEW p \in 2 .. Len(ring), ring[p] = t
        PROVE  \E j \in 1 .. Len(ring) - 1 : Tail(ring)[j] = t
    <3>1. p - 1 \in 1 .. Len(ring) - 1 /\ Tail(ring)[p - 1] = ring[(p - 1) + 1]
      BY <1>1, <1>3
    <3> QED
      BY <2>3, <3>1
  <2> QED
    BY <2>1, <2>2, <2>3
<1> QED
  BY <1>1, <1>2, <1>4

LEMMA TurnIs ==
  ASSUME SliceType, RingOfReady, NEW u \in S!Threads
  PROVE  /\ S!Turn(u) \in Nat /\ S!Turn(u) >= 1
         /\ Rest(u) \in Nat /\ Rest(u) >= 1 /\ Rest(u) <= S!Turn(u)
<1>1. /\ slice[u] \in 0 .. Wrap - 1 /\ left[u] \in 0 .. Wrap - 1
      /\ Wrap \in Nat /\ Wrap > 2
      /\ slice[u] # 0 => left[u] \in 1 .. slice[u]
  BY SliceConstants DEF SliceType, RingOfReady
<1> QED
  BY <1>1 DEF S!Turn, Rest

LEMMA InitSlices == S!Init => SliceType /\ RingOfReady /\ Waiting
<1> SUFFICES ASSUME S!Init PROVE SliceType /\ RingOfReady /\ Waiting
  OBVIOUS
<1>1. ring \in Seq(S!Threads) /\ Len(ring) = 1 /\ ring[1] = Kernel
  BY SliceConstants DEF S!Init
<1>2. /\ 0 \in 0 .. Wrap - 1 /\ 2 \in 0 .. Wrap - 1 /\ Kernel \in S!Threads
      /\ 1 \in 1 .. Len(ring) /\ 2 .. Len(ring) = {}
      /\ 1 .. Len(ring) = {1} /\ 2 \in 1 .. 2
  BY <1>1, SliceConstants
<1>3. /\ slice \in [S!Threads -> 0 .. Wrap - 1] /\ left = slice
      /\ \A u \in S!Threads : slice[u] # 0 => slice[u] = 2
  BY <1>2 DEF S!Init
<1>4. /\ status \in [S!Threads -> {"NEW", "READY", "SLEEPING", "DELETED"}]
      /\ \A u \in S!Threads : status[u] = "READY" <=> u = Kernel
      /\ waited = [t \in S!Threads |-> S!NoWait]
      /\ switch = FALSE /\ tick = FALSE /\ masked = FALSE
  BY DEF S!Init
<1>5. /\ waited \in [S!Threads -> [S!Threads -> Nat]]
      /\ \A t, u \in S!Threads : waited[t][u] = 0
      /\ \A t \in S!Threads : waited[t] = S!NoWait
  BY <1>4 DEF S!NoWait
<1>6. SliceType
  <2>1. left \in [S!Threads -> 0 .. Wrap - 1] /\ Len(ring) >= 1
    BY <1>1, <1>3
  <2> QED
    BY <1>1, <1>3, <1>4, <1>5, <2>1 DEF SliceType
<1>7. RingOfReady
  <2>1. \A u \in S!Threads : slice[u] # 0 => left[u] \in 1 .. slice[u]
    BY <1>2, <1>3
  <2>2. status[Kernel] = "READY" /\ Ready(1)
    BY <1>1, <1>2, <1>4 DEF Ready
  <2>3. \A u \in S!Threads :
          status[u] = "READY" => \E p \in 1 .. Len(ring) : ring[p] = u
    BY <1>1, <1>2, <1>4
  <2>4. \A p, q \in 1 .. Len(ring) : ring[p] = ring[q] => p = q
    BY <1>2
  <2>5. (\A p \in 2 .. Len(ring) : Ready(p)) /\ ~masked
    BY <1>2, <1>4
  <2> QED
    BY <2>1, <2>2, <2>3, <2>4, <2>5, Zenon DEF RingOfReady
<1>8. Waiting
  BY <1>2, <1>5 DEF Waiting
<1> QED
  BY <1>6, <1>7, <1>8

\* Steps that leave the ring, the slices and what was waited alone.
LEMMA StillWaiting ==
  ASSUME SliceType, Waiting, UNCHANGED <<ring, slice, left, waited>>,
         \A u \in S!Threads : status'[u] = "NEW" => status[u] = "NEW",
         ~switch' => ~switch
  PROVE  Waiting'
BY DEF Waiting, S!Turn, Rest, S!NoWait

\* A tick in the turn of the first thread.
LEMMA TickWaits ==
  ASSUME SliceType, RingOfReady, Waiting, S!Handle, ~switch,
         UNCHANGED <<ring, status, slice>>,
         {tick', masked'} \subseteq BOOLEAN, masked' => masked /\ ~switch'
  PROVE  SliceType' /\ RingOfReady' /\ Waiting'
<1> DEFINE c == ring[1]
<1>0. /\ S!current = c /\ c \in S!Threads
      /\ \A p \in 1 .. Len(ring) : ring[p] \in S!Threads
      /\ Len(ring) \in Nat /\ 1 \in 1 .. Len(ring)
      /\ \A t : t \in S!ToSet(Tail(ring)) <=>
                  \E p \in 2 .. Len(ring) : ring[p] = t
  BY SliceView
<1>1. /\ Rest(c) \in Nat /\ Rest(c) >= 1 /\ Rest(c) <= S!Turn(c)
      /\ S!Turn(c) \in Nat /\ left[c] \in 0 .. Wrap - 1
      /\ slice[c] \in 0 .. Wrap - 1
      /\ Wrap \in Nat /\ Wrap > 2
  BY <1>0, TurnIs, SliceConstants DEF SliceType
<1> HIDE DEF c
<1>2. S!CountedDown = Rest(c) - 1
  <2>1. S!CountedDown = IF left[c] = 0 THEN Wrap - 1 ELSE left[c] - 1
    <3>1. S!CountedDown = (left[c] - 1) % Wrap
      BY <1>0 DEF S!CountedDown
    <3>2. Wrap > 0
      BY <1>1
    <3> QED
      BY <1>1, <3>1, <3>2, CountDown
  <2> QED
    BY <1>1, <2>1 DEF Rest
<1>3. /\ left' = [left EXCEPT ![c] = IF Rest(c) = 1 THEN slice[c]
                                     ELSE Rest(c) - 1]
      /\ switch' = (Rest(c) = 1)
      /\ waited' = [t \in S!Threads |->
                     IF \E p \in 2 .. Len(ring) : ring[p] = t
                     THEN [waited[t] EXCEPT ![c] = @ + 1] ELSE waited[t]]
  BY <1>0, <1>1, <1>2 DEF S!Handle, S!NewTurn
<1>4. S!Turn(c) <= Wrap /\ Rest(c) - 1 \in 0 .. Wrap - 1
  BY <1>1 DEF S!Turn
<1>16. left'[c] = IF Rest(c) = 1 THEN slice[c] ELSE Rest(c) - 1
  BY <1>0, <1>3 DEF SliceType
<1>5. SliceType'
  <2>1. left' \in [S!Threads -> 0 .. Wrap - 1]
    BY <1>0, <1>1, <1>3, <1>4 DEF SliceType
  <2>2. waited' \in [S!Threads -> [S!Threads -> Nat]]
    <3>1. ASSUME NEW t \in S!Threads PROVE waited'[t] \in [S!Threads -> Nat]
      <4>1. waited[t] \in [S!Threads -> Nat]
        BY DEF SliceType
      <4>2. [waited[t] EXCEPT ![c] = @ + 1] \in [S!Threads -> Nat]
        BY <1>0, <4>1, CountUp
      <4> QED
        BY <1>3, <4>1, <4>2
    <3> QED
      BY <1>3, <3>1
  <2>3. switch' \in BOOLEAN
    BY <1>3
  <2> QED
    BY <2>1, <2>2, <2>3 DEF SliceType
<1>6. slice[c] # 0 => left'[c] \in 1 .. slice[c]
  <2>1. slice[c] # 0 => S!Turn(c) = slice[c]
    BY DEF S!Turn
  <2> QED
    BY <1>1, <1>16, <2>1
<1>7. RingOfReady'
  BY <1>0, <1>3, <1>6 DEF RingOfReady, Ready, SliceType
<1>8. ASSUME NEW p \in 2 .. Len(ring)
      PROVE  /\ p \in 1 .. Len(ring) /\ ring[p] \in S!Threads /\ ring[p] # c
             /\ waited'[ring[p]][c] = waited[ring[p]][c] + 1
             /\ waited[ring[p]][c] \in Nat
             /\ \A v \in S!Threads :
                  v # c => waited'[ring[p]][v] = waited[ring[p]][v]
  <2>1. p \in 1 .. Len(ring) /\ ring[p] \in S!Threads /\ ring[p] # c
    BY <1>0 DEF RingOfReady, c
  <2>2. waited'[ring[p]] = [waited[ring[p]] EXCEPT ![c] = @ + 1]
    BY <1>3, <2>1
  <2>3. waited[ring[p]] \in [S!Threads -> Nat]
    BY <2>1 DEF SliceType
  <2> QED
    BY <1>0, <2>1, <2>2, <2>3, CountUp
<1>9. ASSUME NEW t \in S!Threads, \A p \in 2 .. Len(ring) : ring[p] # t
      PROVE  waited'[t] = S!NoWait
  BY <1>3, <1>9 DEF Waiting
<1>10. ASSUME NEW p \in 2 .. Len(ring), NEW u \in S!Threads
       PROVE  waited'[ring[p]][u] <= S!Turn(u)
  <2>1. CASE u # c
    BY <1>8, <2>1 DEF Waiting
  <2>2. CASE u = c
    <3>1. waited[ring[p]][c] + Rest(c) <= S!Turn(c)
      BY DEF Waiting, c
    <3>2. /\ waited'[ring[p]][c] = waited[ring[p]][c] + 1
          /\ waited[ring[p]][c] \in Nat
      BY <1>0, <1>8
    <3> QED
      BY <1>1, <2>2, <3>1, <3>2
  <2> QED
    BY <2>1, <2>2
<1>11. ASSUME NEW p \in 2 .. Len(ring), NEW q \in 2 .. p
       PROVE  waited'[ring[p]][ring[q]] = 0
  <2>1. q \in 2 .. Len(ring)
    BY <1>0
  <2>2. waited[ring[p]][ring[q]] = 0
    BY DEF Waiting
  <2>3. ring[q] \in S!Threads /\ ring[q] # c
    BY <1>8, <2>1
  <2> QED
    BY <1>8, <2>2, <2>3
<1>12. ASSUME NEW p \in 2 .. Len(ring), ~switch'
       PROVE  waited'[ring[p]][c] + Rest(c)' <= S!Turn(c)
  <2>1. waited[ring[p]][c] + Rest(c) <= S!Turn(c)
    BY DEF Waiting, c
  <2>3. /\ waited'[ring[p]][c] = waited[ring[p]][c] + 1
        /\ waited[ring[p]][c] \in Nat
    BY <1>0, <1>8
  <2>2. Rest(c)' = Rest(c) - 1
    <3>1. left'[c] = Rest(c) - 1 /\ Rest(c) # 1
      BY <1>3, <1>12, <1>16
    <3>2. c' = c
      BY DEF c
    <3> QED
      BY <1>1, <3>1, <3>2 DEF Rest
  <2> QED
    BY <1>1, <2>1, <2>2, <2>3
<1>13. ASSUME NEW t \in S!Threads, NEW u \in S!Threads, status[u] = "NEW"
       PROVE  waited'[t][u] = 0
  <2>1. u # c
    BY <1>0, <1>13 DEF RingOfReady, Ready, c
  <2>2. waited[t] \in [S!Threads -> Nat] /\ waited[t][u] = 0
    BY <1>13 DEF SliceType, Waiting
  <2> QED
    BY <1>3, <2>1, <2>2
<1>14. \A u \in S!Threads : S!Turn(u)' = S!Turn(u)
  BY DEF S!Turn
<1>15. S!NoWait' = S!NoWait
  BY DEF S!NoWait
<1> QED
  BY <1>0, <1>5, <1>7, <1>9, <1>10, <1>11, <1>12, <1>13, <1>14, <1>15
  DEF Waiting, c

LEMMA NoWaitIs == \A u \in S!Threads : S!NoWait[u] = 0
BY DEF S!NoWait

\* The positions of the ring that PendSV leaves: everyone moves one place up,
\* and the first thread goes to the end or, no longer READY, out.
LEMMA Turned ==
  ASSUME SliceType, RingOfReady, S!PendSV
  PROVE  /\ ring' \in Seq(S!Threads) /\ Len(ring') >= 1
         /\ \/ Len(ring') = Len(ring) /\ Ready(1)
            \/ Len(ring') = Len(ring) - 1 /\ ~Ready(1)
         /\ \A p \in 1 .. Len(ring') :
              ring'[p] = IF p < Len(ring) THEN ring[p + 1] ELSE ring[1]
<1>1. /\ S!current = ring[1] /\ ring[1] \in S!Threads
      /\ Len(ring) \in Nat /\ 1 \in 1 .. Len(ring)
  BY SliceView
<1>2. /\ Tail(ring) \in Seq(S!Threads) /\ Len(Tail(ring)) = Len(ring) - 1
      /\ \A j \in 1 .. Len(ring) - 1 : Tail(ring)[j] = ring[j + 1]
  BY TailView DEF SliceType
<1>3. CASE Ready(1)
  <2>1. ring' = Append(Tail(ring), ring[1])
    BY <1>1, <1>3 DEF S!PendSV, S!Rotated, Ready
  <2>2. ring \in Seq(S!Threads) /\ Len(ring) >= 1
    BY DEF SliceType
  <2> QED
    BY <1>1, <1>3, <2>1, <2>2, RotatedView
<1>4. CASE ~Ready(1)
  <2>1. ring' = Tail(ring)
    BY <1>1, <1>4 DEF S!PendSV, Ready
  <2>2. PICK p \in 1 .. Len(ring) : ring[p] = Kernel
    BY SliceConstants DEF RingOfReady
  <2>3. p # 1
    BY <1>4, <2>2 DEF RingOfReady, Ready
  <2>4. Len(ring') = Len(ring) - 1 /\ Len(ring') >= 1
    BY <1>1, <1>2, <2>1, <2>3
  <2>5. ASSUME NEW k \in 1 .. Len(ring')
        PROVE  ring'[k] = IF k < Len(ring) THEN ring[k + 1] ELSE ring[1]
    <3>1. k \in 1 .. Len(ring) - 1 /\ k < Len(ring)
      BY <1>1, <2>4
    <3> QED
      BY <1>2, <2>1, <3>1
  <2> QED
    BY <1>2, <1>4, <2>1, <2>4, <2>5
<1> QED
  BY <1>3, <1>4

LEMMA TurnWaits ==
  ASSUME SliceType, RingOfReady, Waiting, S!PendSV
  PROVE  SliceType' /\ RingOfReady' /\ Waiting'
<1> DEFINE n == Len(ring)
<1> DEFINE m == Len(ring')
<1>1. /\ S!current = ring[1] /\ ring[1] \in S!Threads
      /\ \A p \in 1 .. n : ring[p] \in S!Threads
      /\ n \in Nat /\ 1 \in 1 .. n
  BY SliceView
<1>2. /\ ring' \in Seq(S!Threads) /\ m \in Nat /\ m >= 1
      /\ (m = n /\ Ready(1)) \/ (m = n - 1 /\ ~Ready(1))
      /\ \A p \in 1 .. m : ring'[p] = IF p < n THEN ring[p + 1] ELSE ring[1]
  BY Turned
<1> HIDE DEF n, m
<1>3. /\ UNCHANGED <<status, slice, left, tick, masked>>
      /\ ~masked /\ ~switch' /\ switch' \in BOOLEAN
      /\ waited' = [waited EXCEPT ![ring'[1]] = S!NoWait]
  BY <1>2, TailView DEF S!PendSV, m
<1>4. \A p \in 1 .. m :
        \/ p < n /\ p + 1 \in 2 .. n /\ p + 1 \in 1 .. n
           /\ ring'[p] = ring[p + 1]
        \/ p = n /\ m = n /\ Ready(1) /\ ring'[p] = ring[1]
  BY <1>1, <1>2
<1>5. \A p \in 1 .. m : ring'[p] \in S!Threads
  BY <1>1, <1>4
<1>6. 1 \in 1 .. m
  BY <1>2
<1>7. SliceType'
  <2>1. S!NoWait \in [S!Threads -> Nat]
    BY DEF S!NoWait
  <2>2. waited' \in [S!Threads -> [S!Threads -> Nat]]
    BY <1>3, <1>5, <1>6, <2>1 DEF SliceType
  <2> QED
    BY <1>2, <1>3, <2>2 DEF SliceType, m
<1>8. \A p, q \in 1 .. n : ring[p] = ring[q] => p = q
  BY DEF RingOfReady, n
<1>9. \A p, q \in 1 .. m : ring'[p] = ring'[q] => p = q
  BY <1>1, <1>2, <1>4, <1>8
<1>10. \A p \in 1 .. m : Ready(p)'
  BY <1>3, <1>4 DEF RingOfReady, Ready, n
<1>11. ASSUME NEW u \in S!Threads, NEW p \in 2 .. n, ring[p] = u
       PROVE  p - 1 \in 1 .. m /\ ring'[p - 1] = u
  <2>1. p - 1 \in 1 .. m /\ p - 1 < n /\ (p - 1) + 1 = p
    BY <1>1, <1>2
  <2> QED
    BY <1>2, <1>11, <2>1
<1>12. ASSUME NEW u \in S!Threads, status[u] = "READY"
       PROVE  \E p \in 1 .. m : ring'[p] = u
  <2>1. PICK p \in 1 .. n : ring[p] = u
    BY <1>12 DEF RingOfReady, n
  <2>2. CASE p = 1
    <3>1. m = n /\ n \in 1 .. m /\ ring'[n] = ring[1]
      BY <1>1, <1>2, <1>12, <2>1, <2>2 DEF Ready
    <3> QED
      BY <2>1, <2>2, <3>1
  <2>3. CASE p # 1
    <3>1. p \in 2 .. n
      BY <1>1, <2>3
    <3> QED
      BY <1>11, <2>1, <3>1
  <2> QED
    BY <2>2, <2>3
<1>13. RingOfReady'
  <2>1. \A p \in 2 .. m : Ready(p)'
    BY <1>2, <1>10
  <2>2. Ready(1)'
    BY <1>6, <1>10
  <2>3. status'[Kernel] = "READY"
    BY <1>3 DEF RingOfReady
  <2>4. \A u \in S!Threads : slice'[u] # 0 => left'[u] \in 1 .. slice'[u]
    BY <1>3 DEF RingOfReady
  <2> QED
    BY <1>3, <1>9, <1>12, <2>1, <2>2, <2>3, <2>4 DEF RingOfReady, m
<1>14. waited[ring[1]] = S!NoWait
  <2>1. \A p \in 2 .. n : p \in 1 .. n /\ p # 1
    BY <1>1
  <2>2. \A p \in 2 .. n : ring[p] # ring[1]
    BY <1>1, <1>8, <2>1
  <2> QED
    BY <1>1, <2>2 DEF Waiting, n
<1>15. /\ waited'[ring'[1]] = S!NoWait
       /\ \A t \in S!Threads : t # ring'[1] => waited'[t] = waited[t]
  BY <1>3, <1>5, <1>6 DEF SliceType
<1>16. ASSUME NEW t \in S!Threads, \A p \in 2 .. m : ring'[p] # t
       PROVE  waited'[t] = S!NoWait
  <2>1. CASE t = ring'[1]
    BY <1>15, <2>1
  <2>2. CASE t # ring'[1]
    <3>1. ASSUME NEW p \in 2 .. n, ring[p] = t
          PROVE  FALSE
      <4>1. p - 1 \in 1 .. m /\ ring'[p - 1] = t
        BY <1>11, <3>1
      <4>2. p - 1 # 1
        BY <2>2, <4>1
      <4>3. p - 1 \in 2 .. m
        BY <1>1, <1>2, <4>1, <4>2
      <4> QED
        BY <1>16, <4>1, <4>3
    <3>2. waited[t] = S!NoWait
      BY <3>1 DEF Waiting, n
    <3> QED
      BY <1>15, <2>2, <3>2
  <2> QED
    BY <2>1, <2>2
<1>17. ASSUME NEW t \in S!Threads, NEW u \in S!Threads, status[u] = "NEW"
       PROVE  waited'[t][u] = 0
  <2>1. waited[t][u] = 0
    BY <1>17 DEF Waiting
  <2> QED
    BY <1>15, <2>1, NoWaitIs
\* Who is behind the new first thread was behind the old one, or was first.
<1>18. ASSUME NEW p \in 2 .. m
       PROVE  /\ ring'[p] \in S!Threads
              /\ \/ p + 1 \in 2 .. n /\ ring'[p] = ring[p + 1]
                    /\ waited'[ring'[p]] = waited[ring[p + 1]]
                 \/ waited'[ring'[p]] = S!NoWait
  <2>1. p \in 1 .. m /\ p # 1
    BY <1>2
  <2>2. ring'[p] # ring'[1] /\ ring'[p] \in S!Threads
    BY <1>5, <1>6, <1>9, <2>1
  <2> QED
    BY <1>4, <1>14, <1>15, <2>1, <2>2
<1>19. ASSUME NEW p \in 2 .. m, NEW u \in S!Threads
       PROVE  waited'[ring'[p]][u] <= S!Turn(u)
  <2>1. S!Turn(u) \in Nat
    BY TurnIs
  <2>2. \A k \in 2 .. n : waited[ring[k]][u] <= S!Turn(u)
    BY DEF Waiting, n
  <2> QED
    BY <1>18, <2>1, <2>2, NoWaitIs
<1>20. ASSUME NEW p \in 2 .. m, NEW q \in 1 .. p
       PROVE  /\ ring'[q] \in S!Threads
              /\ waited'[ring'[p]][ring'[q]] = 0
  <2>1. q \in 1 .. m
    BY <1>2
  <2>2. CASE waited'[ring'[p]] = S!NoWait
    BY <1>5, <2>1, <2>2, NoWaitIs
  <2>3. CASE p + 1 \in 2 .. n /\ waited'[ring'[p]] = waited[ring[p + 1]]
    <3>1. q < n /\ q + 1 \in 2 .. p + 1 /\ ring'[q] = ring[q + 1]
      BY <1>1, <1>2, <2>1, <2>3
    <3>2. waited[ring[p + 1]][ring[q + 1]] = 0
      BY <2>3, <3>1 DEF Waiting, n
    <3> QED
      BY <1>5, <2>1, <2>3, <3>1, <3>2
  <2> QED
    BY <1>18, <2>2, <2>3
<1>21. ASSUME NEW p \in 2 .. m
       PROVE  waited'[ring'[p]][ring'[1]] + Rest(ring'[1]) <= S!Turn(ring'[1])
  <2>1. 1 \in 1 .. p
    BY <1>2
  <2>2. ring'[1] \in S!Threads /\ waited'[ring'[p]][ring'[1]] = 0
    BY <1>20, <2>1
  <2>3. PICK u \in S!Threads : u = ring'[1]
    BY <2>2
  <2>4. Rest(u) \in Nat /\ Rest(u) <= S!Turn(u) /\ S!Turn(u) \in Nat
    BY TurnIs
  <2> QED
    BY <2>2, <2>3, <2>4
<1>22. /\ \A u : S!Turn(u)' = S!Turn(u')
       /\ \A u : Rest(u)' = Rest(u')
       /\ S!NoWait' = S!NoWait
  BY <1>3 DEF S!Turn, Rest, S!NoWait
<1>23. \A p \in 2 .. m : \A q \in 2 .. p : q \in 1 .. p
  BY <1>2
<1> QED
  BY <1>3, <1>7, <1>13, <1>16, <1>17, <1>19, <1>20, <1>21, <1>22, <1>23
  DEF Waiting, m

\* A thread that joins is behind all the others and has waited for none.
LEMMA JoinWaits ==
  ASSUME SliceType, RingOfReady, Waiting, NEW u \in Applications,
         \A p \in 1 .. Len(ring) : ring[p] # u,
         ring' = Append(ring, u), UNCHANGED <<switch, tick, masked>>,
         status' = [status EXCEPT ![u] = "READY"],
         waited' = [waited EXCEPT ![u] = S!NoWait],
         slice' \in [S!Threads -> 0 .. Wrap - 1],
         left' \in [S!Threads -> 0 .. Wrap - 1],
         slice'[u] # 0 => left'[u] \in 1 .. slice'[u],
         \A v \in S!Threads :
           v # u => slice'[v] = slice[v] /\ left'[v] = left[v],
         status[u] = "NEW" \/ slice'[u] = slice[u]
  PROVE  SliceType' /\ RingOfReady' /\ Waiting'
<1> DEFINE n == Len(ring)
<1> DEFINE m == Len(ring')
<1>1. /\ ring[1] \in S!Threads
      /\ \A p \in 1 .. n : ring[p] \in S!Threads /\ ring[p] # u
      /\ n \in Nat /\ 1 \in 1 .. n
  BY SliceView
<1>2. ring \in Seq(S!Threads) /\ u \in S!Threads /\ u # Kernel
  BY SliceConstants DEF SliceType
<1>3. /\ ring' \in Seq(S!Threads) /\ m = n + 1
      /\ \A p \in 1 .. n + 1 : ring'[p] = IF p = n + 1 THEN u ELSE ring[p]
  BY <1>2, AppendView
<1> HIDE DEF n, m
<1>4. ASSUME NEW p \in 1 .. m
      PROVE  \/ p \in 1 .. n /\ ring'[p] = ring[p]
             \/ p = m /\ ring'[p] = u
  <2>1. /\ p \in 1 .. n + 1 /\ m = n + 1
        /\ p = n + 1 \/ (p # n + 1 /\ p \in 1 .. n)
    BY <1>1, <1>3
  <2> QED
    BY <1>3, <2>1
<1>5. /\ \A p \in 1 .. n : p \in 1 .. m /\ ring'[p] = ring[p]
      /\ m \in 1 .. m /\ ring'[m] = u /\ m \in Nat /\ m >= 2
  <2>1. m \in Nat /\ m >= 2 /\ m \in 1 .. m /\ m \in 1 .. n + 1
    BY <1>1, <1>3
  <2>2. \A p \in 1 .. n : p \in 1 .. m /\ p \in 1 .. n + 1 /\ p # n + 1
    BY <1>1, <1>3
  <2> QED
    BY <1>3, <2>1, <2>2
<1>6. \A v \in S!Threads :
        v # u => status'[v] = status[v] /\ waited'[v] = waited[v]
  BY <1>2 DEF SliceType
<1>7. status'[u] = "READY" /\ waited'[u] = S!NoWait
  BY <1>2 DEF SliceType
<1>8. SliceType'
  <2>1. S!NoWait \in [S!Threads -> Nat]
    BY DEF S!NoWait
  <2>2. waited' \in [S!Threads -> [S!Threads -> Nat]]
    BY <1>2, <2>1 DEF SliceType
  <2>3. status' \in [S!Threads -> {"NEW", "READY", "SLEEPING", "DELETED"}]
    BY <1>2 DEF SliceType
  <2>4. Len(ring') >= 1
    BY <1>5 DEF m
  <2> QED
    BY <1>3, <2>2, <2>3, <2>4 DEF SliceType
<1>9. RingOfReady'
  <2>1. \A p, q \in 1 .. n : ring[p] = ring[q] => p = q
    BY DEF RingOfReady, n
  <2>2. ASSUME NEW p \in 1 .. m, NEW q \in 1 .. m, ring'[p] = ring'[q]
        PROVE  p = q
    <3>1. CASE p \in 1 .. n /\ ring'[p] = ring[p]
      <4>1. q \in 1 .. n /\ ring'[q] = ring[q]
        BY <1>1, <1>4, <2>2, <3>1
      <4> QED
        BY <2>1, <2>2, <3>1, <4>1
    <3>2. CASE p = m /\ ring'[p] = u
      <4>1. q = m
        BY <1>1, <1>4, <2>2, <3>2
      <4> QED
        BY <3>2, <4>1
    <3> QED
      BY <1>4, <3>1, <3>2
  <2>3. ASSUME NEW v \in S!Threads, status'[v] = "READY"
        PROVE  \E p \in 1 .. m : ring'[p] = v
    <3>1. CASE v = u
      BY <1>5, <3>1
    <3>2. CASE v # u
      <4>1. PICK p \in 1 .. n : ring[p] = v
        BY <1>6, <2>3, <3>2 DEF RingOfReady, n
      <4> QED
        BY <1>5, <4>1
    <3> QED
      BY <3>1, <3>2
  <2>4. ASSUME NEW p \in 2 .. m PROVE Ready(p)'
    <3>1. p \in 1 .. m /\ (p \in 1 .. n => p \in 2 .. n)
      BY <1>1, <1>5
    <3>2. CASE p \in 1 .. n /\ ring'[p] = ring[p]
      <4>1. status[ring[p]] = "READY"
        BY <3>1, <3>2 DEF RingOfReady, Ready, n
      <4> QED
        BY <1>1, <1>6, <3>2, <4>1 DEF Ready
    <3>3. CASE ring'[p] = u
      BY <1>7, <3>3 DEF Ready
    <3> QED
      BY <1>4, <3>1, <3>2, <3>3
  <2>5. ring'[1] = ring[1] /\ status'[ring[1]] = status[ring[1]]
    BY <1>1, <1>5, <1>6
  <2>6. Ready(1)' \/ (status'[ring'[1]] = "SLEEPING" /\ switch')
    BY <2>5 DEF RingOfReady, Ready
  <2>7. \A v \in S!Threads : slice'[v] # 0 => left'[v] \in 1 .. slice'[v]
    BY DEF RingOfReady
  <2>8. status'[Kernel] = "READY"
    BY <1>2, <1>6, SliceConstants DEF RingOfReady
  <2>9. masked' => ring'[1] = Kernel /\ ~switch'
    BY <2>5 DEF RingOfReady
  <2> QED
    BY <2>2, <2>3, <2>4, <2>6, <2>7, <2>8, <2>9 DEF RingOfReady, m
<1>10. ASSUME NEW t \in S!Threads, \A p \in 2 .. m : ring'[p] # t
       PROVE  waited'[t] = S!NoWait
  <2>4. m \in 2 .. m
    BY <1>5
  <2>1. t # u
    BY <1>5, <1>10, <2>4
  <2>2. \A p \in 2 .. n : p \in 2 .. m /\ ring[p] # t
    BY <1>1, <1>3, <1>5, <1>10
  <2>3. waited[t] = S!NoWait
    BY <2>2 DEF Waiting, n
  <2> QED
    BY <1>6, <2>1, <2>3
<1>11. ASSUME NEW t \in S!Threads, NEW v \in S!Threads, status'[v] = "NEW"
       PROVE  waited'[t][v] = 0
  <2>1. v # u
    BY <1>7, <1>11
  <2>2. waited[t][v] = 0
    BY <1>6, <1>11, <2>1 DEF Waiting
  <2> QED
    BY <1>6, <1>7, <2>2, NoWaitIs
<1>12. ASSUME NEW p \in 2 .. m
       PROVE  \/ p \in 2 .. n /\ ring'[p] = ring[p]
                 /\ waited'[ring'[p]] = waited[ring[p]]
              \/ p = m /\ waited'[ring'[p]] = S!NoWait
  <2>1. p \in 1 .. m /\ (p \in 1 .. n => p \in 2 .. n)
    BY <1>1, <1>5
  <2> QED
    BY <1>1, <1>4, <1>6, <1>7, <2>1
<1> DEFINE turn == [v \in S!Threads |->
                  IF slice'[v] = 0 THEN Wrap ELSE slice'[v]]
<1> DEFINE rest == [v \in S!Threads |->
                  IF left'[v] = 0 THEN Wrap ELSE left'[v]]
<1>13. ASSUME NEW v \in S!Threads
       PROVE  turn[v] \in Nat /\ slice'[v] \in Nat
  <2>1. slice'[v] \in 0 .. Wrap - 1 /\ Wrap \in Nat
    BY SliceConstants
  <2> QED
    BY <2>1
<1>17. ASSUME NEW v \in S!Threads, v # u
       PROVE  turn[v] = S!Turn(v) /\ rest[v] = Rest(v)
  BY <1>17 DEF S!Turn, Rest
<1>18. slice'[u] = slice[u] => turn[u] = S!Turn(u)
  BY <1>2 DEF S!Turn
<1> HIDE DEF turn, rest
<1>14. ASSUME NEW p \in 2 .. m, NEW v \in S!Threads
       PROVE  waited'[ring'[p]][v] <= turn[v]
  <2>3. turn[v] \in Nat /\ S!NoWait[v] = 0
    BY <1>13, NoWaitIs
  <2>4. 0 <= turn[v]
    BY <2>3
  <2>1. CASE waited'[ring'[p]] = S!NoWait
    <3>1. waited'[ring'[p]][v] = 0
      BY <2>1, <2>3
    <3> QED
      BY <2>3, <2>4, <3>1, Zenon
  <2>2. CASE p \in 2 .. n /\ waited'[ring'[p]] = waited[ring[p]]
    <3>1. waited[ring[p]][v] <= S!Turn(v)
      BY <2>2 DEF Waiting, n
    <3>2. CASE v = u /\ status[u] = "NEW"
      <4>1. ring[p] \in S!Threads
        BY <1>1, <2>2
      <4>2. waited[ring[p]][v] = 0
        BY <3>2, <4>1 DEF Waiting
      <4> QED
        BY <2>2, <2>4, <4>2, Zenon
    <3>3. CASE v # u \/ slice'[u] = slice[u]
      BY <1>17, <1>18, <2>2, <3>1, <3>3
    <3> QED
      BY <3>2, <3>3
  <2> QED
    BY <1>12, <2>1, <2>2
<1>15. ASSUME NEW p \in 2 .. m, NEW q \in 2 .. p
       PROVE  waited'[ring'[p]][ring'[q]] = 0
  <2>1. q \in 1 .. m
    BY <1>5
  <2>2. ring'[q] \in S!Threads
    BY <1>1, <1>2, <1>4, <2>1
  <2>3. CASE waited'[ring'[p]] = S!NoWait
    BY <2>2, <2>3, NoWaitIs
  <2>4. CASE p \in 2 .. n /\ waited'[ring'[p]] = waited[ring[p]]
    <3>1. q \in 1 .. n
      BY <1>1, <2>4
    <3>2. ring'[q] = ring[q]
      BY <1>5, <3>1
    <3>3. waited[ring[p]][ring[q]] = 0
      BY <2>4 DEF Waiting, n
    <3> QED
      BY <2>4, <3>2, <3>3
  <2> QED
    BY <1>12, <2>3, <2>4
<1>16. ASSUME NEW p \in 2 .. m, ~switch'
       PROVE  waited'[ring'[p]][ring'[1]] + rest[ring'[1]] <= turn[ring'[1]]
  <2>1. ring'[1] = ring[1] /\ ring[1] # u /\ ring[1] \in S!Threads
    BY <1>1, <1>5
  <2>2. PICK c \in S!Threads : c = ring[1]
    BY <2>1
  <2>3. turn[c] = S!Turn(c) /\ rest[c] = Rest(c)
    BY <1>17, <2>1, <2>2
  <2>4. Rest(c) \in Nat /\ Rest(c) <= S!Turn(c)
    BY TurnIs
  <2>5. S!NoWait[c] = 0
    BY NoWaitIs
  <2>6. p \in 2 .. n => waited[ring[p]][c] + Rest(c) <= S!Turn(c)
    BY <1>16, <2>2 DEF Waiting, n
  <2>7. CASE waited'[ring'[p]] = S!NoWait
    <3>1. waited'[ring'[p]][ring'[1]] = 0 /\ ring'[1] = c
      BY <2>1, <2>2, <2>5, <2>7
    <3>2. 0 + rest[c] <= turn[c]
      BY <2>3, <2>4
    <3> QED
      BY <3>1, <3>2, Zenon
  <2>8. CASE p \in 2 .. n /\ waited'[ring'[p]] = waited[ring[p]]
    BY <2>1, <2>2, <2>3, <2>6, <2>8
  <2> QED
    BY <1>12, <2>7, <2>8
<1>19. \A v \in S!Threads : turn[v] = IF slice'[v] = 0 THEN Wrap ELSE slice'[v]
  BY DEF turn
<1>20. \A v \in S!Threads : rest[v] = IF left'[v] = 0 THEN Wrap ELSE left'[v]
  BY DEF rest
<1>21. Waiting'
  <2>1. \A t \in S!Threads :
          (\A p \in 2 .. m : ring'[p] # t) => waited'[t] = S!NoWait'
    BY <1>10 DEF S!NoWait
  <2>2. \A p \in 2 .. m : \A v \in S!Threads : waited'[ring'[p]][v] <=
          IF slice'[v] = 0 THEN Wrap ELSE slice'[v]
    BY <1>14, <1>19
  <2>3. ~switch' => \A p \in 2 .. m : waited'[ring'[p]][ring'[1]]
            + (IF left'[ring'[1]] = 0 THEN Wrap ELSE left'[ring'[1]])
          <= IF slice'[ring'[1]] = 0 THEN Wrap ELSE slice'[ring'[1]]
    <3>1. PICK c \in S!Threads : c = ring'[1]
      BY <1>1, <1>5
    <3>2. /\ turn[c] = IF slice'[c] = 0 THEN Wrap ELSE slice'[c]
          /\ rest[c] = IF left'[c] = 0 THEN Wrap ELSE left'[c]
      BY <1>19, <1>20
    <3> QED
      BY <1>16, <3>1, <3>2, Zenon
  <2> QED
    BY <1>11, <1>15, <2>1, <2>2, <2>3 DEF Waiting, S!Turn, Rest, m
<1> QED
  BY <1>8, <1>9, <1>21

\* Where a thread of the ring is, and the ring without it.
LEMMA PositionIs ==
  ASSUME SliceType, NEW k \in 1 .. Len(ring),
         \A p, q \in 1 .. Len(ring) : ring[p] = ring[q] => p = q
  PROVE  S!Position(ring[k]) = k
BY DEF S!Position

\* A thread that the kernel thread stops leaves its place in the ring.
LEMMA StopWaits ==
  ASSUME SliceType, RingOfReady, Waiting, NEW u \in Applications, S!Stop(u)
  PROVE  SliceType' /\ RingOfReady' /\ Waiting'
<1> DEFINE n == Len(ring)
<1> DEFINE m == Len(ring')
<1>1. /\ ring[1] \in S!Threads
      /\ \A p \in 1 .. n : ring[p] \in S!Threads
      /\ n \in Nat /\ 1 \in 1 .. n
  BY SliceView
<1>2. ring \in Seq(S!Threads) /\ u \in S!Threads /\ u # Kernel
  BY SliceConstants DEF SliceType
<1>3. masked /\ ~switch /\ ring[1] = Kernel /\ status[u] = "READY"
  BY DEF S!Stop, RingOfReady
<1>4. \A p, q \in 1 .. n : ring[p] = ring[q] => p = q
  BY DEF RingOfReady
<1>5. PICK k \in 1 .. n : ring[k] = u
  BY <1>2, <1>3 DEF RingOfReady
<1>6. S!Position(u) = k
  BY <1>4, <1>5, PositionIs
<1>7. ring' = RemoveAt(ring, k)
  <2>1. S!Without(u) = S!RemoveAt(ring, k)
    BY <1>6 DEF S!Without
  <2> QED
    BY <2>1 DEF S!Stop, S!RemoveAt, RemoveAt
<1>8. /\ ring' \in Seq(S!Threads) /\ m = n - 1
      /\ \A p \in 1 .. n - 1 :
           ring'[p] = IF p < k THEN ring[p] ELSE ring[p + 1]
  BY <1>2, <1>5, <1>7, RemoveAtView
<1>9. k # 1
  BY <1>2, <1>3, <1>5
<1>10. /\ UNCHANGED <<slice, left, switch, tick, masked>>
       /\ waited' = [waited EXCEPT ![u] = S!NoWait]
       /\ \E s \in {"SLEEPING", "DELETED"} : status' = [status EXCEPT ![u] = s]
  BY DEF S!Stop
<1> HIDE DEF n, m
<1>11. /\ k \in 2 .. n /\ m \in Nat /\ m >= 1
  BY <1>1, <1>5, <1>8, <1>9
<1>12. ASSUME NEW p \in 1 .. m
       PROVE  \/ p < k /\ p \in 1 .. n /\ ring'[p] = ring[p]
              \/ p >= k /\ p + 1 \in 1 .. n /\ ring'[p] = ring[p + 1]
  BY <1>1, <1>8, <1>11
<1>13. ASSUME NEW p \in 1 .. m
       PROVE  ring'[p] # u /\ ring'[p] \in S!Threads
  BY <1>1, <1>4, <1>5, <1>11, <1>12
<1>14. ASSUME NEW p \in 1 .. n, ring[p] # u
       PROVE  \/ p \in 1 .. m /\ ring'[p] = ring[p]
              \/ p - 1 \in 1 .. m /\ p - 1 >= k /\ ring'[p - 1] = ring[p]
  <2>1. p # k
    BY <1>5, <1>14
  <2>2. CASE p < k
    BY <1>1, <1>8, <1>11, <2>2
  <2>3. CASE p > k
    <3>1. p - 1 \in 1 .. n - 1 /\ ~(p - 1 < k) /\ (p - 1) + 1 = p
      BY <1>1, <1>11, <2>3
    <3> QED
      BY <1>8, <1>11, <3>1
  <2> QED
    BY <1>11, <2>1, <2>2, <2>3
<1>15. \A v \in S!Threads :
         v # u => status'[v] = status[v] /\ waited'[v] = waited[v]
  BY <1>10 DEF SliceType
<1>16. /\ status'[u] \in {"SLEEPING", "DELETED"} /\ waited'[u] = S!NoWait
       /\ status' \in [S!Threads -> {"NEW", "READY", "SLEEPING", "DELETED"}]
  BY <1>2, <1>10 DEF SliceType
<1>17. SliceType'
  <2>1. S!NoWait \in [S!Threads -> Nat]
    BY DEF S!NoWait
  <2>2. waited' \in [S!Threads -> [S!Threads -> Nat]]
    BY <1>10, <2>1 DEF SliceType
  <2> QED
    BY <1>8, <1>10, <1>11, <1>16, <2>2 DEF SliceType, m
<1>18. /\ 1 \in 1 .. m /\ ring'[1] = ring[1]
       /\ status'[ring[1]] = status[ring[1]] /\ ring[1] # u
  BY <1>1, <1>2, <1>3, <1>8, <1>11, <1>15
<1>19. RingOfReady'
  <2>1. ASSUME NEW p \in 1 .. m, NEW q \in 1 .. m, ring'[p] = ring'[q]
        PROVE  p = q
    <3>1. CASE p < k /\ p \in 1 .. n /\ ring'[p] = ring[p]
      <4>1. \/ q < k /\ q \in 1 .. n /\ ring'[q] = ring[q]
            \/ q >= k /\ q + 1 \in 1 .. n /\ ring'[q] = ring[q + 1]
        BY <1>12
      <4> QED
        BY <1>4, <1>11, <2>1, <3>1, <4>1
    <3>2. CASE p >= k /\ p + 1 \in 1 .. n /\ ring'[p] = ring[p + 1]
      <4>1. \/ q < k /\ q \in 1 .. n /\ ring'[q] = ring[q]
            \/ q >= k /\ q + 1 \in 1 .. n /\ ring'[q] = ring[q + 1]
        BY <1>12
      <4>2. p + 1 = q + 1 \/ (q < k /\ q = p + 1)
        BY <1>4, <1>11, <2>1, <3>2, <4>1
      <4> QED
        BY <1>11, <3>2, <4>2
    <3> QED
      BY <1>12, <3>1, <3>2
  <2>2. ASSUME NEW v \in S!Threads, status'[v] = "READY"
        PROVE  \E p \in 1 .. m : ring'[p] = v
    <3>1. v # u /\ status[v] = "READY"
      BY <1>15, <1>16, <2>2
    <3>2. PICK p \in 1 .. n : ring[p] = v
      BY <3>1 DEF RingOfReady, n
    <3> QED
      BY <1>14, <3>1, <3>2
  <2>3. ASSUME NEW p \in 2 .. m PROVE Ready(p)'
    <3>1. p \in 1 .. m /\ p + 1 \in 2 .. n /\ p \in 2 .. n
      BY <1>1, <1>8, <1>11
    <3>2. status[ring'[p]] = "READY"
      BY <1>12, <3>1 DEF RingOfReady, Ready, n
    <3> QED
      BY <1>13, <1>15, <3>1, <3>2 DEF Ready
  <2>4. Ready(1)'
    BY <1>3, <1>18 DEF Ready, RingOfReady
  <2>5. status'[Kernel] = "READY" /\ (masked' => ring'[1] = Kernel /\ ~switch')
    BY <1>3, <1>10, <1>18 DEF RingOfReady
  <2>6. \A v \in S!Threads : slice'[v] # 0 => left'[v] \in 1 .. slice'[v]
    BY <1>10 DEF RingOfReady
  <2> QED
    BY <2>1, <2>2, <2>3, <2>4, <2>5, <2>6 DEF RingOfReady, m
<1>20. ASSUME NEW p \in 2 .. m
       PROVE  /\ waited'[ring'[p]] = waited[ring'[p]]
              /\ \/ p < k /\ p \in 2 .. n /\ ring'[p] = ring[p]
                 \/ p >= k /\ p + 1 \in 2 .. n /\ ring'[p] = ring[p + 1]
  <2>1. p \in 1 .. m /\ p + 1 \in 2 .. n /\ p \in 2 .. n
    BY <1>1, <1>8, <1>11
  <2> QED
    BY <1>12, <1>13, <1>15, <2>1
<1>21. ASSUME NEW t \in S!Threads, \A p \in 2 .. m : ring'[p] # t
       PROVE  waited'[t] = S!NoWait
  <2>1. CASE t = u
    BY <1>16, <2>1
  <2>2. CASE t # u
    <3>1. ASSUME NEW p \in 2 .. n, ring[p] = t
          PROVE  FALSE
      <4>1. p \in 1 .. n /\ p >= 2
        BY <1>1
      <4>2. CASE p \in 1 .. m /\ ring'[p] = ring[p]
        <5>1. p \in 2 .. m
          BY <1>11, <4>1, <4>2
        <5> QED
          BY <1>21, <3>1, <4>2, <5>1
      <4>3. CASE p - 1 \in 1 .. m /\ p - 1 >= k /\ ring'[p - 1] = ring[p]
        <5>1. p - 1 \in 2 .. m
          BY <1>11, <4>1, <4>3
        <5> QED
          BY <1>21, <3>1, <4>3, <5>1
      <4> QED
        BY <1>14, <2>2, <3>1, <4>1, <4>2, <4>3
    <3>2. waited[t] = S!NoWait
      BY <3>1 DEF Waiting, n
    <3> QED
      BY <1>15, <2>2, <3>2
  <2> QED
    BY <2>1, <2>2
<1>22. ASSUME NEW t \in S!Threads, NEW v \in S!Threads, status'[v] = "NEW"
       PROVE  waited'[t][v] = 0
  <2>1. waited[t][v] = 0
    BY <1>15, <1>16, <1>22 DEF Waiting
  <2> QED
    BY <1>15, <1>16, <2>1, NoWaitIs
<1>23. ASSUME NEW p \in 2 .. m, NEW v \in S!Threads
       PROVE  waited'[ring'[p]][v] <= S!Turn(v)
  <2>1. \A q \in 2 .. n : waited[ring[q]][v] <= S!Turn(v)
    BY DEF Waiting, n
  <2> QED
    BY <1>20, <2>1
<1>24. ASSUME NEW p \in 2 .. m, NEW q \in 2 .. p
       PROVE  waited'[ring'[p]][ring'[q]] = 0
  <2>1. q \in 2 .. m /\ q <= p
    BY <1>11
  <2>2. \A i \in 2 .. n : \A j \in 2 .. i : waited[ring[i]][ring[j]] = 0
    BY DEF Waiting, n
  <2>3. PICK i \in 2 .. n : ring'[p] = ring[i] /\ ((i = p /\ p < k) \/ i = p + 1)
    BY <1>20
  <2>4. PICK j \in 2 .. n : /\ ring'[q] = ring[j]
                            /\ \/ q < k /\ j = q
                               \/ q >= k /\ j = q + 1
    BY <1>20, <2>1
  <2>5. j \in 2 .. i
    BY <1>11, <2>1, <2>3, <2>4
  <2> QED
    BY <1>20, <2>2, <2>3, <2>4, <2>5
<1>25. ASSUME NEW p \in 2 .. m
       PROVE  waited'[ring'[p]][ring[1]] + Rest(ring[1]) <= S!Turn(ring[1])
  <2>1. \A i \in 2 .. n :
          waited[ring[i]][ring[1]] + Rest(ring[1]) <= S!Turn(ring[1])
    BY <1>3 DEF Waiting, n
  <2> QED
    BY <1>20, <2>1
<1>26. /\ \A v : S!Turn(v)' = S!Turn(v')
       /\ \A v : Rest(v)' = Rest(v')
       /\ S!NoWait' = S!NoWait
  BY <1>10 DEF S!Turn, Rest, S!NoWait
<1>27. Waiting'
  BY <1>10, <1>18, <1>21, <1>22, <1>23, <1>24, <1>25, <1>26 DEF Waiting, m
<1> QED
  BY <1>17, <1>19, <1>27

LEMMA SliceStep ==
  SliceType /\ RingOfReady /\ Waiting /\ [S!Next]_sliceVars
    => SliceType' /\ RingOfReady' /\ Waiting'
<1> SUFFICES ASSUME SliceType, RingOfReady, Waiting, [S!Next]_sliceVars
             PROVE  SliceType' /\ RingOfReady' /\ Waiting'
  OBVIOUS
<1>1. /\ S!current = ring[1] /\ ring[1] \in S!Threads
      /\ \A p \in 1 .. Len(ring) : ring[p] \in S!Threads
      /\ Len(ring) \in Nat /\ 1 \in 1 .. Len(ring)
      /\ \A p \in 2 .. Len(ring) : p \in 1 .. Len(ring) /\ p # 1
  BY SliceView
<1>2. CASE UNCHANGED sliceVars
  <2>1. UNCHANGED <<ring, status, slice, left, switch, tick, masked, waited>>
    BY <1>2 DEF sliceVars
  <2>2. SliceType' /\ RingOfReady'
    BY <2>1 DEF SliceType, RingOfReady, Ready
  <2> QED
    BY <2>1, <2>2, StillWaiting
<1>3. CASE S!SysTick
  <2>1. CASE masked
    <3>1. /\ UNCHANGED <<ring, status, slice, left, switch, masked, waited>>
          /\ tick' = TRUE
      BY <1>3, <2>1 DEF S!SysTick
    <3>2. SliceType' /\ RingOfReady'
      BY <3>1 DEF SliceType, RingOfReady, Ready
    <3> QED
      BY <3>1, <3>2, StillWaiting
  <2>2. CASE ~masked
    <3>1. /\ S!Handle /\ ~switch /\ UNCHANGED <<ring, status, slice>>
          /\ tick' = tick /\ masked' = masked /\ tick \in BOOLEAN
          /\ masked \in BOOLEAN
      BY <1>3, <2>2 DEF S!SysTick, SliceType
    <3> QED
      BY <2>2, <3>1, TickWaits
  <2> QED
    BY <2>1, <2>2
<1>4. CASE S!PendSV
  BY <1>4, TurnWaits
<1>5. CASE S!OS_DISABLE
  <2>1. /\ UNCHANGED <<ring, status, slice, left, switch, tick, waited>>
        /\ masked' = TRUE /\ ring[1] = Kernel /\ ~switch
    BY <1>1, <1>5 DEF S!OS_DISABLE, S!MayRun
  <2>2. SliceType' /\ RingOfReady'
    BY <2>1 DEF SliceType, RingOfReady, Ready
  <2> QED
    BY <2>1, <2>2, StillWaiting
<1>6. CASE S!OS_ENABLE
  <2>1. /\ masked /\ masked' = FALSE /\ tick' = FALSE /\ ~switch
        /\ UNCHANGED <<ring, status, slice>>
    BY <1>6 DEF S!OS_ENABLE, RingOfReady
  <2>2. CASE tick
    BY <1>6, <2>1, <2>2, TickWaits DEF S!OS_ENABLE
  <2>3. CASE ~tick
    <3>1. UNCHANGED <<left, switch, waited>>
      BY <1>6, <2>3 DEF S!OS_ENABLE
    <3>2. SliceType' /\ RingOfReady'
      BY <2>1, <3>1 DEF SliceType, RingOfReady, Ready
    <3> QED
      BY <2>1, <3>1, <3>2, StillWaiting
  <2> QED
    BY <2>2, <2>3
<1>7. ASSUME NEW t \in S!Threads, S!Yield(t)
      PROVE  SliceType' /\ RingOfReady' /\ Waiting'
  <2>1. /\ UNCHANGED <<ring, status, slice, left, tick, masked, waited>>
        /\ switch' = TRUE /\ ~masked
    BY <1>7 DEF S!Yield
  <2>2. SliceType' /\ RingOfReady'
    BY <2>1 DEF SliceType, RingOfReady, Ready
  <2> QED
    BY <2>1, <2>2, StillWaiting
<1>8. ASSUME NEW t \in S!Threads, S!Sleep(t)
      PROVE  SliceType' /\ RingOfReady' /\ Waiting'
  <2>1. /\ UNCHANGED <<ring, slice, left, tick, masked, waited>>
        /\ switch' = TRUE /\ status' = [status EXCEPT ![t] = "SLEEPING"]
        /\ t = ring[1] /\ t \in Applications
    BY <1>1, <1>8 DEF S!Sleep, S!MayRun
  <2>2. t # Kernel /\ ~masked
    BY <2>1, SliceConstants DEF RingOfReady
  <2>3. /\ status'[t] = "SLEEPING"
        /\ \A u \in S!Threads : u # t => status'[u] = status[u]
        /\ status' \in [S!Threads -> {"NEW", "READY", "SLEEPING", "DELETED"}]
    BY <2>1 DEF SliceType
  <2>4. SliceType'
    BY <2>1, <2>3 DEF SliceType
  <2>5. ASSUME NEW p \in 2 .. Len(ring) PROVE Ready(p)'
    <3>1. ring[p] # t /\ ring[p] \in S!Threads /\ status[ring[p]] = "READY"
      BY <1>1, <2>1 DEF RingOfReady, Ready
    <3> QED
      BY <2>1, <2>3, <3>1 DEF Ready
  <2>6. \A u \in S!Threads :
          status'[u] = "READY" => \E p \in 1 .. Len(ring) : ring[p] = u
    BY <2>3 DEF RingOfReady
  <2>7. status'[Kernel] = "READY"
    BY <2>2, <2>3, SliceConstants DEF RingOfReady
  <2>8. RingOfReady'
    BY <2>1, <2>2, <2>3, <2>5, <2>6, <2>7 DEF RingOfReady
  <2>9. \A u \in S!Threads : status'[u] = "NEW" => status[u] = "NEW"
    BY <2>3
  <2> QED
    BY <2>1, <2>4, <2>8, <2>9, StillWaiting
<1>9. ASSUME NEW u \in Applications, S!Create(u)
      PROVE  SliceType' /\ RingOfReady' /\ Waiting'
  <2>1. /\ ring' = Append(ring, u) /\ UNCHANGED <<switch, tick, masked>>
        /\ status' = [status EXCEPT ![u] = "READY"] /\ waited' = waited
        /\ status[u] = "NEW" /\ masked /\ u \in S!Threads
    BY <1>9, SliceConstants DEF S!Create
  <2>2. PICK n \in Slices : /\ slice' = [slice EXCEPT ![u] = n]
                            /\ left' = [left EXCEPT ![u] = n]
    BY <1>9 DEF S!Create
  <2>3. n \in 0 .. Wrap - 1
    BY SliceConstants
  <2>4. \A p \in 1 .. Len(ring) : ring[p] # u
    <3>1. ASSUME NEW p \in 1 .. Len(ring) PROVE status[ring[p]] # "NEW"
      <4>1. p = 1 \/ p \in 2 .. Len(ring)
        BY <1>1
      <4> QED
        BY <4>1 DEF RingOfReady, Ready
    <3> QED
      BY <2>1, <3>1
  <2>5. waited[u] = S!NoWait
    BY <1>1, <2>1, <2>4 DEF Waiting
  <2>6. waited' = [waited EXCEPT ![u] = S!NoWait]
    BY <2>1, <2>5 DEF SliceType
  <2>7. /\ slice' \in [S!Threads -> 0 .. Wrap - 1]
        /\ left' \in [S!Threads -> 0 .. Wrap - 1]
        /\ slice'[u] = n /\ left'[u] = n
        /\ \A v \in S!Threads :
             v # u => slice'[v] = slice[v] /\ left'[v] = left[v]
    BY <2>1, <2>2, <2>3 DEF SliceType
  <2>8. slice'[u] # 0 => left'[u] \in 1 .. slice'[u]
    BY <2>3, <2>7
  <2> QED
    BY <2>1, <2>4, <2>6, <2>7, <2>8, JoinWaits
<1>10. ASSUME NEW u \in Applications, S!Stop(u)
       PROVE  SliceType' /\ RingOfReady' /\ Waiting'
  BY <1>10, StopWaits
<1>11. ASSUME NEW u \in Applications, S!Resume(u)
       PROVE  SliceType' /\ RingOfReady' /\ Waiting'
  <2>1. /\ ring' = Append(ring, u) /\ UNCHANGED <<switch, tick, masked>>
        /\ status' = [status EXCEPT ![u] = "READY"]
        /\ waited' = [waited EXCEPT ![u] = S!NoWait]
        /\ slice' = slice /\ left' = left /\ u \in S!Threads
    BY <1>11, SliceConstants DEF S!Resume
  <2>2. \A p \in 1 .. Len(ring) : ring[p] # u
    BY <1>11, SliceView DEF S!Resume
  <2>3. /\ slice' \in [S!Threads -> 0 .. Wrap - 1]
        /\ left' \in [S!Threads -> 0 .. Wrap - 1]
        /\ slice'[u] # 0 => left'[u] \in 1 .. slice'[u]
    BY <2>1 DEF SliceType, RingOfReady
  <2> QED
    BY <2>1, <2>2, <2>3, JoinWaits
<1> QED
  BY <1>2, <1>3, <1>4, <1>5, <1>6, <1>7, <1>8, <1>9, <1>10, <1>11 DEF S!Next

LEMMA WaitingIsBounded ==
  SliceType /\ RingOfReady /\ Waiting => WaitBounded /\ S!TypeOK
<1> SUFFICES ASSUME SliceType, RingOfReady, Waiting
             PROVE  WaitBounded /\ S!TypeOK
  OBVIOUS
<1>1. WaitBounded
  BY SliceView DEF WaitBounded, S!WaitBounded, Waiting
<1>2. ring # <<>> /\ S!ToSet(ring) \subseteq S!Threads
  <2>1. ring # <<>>
    BY DEF SliceType
  <2>2. \A t : t \in S!ToSet(ring) => t \in S!Threads
    BY SliceView
  <2> QED
    BY <2>1, <2>2
<1>3. \A t \in S!Threads : {slice[t], left[t]} \subseteq 0 .. Wrap - 1
  BY DEF SliceType
<1> QED
  BY <1>1, <1>2, <1>3 DEF S!TypeOK, SliceType

\* While a ready thread waits, each other thread has one turn at most, for any
\* threads, time slices and width of the counter, however they yield, sleep,
\* wake, are created and deleted (task_switch_context.c:52-64,
\* operate_thread_list.c:67).
THEOREM WaitAlwaysBounded == Spec => []WaitBounded
<1>1. Init => SliceType /\ RingOfReady /\ Waiting
  BY InitSlices DEF Init
<1>2. SliceType /\ RingOfReady /\ Waiting /\ [Next]_vars
        => (SliceType /\ RingOfReady /\ Waiting)'
  BY SliceSteps, SliceStep
<1>3. SliceType /\ RingOfReady /\ Waiting => WaitBounded
  BY WaitingIsBounded
<1> QED
  BY <1>1, <1>2, <1>3, PTL DEF Spec

-----------------------------------------------------------------------------
\* Types.  What a member of the list of queues leads to exists, even after two
\* threads have changed the list at a time.
Led == \A q \in Members : forward[q] \in Places /\ back[q] \in Places

LEMMA InitLed == Q!Init => Led
<1> SUFFICES ASSUME Q!Init PROVE Led
  OBVIOUS
<1>1. made = <<OsQueue>> /\ OsQueue \in Places
  BY OtherAssumption DEF Q!Init, Q!RegistryAssumption
<1>2. \A q \in Members : q = OsQueue
  BY <1>1 DEF Members
<1> QED
  BY <1>1, <1>2 DEF Led, Q!Init

\* Some links are changed, and none to nothing.
LEMMA LedKept ==
  ASSUME Led, Members' \subseteq Members,
         \A q \in Members : /\ forward'[q] \in {forward[q]} \cup Places
                            /\ back'[q] \in {back[q]} \cup Places
  PROVE  Led'
BY DEF Led

LEMMA LedStep == Registered /\ Led /\ [Next]_vars => Led'
<1> SUFFICES ASSUME Registered, Led, [Next]_vars PROVE Led'
  OBVIOUS
<1>r. /\ forward \in [Places -> Places \cup {NULL}]
      /\ back \in [Places -> Places \cup {NULL}]
      /\ made \in Seq(Places)
      /\ \A t \in Callers : call[t].pc # "idle" => call[t].q \in Places
  BY DEF Registered, RegistryType
<1>m. Members \subseteq Places /\ (made = <<>> => Members = {})
  BY <1>r DEF Members
<1>1. CASE UNCHANGED queueVars
  BY <1>1 DEF queueVars, Led, Members
<1>2. ASSUME ~overlap, NEW t \in Callers, QuietStep(t) PROVE Led'
  <2>1. CASE Q!LinkOwn(t)
    <3>1. /\ made' = made /\ call[t].pc = "next"
          /\ forward' = [forward EXCEPT ![call[t].q] = first]
          /\ back' = [back EXCEPT ![call[t].q] = Q!OwnPrevious(call[t].q)]
      BY <2>1 DEF Q!LinkOwn, Q!At, Q!marks
    <3>2. call[t].q \notin Members
      BY <3>1 DEF Registered, Ownership, Q!Linking
    <3> QED
      BY <1>m, <1>r, <3>1, <3>2, MembersKept, LedKept
  <2>2. CASE ~Q!LinkOwn(t)
    <3>1. UNCHANGED <<made, forward, back>>
      BY <1>2, <2>2
      DEF QuietStep, Q!Create, Q!Delete, Q!Use, Q!TestFirst, Q!Ready, Q!Free,
          Q!Claim, Q!Release, Q!marks, Q!links
    <3> QED
      BY <3>1, MembersKept, LedKept
  <2> QED
    BY <2>1, <2>2
<1>3. ASSUME ~overlap, NEW t \in Callers, Q!LinkForward(t) PROVE Led'
  <2>1. /\ UNCHANGED <<made, back>> /\ call[t].pc = "forward"
        /\ forward' = [forward EXCEPT ![back[first]] = call[t].q]
    BY <1>3 DEF Q!LinkForward, Q!At
  <2> QED
    BY <1>m, <1>r, <2>1, MembersKept, LedKept
<1>4. ASSUME ~overlap, NEW t \in Callers, Q!LinkBack(t) PROVE Led'
  <2>1. /\ made' = Append(made, call[t].q) /\ forward' = forward
        /\ back' = [back EXCEPT ![first] = call[t].q]
        /\ call[t].pc = "back" /\ call[t].q \in Places
    BY <1>4, <1>r DEF Q!LinkBack, Q!BackTo, Q!At
  <2>2. Members' = Members \cup {call[t].q}
    BY <1>r, <2>1, JoinView
  <2>3. made # <<>> /\ forward[call[t].q] = first /\ back[call[t].q] = back[first]
    BY <1>4, <2>1 DEF Registered, Sight, Seen
  <2>4. first \in Members /\ first \in Places
    BY <1>4, <2>3, FirstMember DEF Registered
  <2>5. \A q \in Members' : forward[q] \in Places /\ back[q] \in Places
    BY <2>2, <2>3, <2>4 DEF Led
  <2> QED
    BY <1>m, <1>r, <2>1, <2>2, <2>5 DEF Led
<1>5. ASSUME ~overlap, NEW t \in Callers, Q!LinkAlone(t) PROVE Led'
  <2>1. /\ made' = Append(made, call[t].q)
        /\ forward' = [forward EXCEPT ![call[t].q] = call[t].q]
        /\ back' = [back EXCEPT ![call[t].q] = call[t].q]
        /\ call[t].pc = "alone" /\ call[t].q \in Places
    BY <1>5, <1>r DEF Q!LinkAlone, Q!At
  <2>2. Members' = Members \cup {call[t].q}
    BY <1>r, <2>1, JoinView
  <2> QED
    BY <1>m, <1>r, <2>1, <2>2 DEF Led
<1>6. ASSUME ~overlap, NEW t \in Callers, Q!TestOnly(t) PROVE Led'
  <2>1. UNCHANGED <<forward, back>> /\ (made' = made \/ made' = <<>>)
    BY <1>6 DEF Q!TestOnly
  <2>2. Members' \subseteq Members
    BY <2>1 DEF Members
  <2> QED
    BY <2>1, <2>2, LedKept
<1>7. ASSUME ~overlap, NEW t \in Callers, Q!Step(t) PROVE Led'
  <2>1. UNCHANGED <<made, forward, back>>
    BY <1>7 DEF Q!Step
  <2> QED
    BY <2>1, MembersKept, LedKept
<1>8. ASSUME ~overlap, NEW t \in Callers, Q!Around(t) PROVE Led'
  <2>1. /\ UNCHANGED <<made, back>> /\ call[t].pc = "around"
        /\ forward' = [forward EXCEPT ![back[call[t].q]] = forward[call[t].q]]
    BY <1>8 DEF Q!Around, Q!At
  <2>2. call[t].q \in Members
    BY <1>8, <2>1 DEF Registered, Ownership, Q!Unlinking
  <2>3. forward[call[t].q] \in Places
    BY <2>2 DEF Led
  <2> QED
    BY <1>m, <1>r, <2>1, <2>3, MembersKept, LedKept
<1>9. ASSUME ~overlap, NEW t \in Callers, Q!AroundBack(t) PROVE Led'
  <2>1. /\ made' = RemoveAt(made, Q!Position(call[t].q)) /\ forward' = forward
        /\ back' = [back EXCEPT ![forward[call[t].q]] = back[call[t].q]]
        /\ call[t].pc = "around_back"
    BY <1>9 DEF Q!AroundBack, Q!At, Q!RemoveAt, RemoveAt
  <2>2. call[t].q \in Members
    BY <1>9, <2>1 DEF Registered, Ownership, Q!Unlinking
  <2>3. back[call[t].q] \in Places
    BY <2>2 DEF Led
  <2>4. Q!Position(call[t].q) \in 1 .. Len(made)
    BY <1>r, <2>2, PositionView
  <2>5. \A i, j \in 1 .. Len(made) : made[i] = made[j] => i = j
    BY DEF Registered, Ownership
  <2>6. Members' \subseteq Members
    BY <1>r, <2>1, <2>4, <2>5, LeaveView
  <2> QED
    BY <1>m, <1>r, <2>1, <2>3, <2>6, LedKept
<1> QED
  BY <1>1, <1>2, <1>3, <1>4, <1>5, <1>6, <1>7, <1>8, <1>9, RegistrySteps
  DEF LinkStep

LEMMA RegisteredTypes == Registered /\ Led => Q!TypeOK
<1> SUFFICES ASSUME Registered, Led PROVE Q!TypeOK
  OBVIOUS
<1>1. /\ Q!ToSet(made) = Members /\ NULL \notin Places
  BY MembersAre, OtherAssumption
  DEF Registered, RegistryType, Q!RegistryAssumption
<1>2. \A q \in Members : q \in places /\ forward[q] # NULL /\ back[q] # NULL
  BY <1>1 DEF Registered, Ownership, Led
<1> QED
  BY <1>1, <1>2 DEF Q!TypeOK, Registered, RegistryType

LEMMA ExceptionTypes == ExceptionType => X!TypeOK
<1> SUFFICES ASSUME ExceptionType PROVE X!TypeOK
  OBVIOUS
<1>1. \A t \in X!Threads : top[t] \in Owner
  BY DEF ExceptionType
<1> QED
  BY <1>1 DEF ExceptionType, X!TypeOK, Stacks, Owner

\* Every part keeps its types: the ring leads to threads, the counters of the
\* time slices stay in their width, only five stacks of handlers occur, and
\* what is in the list of queues is in use and leads to queues.
THEOREM TypesAlwaysOK == Spec => []TypesOK
<1> DEFINE Inv == /\ RingType /\ ContextsOwn
                  /\ SliceType /\ RingOfReady /\ Waiting
                  /\ ExceptionType /\ Registers
                  /\ Registered /\ Led
<1>1. Init => Inv
  BY InitRing, InitContexts, InitSlices, InitExceptions, InitRegistered, InitLed
  DEF Init
<1>2. Inv /\ [Next]_vars => Inv'
  <2>1. Inv /\ [Next]_vars => RingType' /\ ContextsOwn'
    BY RingSteps, RingTypeStep, ContextsStep
  <2>2. Inv /\ [Next]_vars => SliceType' /\ RingOfReady' /\ Waiting'
    BY SliceSteps, SliceStep
  <2>3. Inv /\ [Next]_vars => ExceptionType' /\ Registers'
    BY ExceptionSteps, ExceptionTypeStep, RegistersStep
  <2>4. Inv /\ [Next]_vars => Registered' /\ Led'
    BY RegisteredStep, LedStep
  <2> QED
    BY <2>1, <2>2, <2>3, <2>4
<1>3. Inv => TypesOK
  BY RingTypeIsTypeOK, WaitingIsBounded, ExceptionTypes, RegisteredTypes
  DEF TypesOK
<1> QED
  BY <1>1, <1>2, <1>3, PTL DEF Spec
=============================================================================
