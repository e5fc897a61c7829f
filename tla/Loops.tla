------------------------------- MODULE Loops -------------------------------
(***************************************************************************)
(* DO and REPEAT, and the interrupts that come between (dspic33_step and   *)
(* complete_do_loop_iteration in run.c, the instructions in traps.c, the   *)
(* writes of DCOUNT and CORCON in reset.c, service_interrupt and           *)
(* dspic33_device_return_interrupt in dma/runtime.c).  A request within    *)
(* the last two instructions of a loop and one of higher priority four     *)
(* cycles later decrement the loop twice: an erratum the code reproduces.  *)
(*                                                                         *)
(* A program is a sequence of instructions of one word, the handler of     *)
(* all priorities behind it.  Left out: what the manual forbids as the     *)
(* last instruction of a loop, writes of DOEND, the PSV timing of REPEAT.  *)
(***************************************************************************)
EXTENDS Integers, Sequences, FiniteSets, FiniteSetsExt, SequencesExt

CONSTANTS MaxDepth,    \* of DO loops: 4
          EntryCycles, \* of service_interrupt: 6 until the priority changes, then 3
          Settings     \* code: instructions [kind, count, end]; main: how many are the program's;
                       \* levels: the priorities of the requests; nesting: ~NSTDIS

Kinds == {"nop", "do", "repeat", "edt", "dcount", "ack", "push", "pop", "retfie"}

LoopsAssumption ==
    /\ MaxDepth \in Nat \ {0}
    /\ EntryCycles \in (Nat \ {0}) \X (Nat \ {0})
    /\ \A s \in Settings :
          /\ s.main \in 0..Len(s.code) /\ s.levels \subseteq 1..6 /\ s.nesting \in BOOLEAN
          /\ \A i \in DOMAIN s.code : s.code[i] \in [kind : Kinds, count : Nat, end : Nat]

VARIABLE loops   \* PC, SR, RCOUNT, DCOUNT, the DO stack, the frames on the stack, IFS, and history

None == [depth |-> 0, end |-> 0, level |-> 0, age |-> 0]

\* What a range of the program means: the addresses in the order of execution.
Unrolled(code, first, last) ==
    LET u[lo \in 1..Len(code) + 1] ==   \* from lo to last
          LET inner[from \in 1..Len(code) + 1, end \in 0..Len(code)] ==
                IF from > end THEN <<>>
                ELSE CASE code[from].kind = "do" ->
                            <<from>> \o FlattenSeq([k \in 1..code[from].count + 1 |->
                                                       inner[from + 1, code[from].end]])
                                     \o inner[code[from].end + 1, end]
                       [] code[from].kind = "repeat" ->
                            <<from>> \o [k \in 1..code[from].count + 1 |-> from + 1]
                                     \o inner[from + 2, end]
                       [] OTHER -> <<from>> \o inner[from + 1, end]
          IN  inner[lo, last]
    IN  u[first]

Fresh(setting) ==
    [setting |-> setting, pc |-> 1, at |-> 0, phase |-> "run", left |-> 0, advancing |-> FALSE,
     served |-> FALSE, taken |-> 0, ipl |-> 0, requests |-> {}, coming |-> setting.levels,
     repeat_active |-> FALSE, repeat_pc |-> 0, rcount |-> 0, ra |-> FALSE,
     dos |-> <<>>, dcount |-> 0, frames |-> <<>>,
     armed |-> None, extra |-> None, stopped |-> FALSE,
     \* history: what is left to execute in this context, whether something else was
     ahead |-> Unrolled(setting.code, 1, setting.main), astray |-> FALSE]

Init == \E setting \in Settings : loops = Fresh(setting)
-----------------------------------------------------------------------------
Depth(l) == Len(l.dos)
Code(l) == l.setting.code

\* select_interrupt
Selected(l) ==
    LET above == {level \in l.requests : level > l.ipl}
    IN  IF above = {} THEN 0 ELSE CHOOSE level \in above : \A other \in above : other <= level

\* The iterations of the innermost loop that are to follow the one under way,
\* less the one the erratum takes.
Less(l, iterations) ==
    IF l.extra.depth = Depth(l) /\ iterations > 0 THEN iterations - 1 ELSE iterations

Counted(l) ==
    LET loop == Last(l.dos)
    IN  CASE loop.terminate = 0 -> loop.count
          [] loop.terminate = 1 -> 0
          [] loop.terminate = 2 -> Min({loop.count, 1})

\* What is planned for the innermost loop gives way to these iterations.
Replanned(l, changed, iterations) ==
    LET loop == Last(l.dos)
        rest == IF l.repeat_active
                THEN [k \in 1..l.rcount + 1 |-> l.pc] \o Unrolled(Code(l), l.pc + 1, loop.end)
                ELSE Unrolled(Code(l), l.pc, loop.end)
        body == Unrolled(Code(l), loop.start, loop.end)
        planned == Len(rest) + Less(l, Counted(l)) * Len(body)
    IN  [changed EXCEPT !.ahead = rest \o FlattenSeq([k \in 1..Less(changed, iterations) |-> body])
                                  \o SubSeq(l.ahead, planned + 1, Len(l.ahead))]

\* complete_do_loop_iteration
CompleteIteration(l) ==
    LET loop == Last(l.dos)
        again == [loop EXCEPT !.count = @ - 1, !.terminate = IF @ = 2 THEN 1 ELSE @]
        outer == Front(l.dos)
    IN  IF loop.count # 0 /\ loop.terminate # 1
        THEN [l EXCEPT !.dos = Append(outer, again), !.dcount = again.count, !.pc = loop.start]
        ELSE [l EXCEPT !.dos = outer, !.dcount = IF outer = <<>> THEN 0 ELSE Last(outer).count]

\* The end of the innermost loop is the instruction at, which began before.
LoopEnded(l, before, at) ==
    IF l.dos = <<>> \/ Depth(l) > before THEN l
    ELSE IF Last(l.dos).end # at THEN l
    ELSE LET depth == Depth(l)
             twice == l.extra.depth = depth /\ l.extra.end = at
             cleared == [l EXCEPT !.extra = IF twice THEN None ELSE @,
                                  !.armed = IF @.depth = depth /\ @.end = at THEN None ELSE @]
             once == CompleteIteration(cleared)
         IN  IF twice /\ Depth(once) = depth
             THEN CompleteIteration([once EXCEPT !.pc = l.pc]) ELSE once

\* REPEAT in dspic33_step
Repeated(l, at) ==
    CASE ~l.repeat_active \/ at # l.repeat_pc -> l
      [] l.repeat_active /\ at = l.repeat_pc /\ l.rcount # 0 ->
            [l EXCEPT !.rcount = @ - 1, !.pc = at, !.ra = l.rcount # 1]
      [] l.repeat_active /\ at = l.repeat_pc /\ l.rcount = 0 ->
            [l EXCEPT !.repeat_active = FALSE, !.ra = FALSE]

\* update_nested_do_interrupt_request
UpdateNested(l, level) ==
    LET top == Last(l.dos)
        origin == IF l.advancing THEN l.at ELSE l.pc
        armed == l.armed.depth # 0
        coincide == /\ level > l.armed.level /\ l.armed.age = 4
                    /\ Depth(l) >= l.armed.depth /\ l.dos[l.armed.depth].end = l.armed.end
    IN  CASE ~l.setting.nesting -> [l EXCEPT !.armed = None]
          [] l.setting.nesting /\ Selected(l) # level -> l
          [] l.setting.nesting /\ Selected(l) = level /\ armed ->
                LET second == [l EXCEPT !.armed = None]
                    hit == [second EXCEPT !.extra = [None EXCEPT !.depth = l.armed.depth,
                                                                 !.end = l.armed.end]]
                IN  IF coincide THEN Replanned(l, hit, Counted(l)) ELSE second
          [] l.setting.nesting /\ Selected(l) = level /\ ~armed ->
                IF l.phase \in {"enter", "latch"} \/ l.dos = <<>> THEN l
                ELSE IF origin \in {top.end, top.end - 1}
                     THEN [l EXCEPT !.armed = [depth |-> Depth(l), end |-> top.end,
                                               level |-> level, age |-> 0]]
                     ELSE l

\* CORCON.EDT
Terminate_Early(l) ==   \* mutant: it is never too late for this iteration
    [l EXCEPT !.dos[Depth(l)].terminate = 1]

Terminate(l) ==
    LET end == Last(l.dos).end
        late == l.at = end \/ l.at + 1 = end
    IN  [l EXCEPT !.dos[Depth(l)].terminate = IF late THEN 2 ELSE 1]

\* The instruction, before what dspic33_step does after each: l.pc is past it.
Effect(l, instruction, chosen) ==
    CASE instruction.kind = "do" ->
            [l EXCEPT !.dos = Append(@, [start |-> l.pc, end |-> instruction.end,
                                         count |-> instruction.count, terminate |-> 0]),
                      !.dcount = instruction.count]
      [] instruction.kind = "repeat" ->
            LET counted == [l EXCEPT !.rcount = instruction.count]
            IN  IF instruction.count = 0 THEN counted
                ELSE [counted EXCEPT !.repeat_active = TRUE, !.repeat_pc = l.pc, !.ra = TRUE]
      [] instruction.kind = "edt" /\ chosen /\ l.dos # <<>> ->   \* too late in the last two
            Replanned(l, Terminate(l), IF l.pc < Last(l.dos).end THEN 0 ELSE Min({Last(l.dos).count, 1}))
      [] instruction.kind = "dcount" /\ chosen /\ l.dos # <<>> ->
            LET written == [l EXCEPT !.dos[Depth(l)].count = instruction.count,
                                     !.dcount = instruction.count]
            IN  Replanned(l, written, Counted(written))
      [] instruction.kind = "ack" -> [l EXCEPT !.requests = @ \ {IF l.setting.nesting THEN l.ipl ELSE l.taken}]
      [] instruction.kind = "push" -> [l EXCEPT !.frames[Len(l.frames)].rcount = l.rcount]
      [] instruction.kind = "pop" -> [l EXCEPT !.rcount = Last(l.frames).rcount]
      [] OTHER -> l

\* A DO at the deepest level, or a nested one of no iterations without the workaround
\* of the erratum (nested_zero_do_workaround_present).
Refused(l, instruction) ==
    /\ instruction.kind = "do"
    /\ \/ Depth(l) = MaxDepth
       \/ /\ instruction.count = 0 /\ l.dos # <<>>
          /\ \E i \in {Last(l.dos).start, Last(l.dos).start + 1, l.pc + 1} : Code(l)[i].kind # "nop"

\* dspic33_device_return_interrupt
Return_Repeats(l) ==   \* mutant: SR.RA is not what decides
    LET frame == Last(l.frames)
    IN  [l EXCEPT !.pc = frame.pc, !.ipl = frame.ipl, !.ahead = frame.ahead,
                  !.ra = frame.ra, !.frames = Front(@)]

Return(l) ==
    LET frame == Last(l.frames)
    IN  [l EXCEPT !.pc = frame.pc, !.ipl = frame.ipl, !.ahead = frame.ahead,
                  !.ra = frame.ra, !.repeat_active = frame.ra,
                  !.repeat_pc = IF frame.ra THEN frame.pc ELSE 0, !.frames = Front(@)]
-----------------------------------------------------------------------------
Boundary == loops.phase = "run" /\ ~loops.stopped
Runs == Boundary /\ (loops.pc # loops.setting.main + 1 \/ loops.frames # <<>>)

\* What was executed is what was to be: of this context, the next.
Followed(l) ==
    IF l.ahead # <<>> /\ Head(l.ahead) = l.pc THEN [l EXCEPT !.ahead = Tail(@)]
    ELSE [l EXCEPT !.astray = TRUE]

\* dspic33_step up to dspic33_internal_advance_instruction
Execute(chosen) ==
    /\ Runs /\ (loops.served \/ Selected(loops) = 0)
    /\ LET at == loops.pc
           instruction == Code(loops)[at]
           fetched == [Followed(loops) EXCEPT !.at = at, !.pc = at + 1, !.served = FALSE]
           returned == Return([fetched EXCEPT !.astray = @ \/ fetched.ahead # <<>>])
           done == LoopEnded(Repeated(Effect(fetched, instruction, chosen), at), Depth(loops), at)
       IN  /\ chosen \/ instruction.kind \in {"edt", "dcount"}
           /\ loops' = CASE instruction.kind = "retfie" ->
                               [returned EXCEPT !.phase = "advance",
                                                !.left = IF Selected(returned) # 0 THEN 5 ELSE 6]
                         [] instruction.kind # "retfie" /\ Refused(fetched, instruction) ->
                               [fetched EXCEPT !.stopped = TRUE]
                         [] OTHER ->
                               [done EXCEPT !.phase = "advance", !.advancing = TRUE,
                                            !.left = IF instruction.kind = "do" THEN 2 ELSE 1]

\* service_interrupt
Service ==
    /\ Runs /\ ~loops.served /\ Selected(loops) # 0
    /\ loops' = [loops EXCEPT !.phase = "enter", !.left = EntryCycles[1], !.served = TRUE,
                              !.taken = Selected(loops)]

\* dspic33_device_advance_instruction
Cycle ==
    /\ loops.left > 0
    /\ loops' = [loops EXCEPT !.left = @ - 1, !.armed.age = IF loops.armed.depth = 0 \/ @ > 4 THEN @
                                                            ELSE @ + 1]

CycleEnds ==
    /\ loops.phase = "advance" /\ loops.left = 0
    /\ loops' = [loops EXCEPT !.phase = "run", !.advancing = FALSE]

\* The status was stacked as it was when the entry began; the priority is that of the request.
PushFrame ==
    /\ loops.phase = "enter" /\ loops.left = 0
    /\ loops' = [loops EXCEPT !.phase = "latch", !.left = EntryCycles[2],
                              !.ipl = IF loops.setting.nesting THEN loops.taken ELSE 7,
                              !.frames = Append(@, [pc |-> loops.pc, ra |-> loops.ra,
                                  ipl |-> loops.ipl, rcount |-> 0, ahead |-> <<>>])]

EnterHandler ==
    /\ loops.phase = "latch" /\ loops.left = 0
    /\ loops' = [loops EXCEPT !.phase = "run", !.pc = loops.setting.main + 1,
                              !.repeat_active = FALSE, !.repeat_pc = 0, !.ra = FALSE,
                              !.frames[Len(loops.frames)].ahead = loops.ahead,
                              !.ahead = Unrolled(Code(loops), loops.setting.main + 1,
                                                 Len(Code(loops)))]

\* dspic33_raise_interrupt, by an event of this cycle or by the host
Raise(level) ==
    /\ ~loops.stopped /\ level \in loops.coming
    /\ loops' = UpdateNested([loops EXCEPT !.requests = @ \union {level}, !.coming = @ \ {level}],
                             level)

Next ==
    \/ \E chosen \in BOOLEAN : Execute(chosen)
    \/ Service \/ Cycle \/ CycleEnds \/ PushFrame \/ EnterHandler
    \/ \E level \in loops.coming : Raise(level)

Spec == Init /\ [][Next]_loops
-----------------------------------------------------------------------------
TypeOK ==
    /\ loops.setting \in Settings /\ Depth(loops) <= MaxDepth
    /\ loops.pc \in 1..Len(Code(loops)) + 1 /\ loops.rcount \in Nat
    /\ \A i \in DOMAIN loops.dos : loops.dos[i].terminate \in 0..2 /\ loops.dos[i].count \in Nat

\* The program and each handler execute what the structure of their loops says,
\* whatever comes between them, but for the iteration that two requests four
\* cycles apart take from a loop; the registers are those of the innermost loop
\* and of the repeated instruction.
LoopsAgree ==
    /\ ~loops.astray
    /\ loops.dcount = IF loops.dos = <<>> THEN 0 ELSE Last(loops.dos).count
    /\ loops.ra = (loops.repeat_active /\ loops.rcount # 0)
    /\ loops.phase = "run" /\ loops.repeat_active => loops.repeat_pc = loops.pc
    /\ loops.extra.depth # 0 => loops.dos[loops.extra.depth].end = loops.extra.end

=============================================================================
