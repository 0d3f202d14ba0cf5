---------------------------- MODULE TraceCapture ----------------------------
(* One traced execution: the hooks that backends/dynamic/engine/unicorn        *)
(* installs in the emulator (hooks.py, tracer.py), the snapshots and the crash  *)
(* report they leave, and the verdict run_pipeline.py draws from them.          *)
(*                                                                          *)
(* A program is instructions at 1..ProgramSize; the stubs of its imported functions    *)
(* are one address, Stub, and the interpreter another, Interpreter.  Null and Wild   *)
(* are not mapped.  Registers and memory are one number, `now', that grows with *)
(* every change of the machine.  The emulator calls the code hooks in the order *)
(* they were added and, when one asks it to stop, neither calls the next nor    *)
(* executes the instruction.  What an imported function does to memory, the     *)
(* input it reads and the contents of a snapshot are left out.                  *)
EXTENDS Integers, Sequences, SequencesExt

CONSTANTS
    ProgramSize,     \* instructions of the program
    Traces,          \* what is traced: program, options and limits
    MaxChanges       \* bound: changes of the machine (a loop outside the
                     \* captured ranges has no end)

Null == 0
Stub == ProgramSize + 1
Interpreter == ProgramSize + 2
Wild == ProgramSize + 3
Mapped == 1..Interpreter

MachineOps == {"plain", "fault", "bad", "over", "jcc", "call", "ret", "ext", "bnd"}
ImportKinds == {"none", "known", "unknown", "exit", "smash"}

ASSUME TraceCaptureAssumption ==
    /\ ProgramSize \in Nat \ {0} /\ MaxChanges \in Nat
    /\ \A t \in Traces :
         /\ t.program \in [1..ProgramSize ->
                              [op : MachineOps, to : 1..ProgramSize, import : ImportKinds]]
         /\ {t.elf, t.interp} \subseteq BOOLEAN /\ t.start \in 1..ProgramSize
         /\ t.captured \subseteq Mapped /\ t.patched \subseteq Mapped /\ t.stopAt \in 0..ProgramSize
         /\ {t.maxSteps, t.maxBytes, t.sizes} \subseteq Nat

VARIABLES
    trace,           \* what is traced
    pc, words,       \* the next instruction; the stack, its top first
    now,             \* the state of the machine
    emulator,        \* what the emulator does next
    pending,         \* collector._pending
    snapshots,       \* collector.snapshots
    bytes,           \* collector.trace_bytes
    limitReached,    \* collector.trace_limit_reached
    events,          \* events_by_addr
    context,         \* crash_context: its type and the address of the fault
    error,           \* what emu_start raised, "" for nothing
    restarted,       \* the interpreter was tried after the entry point
    verdict,         \* crash: type, step, instruction and classification
    executed         \* ghost: the captured instructions, as the machine met them

captureVars == <<trace, pc, words, now, emulator, pending, snapshots, bytes, limitReached,
                 events, context, error, restarted, verdict, executed>>

NothingPending == [addr |-> Null, step |-> 0, before |-> 0]
NoContext == [type |-> "", at |-> Null]
NoCrash == [type |-> "", step |-> 0, addr |-> Null, class |-> ""]

\* What is at an address outside the program: a stub, or the interpreter.
Insn(a) ==
    IF a \in 1..ProgramSize THEN trace.program[a] ELSE [op |-> "plain", to |-> 1, import |-> "none"]

\* trace_elf and trace_raw up to emu_start.  Started at main, the program finds 0 as
\* its return address.
CaptureInit ==
    /\ trace \in Traces
    /\ pc = trace.start /\ words = <<Null>> /\ now = 0 /\ emulator = "hooks"
    /\ pending = NothingPending /\ snapshots = <<>> /\ bytes = 0 /\ limitReached = FALSE
    /\ events = [a \in {Null} \cup Mapped |-> <<>>] /\ context = NoContext /\ error = ""
    /\ restarted = FALSE /\ verdict = NoCrash /\ executed = <<>>

-----------------------------------------------------------------------------
(* The collector *)

\* _consume_external_event that reads the queue and leaves it.
FinalizedEventKept(size) ==
    LET queue == events[pending.addr]
        snapshot == [addr |-> pending.addr, step |-> pending.step, before |-> pending.before,
                     after |-> now, external |-> IF queue = <<>> THEN 0 ELSE Head(queue)]
    IN /\ snapshots' = Append(snapshots, snapshot)
       /\ bytes' = bytes + size /\ UNCHANGED <<events, limitReached>>

\* _retain_snapshot and _consume_external_event.  The size of a snapshot depends on
\* the accesses it shows.
Finalized(size) ==
    LET queue == events[pending.addr]
        snapshot == [addr |-> pending.addr, step |-> pending.step, before |-> pending.before,
                     after |-> now, external |-> IF queue = <<>> THEN 0 ELSE Head(queue)]
        fits == bytes + size <= trace.maxBytes
    IN /\ events' = [events EXCEPT ![pending.addr] = IF @ = <<>> THEN @ ELSE Tail(@)]
       /\ snapshots' = IF fits THEN Append(snapshots, snapshot) ELSE snapshots
       /\ bytes' = IF fits THEN bytes + size ELSE bytes
       /\ limitReached' = (limitReached \/ ~fits)

FinalizePending ==
    \/ pending = NothingPending /\ UNCHANGED <<events, snapshots, bytes, limitReached>>
    \/ pending # NothingPending /\ \E size \in 1..trace.sizes : Finalized(size)

\* hook_code.
HookCode ==
    /\ emulator = "hooks"
    /\ pc \in Mapped
    /\ FinalizePending
    /\ LET patched == ~limitReached' /\ pc \in trace.patched
           captured == ~limitReached' /\ pc \in trace.captured
           full == Len(snapshots') >= trace.maxSteps
       IN /\ now' = IF patched THEN now + 1 ELSE now
          /\ pending' = IF captured /\ ~full
                        THEN [addr |-> pc, step |-> Len(snapshots') + 1, before |-> now']
                        ELSE NothingPending
          /\ executed' = IF pc \in trace.captured
                         THEN Append(executed, [addr |-> pc, before |-> now', after |-> now', external |-> 0])
                         ELSE executed
          /\ emulator' = IF limitReached' \/ (captured /\ full) \/ pc = trace.stopAt
                          THEN "end" ELSE "insn"
    /\ UNCHANGED <<trace, pc, words, context, error, restarted, verdict>>

\* What the instruction at pc leaves, and the simulated call it was part of.
Left(n, ext) ==
    LET met == Last(executed) IN
    [executed EXCEPT ![Len(executed)] = [met EXCEPT !.after = n, !.external = ext]]
Leaves(n, ext) == executed' = IF pc \in trace.captured THEN Left(n, ext) ELSE executed

-----------------------------------------------------------------------------
(* Imported functions *)

\* _simulate_symbol_with_args: None for a symbol it does not know or an argument it
\* cannot read; a failed stack check leaves its context; both this and exit stop
\* the emulator.
Simulated(import) == import \in {"known", "exit", "smash"}
SimulatedContext(import) ==
    IF import = "smash" THEN [type |-> "stack_chk_fail", at |-> Null] ELSE context
AfterSimulated(import) == IF import = "known" THEN "hooks" ELSE "end"

Emulates == emulator = "insn" /\ now < MaxChanges

\* _hook_code_pre_call_skip: a direct call of a stub is not executed.  The event is
\* known by the state of the machine the call left.
PreCallSkip ==
    /\ Emulates
    /\ Insn(pc).op = "ext" /\ Simulated(Insn(pc).import)
    /\ now' = now + 1
    /\ events' = [events EXCEPT ![pc] = Append(@, now')]
    /\ context' = SimulatedContext(Insn(pc).import)
    /\ pc' = pc + 1
    /\ emulator' = AfterSimulated(Insn(pc).import)
    /\ Leaves(now', now')
    /\ UNCHANGED <<trace, words, pending, snapshots, bytes, limitReached, error, restarted, verdict>>

-----------------------------------------------------------------------------
(* The machine *)

BadRead == [type |-> "unmapped_read", at |-> Wild]

\* Where the emulator goes on: the blob of trace_raw ends after its last
\* instruction, and what is not mapped cannot be fetched.
Arrives(a) ==
    /\ pc' = a
    /\ emulator' = CASE ~trace.elf /\ a = ProgramSize + 1 -> "end"
                  [] a \in {Null, Wild} -> "fetch"
                  [] OTHER -> "hooks"

\* Under the words of the program is argc, which is no address of it.
Top == IF words = <<>> THEN Wild ELSE Head(words)
Below == IF words = <<>> THEN <<>> ELSE Tail(words)

Execute ==
    /\ Emulates
    /\ pc \in 1..ProgramSize
    /\ ~(Insn(pc).op = "ext" /\ Simulated(Insn(pc).import))
    /\ LET i == Insn(pc) IN
       /\ i.op \notin {"fault", "bad"}
       /\ \/ i.op = "plain" /\ words' = words /\ Arrives(pc + 1)
          \/ i.op = "over" /\ words' = <<Wild>> \o Below /\ Arrives(pc + 1)
          \/ i.op = "jcc" /\ words' = words /\ \E a \in {i.to, pc + 1} : Arrives(a)
          \/ i.op = "call" /\ words' = <<pc + 1>> \o words /\ Arrives(i.to)
          \/ i.op \in {"ext", "bnd"} /\ words' = <<pc + 1>> \o words /\ Arrives(Stub)
          \/ i.op = "ret" /\ words' = Below /\ Arrives(Top)
    /\ now' = now + 1 /\ Leaves(now', 0)
    /\ UNCHANGED <<trace, pending, snapshots, bytes, limitReached, events, context, error,
                   restarted, verdict>>

\* The stub pushes a word and jumps through an entry that nobody has resolved.
RunStub ==
    /\ Emulates /\ pc = Stub
    /\ words' = <<Null>> \o words /\ Arrives(Null)
    /\ now' = now + 1 /\ Leaves(now', 0)
    /\ UNCHANGED <<trace, pending, snapshots, bytes, limitReached, events, context, error,
                   restarted, verdict>>

\* Under the interpreter the program starts, or the interpreter itself fails.
RunLoader ==
    /\ Emulates /\ pc = Interpreter
    /\ \/ Arrives(trace.start) /\ UNCHANGED <<context, error>>
       \/ emulator' = "end" /\ context' = BadRead /\ error' = "read" /\ pc' = pc
       \/ emulator' = "end" /\ context' = context /\ error' = "insn" /\ pc' = pc
    /\ now' = now + 1 /\ Leaves(now', 0)
    /\ UNCHANGED <<trace, words, pending, snapshots, bytes, limitReached, events, restarted, verdict>>

\* An access to memory that is not mapped, with _hook_mem_read_unmapped; and an
\* instruction there is none of, with no hook.
Fault ==
    /\ Emulates
    /\ \/ Insn(pc).op = "fault" /\ context' = BadRead /\ error' = "read"
       \/ Insn(pc).op = "bad" /\ context' = context /\ error' = "insn"
    /\ emulator' = "end"
    /\ UNCHANGED <<trace, pc, words, now, pending, snapshots, bytes, limitReached, events,
                   restarted, verdict, executed>>

\* _find_return_slot: the first word that is a mapped, captured address.
ReturnSlots == {k \in 1..Len(words) : words[k] \in Mapped /\ words[k] \in trace.captured}
ReturnSlot == CHOOSE k \in ReturnSlots : \A j \in ReturnSlots : k <= j

\* _infer_call_target_from_return: the five bytes before it are a direct call.
CalledBefore(a) == IF a - 1 \in 1..ProgramSize THEN Insn(a - 1) ELSE Insn(Interpreter)
Recognised ==
    /\ ReturnSlots # {}
    /\ LET i == CalledBefore(words[ReturnSlot]) IN i.op = "bnd" /\ Simulated(i.import)

\* _hook_mem_fetch_unmapped: the call is simulated after all.  A call with a prefix
\* begins before the address its event is kept under, which is no instruction's.
FetchSimulated ==
    /\ emulator = "fetch" /\ Recognised
    /\ now' = now + 1
    /\ LET back == words[ReturnSlot]
       IN /\ events' = [events EXCEPT ![Null] = Append(@, now')]
          /\ words' = SubSeq(words, ReturnSlot + 1, Len(words))
          /\ pc' = back
          /\ emulator' = AfterSimulated(CalledBefore(back).import)
    /\ context' = NoContext
    /\ executed' = IF pending # NothingPending THEN Left(now', Last(executed).external) ELSE executed
    /\ UNCHANGED <<trace, pending, snapshots, bytes, limitReached, error, restarted, verdict>>

\* ... or it is not, and emu_start raises: the interpreter is tried when nothing was
\* captured so far.
FetchFails ==
    /\ emulator = "fetch" /\ ~Recognised
    /\ context' = [type |-> "unmapped_fetch", at |-> pc]
    /\ IF trace.interp /\ ~restarted /\ snapshots = <<>>
       THEN /\ pc' = Interpreter /\ now' = now + 1 /\ emulator' = "hooks"
            /\ restarted' = TRUE /\ error' = error
       ELSE /\ pc' = pc /\ now' = now /\ emulator' = "end"
            /\ restarted' = restarted /\ error' = "fetch"
    /\ UNCHANGED <<trace, words, pending, snapshots, bytes, limitReached, events, verdict, executed>>

-----------------------------------------------------------------------------
(* The report *)

\* _finalize_crash_report: the last snapshot is the place of the crash.
CrashType ==
    IF context # NoContext THEN context.type ELSE "runtime_error"

\* _classify_crash: what is known to be code was hijacked.
Towards(a) == IF a \in trace.captured THEN "control_hijack" ELSE "fatal_crash"

\* The classification of _build_crash_report, by the instruction of the last
\* snapshot and by whether the stack shows that a control slot was overwritten.
Classified(type, addr, evidence) ==
    LET op == IF addr = Null THEN "plain" ELSE Insn(addr).op
        class == Towards(IF context # NoContext THEN context.at ELSE pc)
    IN CASE type = "stack_chk_fail" -> "stack_chk_fail"
         [] type = "unmapped_read" /\ op \notin {"ret", "call", "ext", "bnd"} /\ addr # Stub -> "runtime_crash"
         [] type = "unmapped_fetch" /\ class = "fatal_crash" /\ ~evidence ->
                IF op = "ret" THEN "benign_termination" ELSE "emulator_stop"
         [] OTHER -> class

\* The end of trace_elf or trace_raw and _build_crash_report: a return to 0 is how
\* main ends.
Report ==
    /\ emulator = "end"
    /\ FinalizePending
    /\ context' = IF restarted /\ error = "" THEN NoContext ELSE context
    /\ pending' = NothingPending
    /\ emulator' = "done"
    /\ LET shown == snapshots'
           addr == IF shown = <<>> THEN Null ELSE Last(shown).addr
           ended == CrashType = "unmapped_fetch" /\ addr # Null /\ Insn(addr).op = "ret" /\ Null \in {context.at, pc}
       IN \E evidence \in BOOLEAN :
            verdict' = IF (error = "" /\ context'.type # "stack_chk_fail") \/ ended THEN NoCrash
                       ELSE [type |-> CrashType, step |-> Len(shown), addr |-> addr,
                             class |-> Classified(CrashType, addr, evidence)]
    /\ UNCHANGED <<trace, pc, words, now, error, restarted, executed>>

CaptureNext ==
    \/ HookCode \/ PreCallSkip \/ Execute \/ RunStub \/ RunLoader \/ Fault
    \/ FetchSimulated \/ FetchFails \/ Report

CaptureSpec == CaptureInit /\ [][CaptureNext]_captureVars

-----------------------------------------------------------------------------
CaptureTypeOK ==
    /\ trace.captured \subseteq Mapped
    /\ pc \in {Null, Wild} \cup Mapped /\ \A k \in 1..Len(words) : words[k] \in {Null, Wild} \cup Mapped
    /\ now \in Nat /\ bytes \in Nat
    /\ emulator \in {"hooks", "insn", "fetch", "end", "done"}
    /\ pending \in [addr : {Null} \cup Mapped, step : Nat, before : Nat]
    /\ \A i \in 1..Len(snapshots) :
         snapshots[i] \in [addr : Mapped, step : Nat, before : Nat, after : Nat, external : Nat]
    /\ {limitReached, restarted} \subseteq BOOLEAN
    /\ DOMAIN events = {Null} \cup Mapped
    /\ context.type \in {"", "unmapped_read", "unmapped_fetch", "stack_chk_fail"}
    /\ error \in {"", "fetch", "read", "insn"}

\* The trace is what happened: the snapshots are the captured instructions in the
\* order the machine met them, each with the state before and after itself (not after
\* a patch of memory, a skipped call or a stop that came later) and with the simulated
\* call that it was; within both limits, and with none missing at the end unless a
\* limit was reached.  Only an interpreter that is tried after the entry point leaves
\* the first snapshot with the state it starts in (hook_code, finalize_pending,
\* _retain_snapshot, _consume_external_event).
SnapshotsTell ==
    /\ Len(snapshots) <= trace.maxSteps /\ bytes <= trace.maxBytes
    /\ Len(snapshots) <= Len(executed)
    /\ \A i \in 1..Len(snapshots) :
         LET s == snapshots[i]
             e == executed[i]
         IN /\ s.step = i /\ s.addr = e.addr /\ s.before = e.before /\ s.external = e.external
            /\ s.after = e.after \/ (restarted /\ i = 1)
    /\ (emulator = "done" /\ Len(snapshots) < Len(executed)) =>
            limitReached \/ Len(snapshots) = trace.maxSteps

\* The verdict is about what stopped the program: a fault in captured code is told at
\* that instruction, and a bad access there is no hijack; a failed stack check is told
\* although the emulator stops without an error; a program whose main returns is not
\* said to have crashed, and one that returned elsewhere is (unless, here too, the
\* interpreter was tried; _finalize_crash_report, _build_crash_report).
CrashTold ==
    (emulator = "done" /\ ~limitReached /\ executed # <<>>) =>
        LET e == Last(executed) IN
        /\ (error \in {"read", "insn"} /\ pc \in trace.captured) =>
               /\ verdict.step = Len(executed) /\ verdict.addr = pc
               /\ (error = "read") => (verdict.class = "runtime_crash")
        /\ ~restarted =>
               /\ (Insn(e.addr).import = "smash" /\ e.external # 0) =>
                      (verdict.class = "stack_chk_fail" /\ verdict.addr = e.addr)
               /\ (error = "fetch" /\ Insn(e.addr).op = "ret") => ((verdict = NoCrash) <=> (pc = Null))
               /\ (verdict = NoCrash) => (error \in {"", "fetch"})

\* The trace and its verdict tell what the machine did (hook_code to
\* _build_crash_report).
TraceTells == SnapshotsTell /\ CrashTold
=============================================================================
