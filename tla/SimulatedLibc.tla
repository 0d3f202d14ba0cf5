---------------------------- MODULE SimulatedLibc ----------------------------
(* What the tracer does in the place of libc (backends/dynamic/engine/unicorn:  *)
(* tracer.py, memory_mapping.py, argv_stdin.py, syscalls.py): each simulated    *)
(* call changes the emulated memory and the streams, and records for the        *)
(* snapshot of its instruction what it wrote.                                   *)
(*                                                                              *)
(* Memory is a function from the mapped addresses; 0 is not mapped.  A format   *)
(* of scanf is its tokens.  A call whose arguments or memory the tracer cannot   *)
(* use is not simulated: its event is dropped, but not what it did so far.        *)
EXTENDS Integers, Sequences, SequencesExt

CONSTANTS
    Cells,           \* addresses 1..Cells are mapped at first
    Page,            \* page size: what _virtual_alloc maps at least
    MaxCopy,         \* 0x20000: _copy_c_string, _strlen_at, _strcmp_at
    MaxText,         \* 0x2000: _read_c_string_bytes
    MaxLine,         \* 0x10000: gets
    Unlimited,       \* no limit: more than any length
    LibcScopes       \* memory, input, formats, arguments and calls of a behaviour

Nul == 0
Newline == 1
Blank == 2
Percent == 3
Small == 4
Capital == 5
ByteValues == {Nul, Newline, Blank, Percent, Small, Capital}
White == {Newline, Blank}

Heap == Cells + 2
\* The streams that are no handle: libc's standard input and the system call's.
Stdin == 0
Syscall == -1

ScanTokens ==
    [kind : {"white", "literal", "conv"}, conv : {"", "s", "[", "d"}, byte : ByteValues, width : Nat,
     assign : BOOLEAN, set : SUBSET ByteValues, invert : BOOLEAN]

ASSUME LibcAssumption ==
    /\ {Cells, Page, MaxCopy, MaxText, MaxLine, Unlimited} \subseteq Nat \ {0}
    /\ MaxText <= MaxCopy /\ MaxCopy <= Unlimited
    /\ \A s \in LibcScopes :
         /\ s.memory \in [1..Cells -> ByteValues]
         /\ s.stdin \in Seq(ByteValues) /\ Len(s.stdin) < Unlimited
         /\ \A f \in s.files : f \in Seq(ByteValues)
         /\ \A f \in s.formats : f \in Seq(ScanTokens)
         /\ s.pointers \subseteq Nat /\ s.lengths \subseteq Nat /\ s.calls \in Nat

VARIABLES
    libc,            \* what may happen
    memory,          \* the mapped memory
    stdinPos,        \* state["stdin_pos"]
    syscallPos,      \* ReadSyscallEmulator._stdin_pos
    handles,         \* virtual_file_handles: data, pos and closed, by handle
    heapNext,        \* virtual_heap_next
    event,           \* the event committed for the last call, NoEvent if it was dropped
    returned,        \* the register of the result
    before,          \* ghost: memory before the last call
    delivered,       \* ghost: the intervals of the streams that calls have taken
    libcCalls        \* bound: calls so far

libcVars == <<libc, memory, stdinPos, syscallPos, handles, heapNext, event, returned, before,
              delivered, libcCalls>>

NoEvent == [simulated |-> FALSE, writes |-> <<>>]
Event(writes) == [simulated |-> TRUE, writes |-> writes]

-----------------------------------------------------------------------------
(* Memory *)

MappedAt(mem, at, n) == at # 0 /\ at..(at + n - 1) \subseteq DOMAIN mem

\* _safe_read_bytes: nothing when a byte is not mapped.
CellsAt(mem, at, n) == IF MappedAt(mem, at, n) THEN [i \in 1..n |-> mem[at + i - 1]] ELSE <<>>

\* uc.mem_write, where it can be done.
Wrote(mem, at, bytes) ==
    [a \in DOMAIN mem |-> IF a \in at..(at + Len(bytes) - 1) THEN bytes[a - at + 1] ELSE mem[a]]

\* _strlen_at: the length of a string of less than `most' bytes, -1 for None.
Strlen(mem, at, most) ==
    LET ends == {n \in 0..(most - 1) : MappedAt(mem, at, n + 1) /\ mem[at + n] = Nul} IN
    IF ends = {} THEN -1 ELSE Min(ends)

\* The byte that is copied k-th: a copy that begins inside its source meets its own bytes.
CopiedByte(mem, src, dst, k) ==
    mem[src + (IF src < dst THEN (k - 1) % (dst - src) ELSE k - 1)]

\* _copy_c_string: byte by byte, up to the NUL, to `most' or to the first byte that
\* is not mapped, which fails and leaves the ones before.
CopyString(mem, src, dst, most) ==
    LET Reached(k) == MappedAt(mem, src, k) /\ MappedAt(mem, dst, k)
        last == Min({most} \cup {k \in 1..most : ~Reached(k) \/ CopiedByte(mem, src, dst, k) = Nul})
        copied == IF Reached(last) THEN last ELSE last - 1
    IN [mem |-> Wrote(mem, dst, [k \in 1..copied |-> CopiedByte(mem, src, dst, k)]),
        copied |-> copied, failed |-> ~Reached(last)]

\* A write as _record_external_access keeps it; `most' is what the call may write.
Recorded(at, size, bytes, most) == [at |-> at, size |-> size, bytes |-> bytes, most |-> most]
WroteBack(mem, at, size, most) == Recorded(at, size, CellsAt(mem, at, size), most)

-----------------------------------------------------------------------------
(* Streams *)

\* _consume_stream_line and _consume_virtual_file_line: where a line from pos ends.
LineEnd(data, pos, most) ==
    LET end == Min({Len(data), pos + most})
        breaks == {k \in (pos + 1)..end : data[k] = Newline}
    IN IF breaks = {} THEN Max({pos, end}) ELSE Min(breaks)

\* _skip_stream_whitespace.
Skipped(data, pos) ==
    Max({k \in pos..Len(data) : \A j \in (pos + 1)..k : data[j] \in White})

\* _consume_stream_token: where the bytes that `t' accepts end.
TokenEnd(data, pos, t) ==
    Max({k \in pos..Min({Len(data), pos + t.width}) :
            \A j \in (pos + 1)..k :
                IF t.conv = "[" THEN (data[j] \in t.set) # t.invert ELSE data[j] \notin White})

\* One turn of _simulate_scanf_call: the input from pos is white up to from, and the
\* bytes after it that the conversion accepts end at to.
ScanToken(s, t, dst, data, from, to) ==
    CASE s.ended -> s
      [] ~s.ended /\ t.kind = "white" -> [s EXCEPT !.pos = from]
      [] ~s.ended /\ t.kind = "literal" ->
            IF s.pos < Len(data) /\ data[s.pos + 1] = t.byte
            THEN [s EXCEPT !.pos = @ + 1] ELSE [s EXCEPT !.ended = TRUE]
      [] ~s.ended /\ t.kind = "conv" /\ t.conv = "d" ->
            [s EXCEPT !.ended = TRUE, !.failed = ~s.supported]
      [] OTHER ->
            LET payload == Append(SubSeq(data, from + 1, to), Nul) IN
            IF from = to THEN [s EXCEPT !.supported = TRUE, !.pos = to, !.ended = TRUE]
            ELSE IF ~t.assign THEN [s EXCEPT !.supported = TRUE, !.pos = to]
            ELSE IF ~MappedAt(s.mem, dst, Len(payload))
            THEN [s EXCEPT !.supported = TRUE, !.pos = to, !.ended = TRUE, !.failed = TRUE]
            ELSE [s EXCEPT !.supported = TRUE, !.pos = to, !.mem = Wrote(@, dst, payload),
                           !.assigned = @ + 1, !.got = Append(@, <<from, to>>),
                           !.writes = Append(@, Recorded(dst, Len(payload), payload, t.width + 1))]

Unscanned(mem, pos) ==
    [mem |-> mem, pos |-> pos, assigned |-> 0, supported |-> FALSE,
     ended |-> FALSE, failed |-> FALSE, got |-> <<>>, writes |-> <<>>]

\* _simulate_scanf_call over a stream, with a destination for every conversion that assigns.
Scanned(mem, format, dsts, data, pos) ==
    LET Turn(s, i) ==
            LET t == format[i]
                from == Skipped(data, s.pos)
            IN ScanToken(s, t, dsts[i], data, from, IF t.kind = "conv" THEN TokenEnd(data, from, t) ELSE from)
        Turns[i \in 0..Len(format)] ==
            IF i = 0 THEN Unscanned(mem, pos) ELSE Turn(Turns[i - 1], i)
    IN Turns[Len(format)]

\* The tokens for which scanf has an argument.
Assigning(format) == {i \in DOMAIN format : format[i].kind = "conv" /\ format[i].assign}

-----------------------------------------------------------------------------
(* Calls *)

LibcInit ==
    /\ libc \in LibcScopes
    /\ memory = libc.memory /\ before = memory
    /\ stdinPos = 0 /\ syscallPos = 0 /\ handles = <<>> /\ heapNext = Heap
    /\ event = NoEvent /\ returned = 0 /\ delivered = <<>> /\ libcCalls = 0

Called == libcCalls < libc.calls /\ libcCalls' = libcCalls + 1 /\ before' = memory /\ libc' = libc

\* _simulate_symbol_with_args returns a value and the event is committed, or None.
Returns(value, writes) == returned' = value /\ event' = Event(writes)
NotSimulated == returned' = returned /\ event' = NoEvent

Streams == <<stdinPos, syscallPos, handles, delivered>>

\* strcpy and stpcpy.
Strcpy ==
    /\ Called /\ "copy" \in libc.kinds
    /\ \E dst, src \in libc.pointers :
         LET c == CopyString(memory, src, dst, MaxCopy) IN
         /\ memory' = c.mem
         /\ IF c.failed THEN NotSimulated
            ELSE \E value \in {dst, dst + c.copied - 1} :
                    Returns(value, <<WroteBack(c.mem, dst, c.copied, Unlimited)>>)
    /\ UNCHANGED <<Streams, heapNext>>

\* A copy followed by NULs up to n bytes, where they fit.
Padded(c, dst, n) ==
    IF MappedAt(c.mem, dst + c.copied, n - c.copied)
    THEN Wrote(c.mem, dst + c.copied, [i \in 1..(n - c.copied) |-> Nul]) ELSE c.mem

\* strncpy, of which `size' bytes are recorded.
StrncpyTold(dst, n, c, size) ==
    IF n = 0 THEN memory' = memory /\ Returns(dst, <<>>)
    ELSE IF c.failed THEN memory' = c.mem /\ NotSimulated
    ELSE memory' = Padded(c, dst, n) /\ Returns(dst, <<WroteBack(memory', dst, size, n)>>)

\* strncpy that records what it copied, without the padding.
StrncpyUnpadded ==
    /\ Called /\ "copy" \in libc.kinds
    /\ \E dst, src \in libc.pointers, n \in libc.lengths :
         LET c == CopyString(memory, src, dst, n) IN StrncpyTold(dst, n, c, c.copied)
    /\ UNCHANGED <<Streams, heapNext>>

\* strncpy: the padding that does not fit is left out, and the call succeeds.
Strncpy ==
    /\ Called /\ "copy" \in libc.kinds
    /\ \E dst, src \in libc.pointers, n \in libc.lengths :
         StrncpyTold(dst, n, CopyString(memory, src, dst, n), n)
    /\ UNCHANGED <<Streams, heapNext>>

\* memcpy and memmove: all of the source is read before the first byte is written.
Memcpy ==
    /\ Called /\ "copy" \in libc.kinds
    /\ \E dst, src \in libc.pointers, n \in libc.lengths :
         IF 0 \notin {src, dst} /\ (n = 0 \/ (MappedAt(memory, src, n) /\ MappedAt(memory, dst, n)))
         THEN /\ memory' = Wrote(memory, dst, CellsAt(memory, src, n))
              /\ Returns(dst, IF n = 0 THEN <<>> ELSE <<WroteBack(memory', dst, n, n)>>)
         ELSE memory' = memory /\ NotSimulated
    /\ UNCHANGED <<Streams, heapNext>>

\* memset and bzero.
Memset ==
    /\ Called /\ "fill" \in libc.kinds
    /\ \E dst \in libc.pointers, n \in libc.lengths, value \in {Nul, Small} :
         IF dst # 0 /\ (n = 0 \/ MappedAt(memory, dst, n))
         THEN /\ memory' = Wrote(memory, dst, [i \in 1..n |-> value])
              /\ Returns(dst, IF n = 0 THEN <<>> ELSE <<WroteBack(memory', dst, n, n)>>)
         ELSE memory' = memory /\ NotSimulated
    /\ UNCHANGED <<Streams, heapNext>>

\* _render_simple_printf_bytes: "%%" is one byte, any other directive leaves the text
\* as it is.
PrintByte(s, b) ==
    [out |-> IF s.half \/ b # Percent THEN Append(s.out, b) ELSE s.out,
     half |-> ~s.half /\ b = Percent,
     raw |-> s.raw \/ (s.half /\ b # Percent)]
PrintedText(text) ==
    LET Bytes[i \in 0..Len(text)] ==
            IF i = 0 THEN [out |-> <<>>, half |-> FALSE, raw |-> FALSE] ELSE PrintByte(Bytes[i - 1], text[i])
        r == Bytes[Len(text)]
    IN IF r.raw \/ r.half THEN text ELSE r.out

\* sprintf and snprintf: the text is cut before its NUL, and its whole length returned.
Sprintf ==
    /\ Called /\ "fill" \in libc.kinds
    /\ \E dst, format \in libc.pointers, n \in libc.lengths \cup {Unlimited} :
         LET size == Strlen(memory, format, MaxText)
             text == PrintedText(CellsAt(memory, format, size))
             payload == SubSeq(text, 1, Min({Len(text), n - 1})) \o <<Nul>>
         IN IF size = -1 THEN memory' = memory /\ NotSimulated
            ELSE IF n = 0 THEN memory' = memory /\ Returns(Len(text), <<>>)
            ELSE IF ~MappedAt(memory, dst, Len(payload)) THEN memory' = memory /\ NotSimulated
            ELSE /\ memory' = Wrote(memory, dst, payload)
                 /\ Returns(Len(text), <<Recorded(dst, Len(payload), payload, n)>>)
    /\ UNCHANGED <<Streams, heapNext>>

\* strdup and _virtual_alloc: fresh pages, one after the other.
Strdup ==
    /\ Called /\ "fill" \in libc.kinds
    /\ \E src \in libc.pointers :
         LET size == Strlen(memory, src, MaxCopy) + 1
             pages == heapNext..(heapNext + Page * ((size + Page - 1) \div Page) - 1)
             mapped == [a \in DOMAIN memory \cup pages |-> IF a \in pages THEN Nul ELSE memory[a]]
             c == CopyString(mapped, src, heapNext, size)
         IN IF size = 0 THEN UNCHANGED <<memory, heapNext>> /\ NotSimulated
            ELSE /\ memory' = c.mem /\ heapNext' = Max(pages) + 1
                 /\ Returns(heapNext, <<WroteBack(c.mem, heapNext, c.copied, size)>>)
    /\ UNCHANGED Streams

Lower(b) == IF b = Capital THEN Small ELSE b

\* _strcmp_at up to `most' bytes: where the strings differ or end together.
Compared(mem, lhs, rhs, most) ==
    LET stops == {k \in 0..(MaxCopy - 1) :
                    k = most \/ (MappedAt(mem, lhs, k + 1) /\ MappedAt(mem, rhs, k + 1)
                                    /\ (mem[lhs + k] # mem[rhs + k] \/ mem[lhs + k] = Nul))}
    IN IF 0 \in {lhs, rhs} \/ stops = {}
            \/ ~(MappedAt(mem, lhs, Min(stops)) /\ MappedAt(mem, rhs, Min(stops))) THEN {}
       ELSE IF Min(stops) = most THEN {0}
       ELSE {mem[lhs + Min(stops)] - mem[rhs + Min(stops)]}

\* The calls that only look: strlen, strcmp, strncmp, strcasecmp, and the ones with a
\* constant result (getpid, getuid, printf, puts).
Inspect ==
    /\ Called /\ "look" \in libc.kinds
    /\ memory' = memory
    /\ \/ \E value \in {1, 1000, 1337} : Returns(value, <<>>)
       \/ \E src \in libc.pointers :
            IF Strlen(memory, src, MaxCopy) = -1 THEN NotSimulated
            ELSE Returns(Strlen(memory, src, MaxCopy), <<>>)
       \/ \E lhs, rhs \in libc.pointers, n \in libc.lengths \cup {Unlimited} :
            IF Compared(memory, lhs, rhs, n) = {} THEN NotSimulated
            ELSE \E value \in Compared(memory, lhs, rhs, n) : Returns(value, <<>>)
       \/ \E lhs, rhs \in libc.pointers :
            IF -1 \in {Strlen(memory, lhs, MaxText), Strlen(memory, rhs, MaxText)} THEN NotSimulated
            ELSE \E value \in Compared([a \in DOMAIN memory |-> Lower(memory[a])], lhs, rhs, Unlimited) :
                    Returns(IF value = 0 THEN 0 ELSE IF value < 0 THEN -1 ELSE 1, <<>>)
    /\ UNCHANGED <<Streams, heapNext>>

\* What a call stores of a stream between two places, with its NUL.
Stores(dst, bytes, most, value) ==
    IF ~MappedAt(memory, dst, Len(bytes)) THEN memory' = memory /\ NotSimulated
    ELSE /\ memory' = Wrote(memory, dst, bytes)
         /\ Returns(value, <<Recorded(dst, Len(bytes), bytes, most)>>)

Delivers(stream, from, to) == delivered' = Append(delivered, [stream |-> stream, from |-> from, to |-> to])

\* gets: without the newline, which is taken; of a longer line what fits the limit.
Gets ==
    /\ Called /\ "input" \in libc.kinds
    /\ \E dst \in libc.pointers :
         LET end == LineEnd(libc.stdin, stdinPos, MaxLine)
             line == SubSeq(libc.stdin, stdinPos + 1, end)
             text == IF line # <<>> /\ Last(line) = Newline THEN Front(line) ELSE line
         IN /\ Stores(dst, Append(text, Nul), MaxLine + 1, dst)
            /\ stdinPos' = end /\ Delivers(Stdin, stdinPos, end)
    /\ UNCHANGED <<syscallPos, handles, heapNext>>

\* fgets of the standard input, or of a file that is closed.
Fgets ==
    /\ Called /\ "input" \in libc.kinds
    /\ \E dst \in libc.pointers, n \in libc.lengths \ {0} :
         LET end == LineEnd(libc.stdin, stdinPos, n - 1)
             line == SubSeq(libc.stdin, stdinPos + 1, end)
         IN /\ Stores(dst, Append(line, Nul), n, IF line = <<>> THEN 0 ELSE dst)
            /\ stdinPos' = end /\ Delivers(Stdin, stdinPos, end)
    /\ UNCHANGED <<syscallPos, handles, heapNext>>

\* read of the standard input; any other descriptor is at its end.
ReadBytes ==
    /\ Called /\ "input" \in libc.kinds
    /\ \/ memory' = memory /\ Returns(0, <<>>) /\ UNCHANGED <<stdinPos, delivered>>
       \/ \E dst \in libc.pointers, n \in libc.lengths :
            LET end == Max({stdinPos, Min({Len(libc.stdin), stdinPos + n})}) IN
            /\ IF end = stdinPos THEN memory' = memory /\ Returns(0, <<>>)
               ELSE Stores(dst, SubSeq(libc.stdin, stdinPos + 1, end), n, end - stdinPos)
            /\ stdinPos' = end /\ Delivers(Stdin, stdinPos, end)
    /\ UNCHANGED <<syscallPos, handles, heapNext>>

\* The read system call (ReadSyscallEmulator), which has a position of its own and
\* records nothing.  A buffer that is not mapped is an error that stops the emulator;
\* any other descriptor is refused.
ReadSyscall ==
    /\ Called /\ "syscall" \in libc.kinds /\ event' = NoEvent
    /\ \/ returned' = -1 /\ UNCHANGED <<memory, syscallPos, delivered>>
       \/ \E dst \in libc.pointers, n \in libc.lengths :
            LET end == Max({syscallPos, Min({Len(libc.stdin), syscallPos + n})}) IN
            /\ end = syscallPos \/ MappedAt(memory, dst, end - syscallPos)
            /\ memory' = Wrote(memory, dst, SubSeq(libc.stdin, syscallPos + 1, end))
            /\ returned' = end - syscallPos
            /\ syscallPos' = end /\ Delivers(Syscall, syscallPos, end)
    /\ UNCHANGED <<stdinPos, handles, heapNext>>

\* The intervals of a stream that a scan has stored.
Intervals(stream, got) ==
    [i \in 1..Len(got) |-> [stream |-> stream, from |-> got[i][1], to |-> got[i][2]]]

Scanf ==
    /\ Called /\ "scan" \in libc.kinds
    /\ \E format \in libc.formats : \E dsts \in [Assigning(format) -> libc.pointers] :
         LET s == Scanned(memory, format, dsts, libc.stdin, stdinPos) IN
         /\ memory' = s.mem /\ stdinPos' = s.pos
         /\ delivered' = delivered \o Intervals(Stdin, s.got)
         /\ IF s.failed THEN NotSimulated ELSE Returns(s.assigned, s.writes)
    /\ UNCHANGED <<syscallPos, handles, heapNext>>

-----------------------------------------------------------------------------
(* Virtual files *)

\* fopen: a path that is not declared is NULL.
Fopen ==
    /\ Called /\ "file" \in libc.kinds
    /\ \/ \E data \in libc.files :
            /\ handles' = Append(handles, [data |-> data, pos |-> 0, closed |-> FALSE])
            /\ Returns(Len(handles) + 1, <<>>)
       \/ handles' = handles /\ Returns(0, <<>>)
    /\ UNCHANGED <<memory, stdinPos, syscallPos, heapNext, delivered>>

OpenHandles == {h \in 1..Len(handles) : ~handles[h].closed}

\* fscanf works on a copy of the position.
Fscanf ==
    /\ Called /\ "file" \in libc.kinds
    /\ \E h \in OpenHandles, format \in libc.formats : \E dsts \in [Assigning(format) -> libc.pointers] :
         LET s == Scanned(memory, format, dsts, handles[h].data, handles[h].pos) IN
         /\ memory' = s.mem /\ handles' = [handles EXCEPT ![h].pos = s.pos]
         /\ delivered' = delivered \o Intervals(h, s.got)
         /\ IF s.failed THEN NotSimulated ELSE Returns(s.assigned, s.writes)
    /\ UNCHANGED <<stdinPos, syscallPos, heapNext>>

\* fgets of a file: nothing is stored at its end.
FgetsFile ==
    /\ Called /\ "file" \in libc.kinds
    /\ \E h \in OpenHandles, dst \in libc.pointers, n \in libc.lengths \ {0} :
         LET f == handles[h]
             end == LineEnd(f.data, f.pos, n - 1)
         IN /\ IF end = f.pos THEN memory' = memory /\ Returns(0, <<>>)
               ELSE Stores(dst, Append(SubSeq(f.data, f.pos + 1, end), Nul), n, dst)
            /\ handles' = [handles EXCEPT ![h].pos = end] /\ Delivers(h, f.pos, end)
    /\ UNCHANGED <<stdinPos, syscallPos, heapNext>>

\* fgetc.
Fgetc ==
    /\ Called /\ "file" \in libc.kinds
    /\ \E h \in OpenHandles :
         LET f == handles[h] IN
         IF f.pos >= Len(f.data) THEN Returns(-1, <<>>) /\ UNCHANGED <<handles, delivered>>
         ELSE /\ handles' = [handles EXCEPT ![h].pos = @ + 1] /\ Delivers(h, f.pos, f.pos + 1)
              /\ Returns(f.data[f.pos + 1], <<>>)
    /\ UNCHANGED <<memory, stdinPos, syscallPos, heapNext>>

\* fclose and feof.
Fclose ==
    /\ Called /\ "file" \in libc.kinds
    /\ \E h \in OpenHandles :
         \/ handles' = [handles EXCEPT ![h].closed = TRUE] /\ Returns(0, <<>>)
         \/ handles' = handles /\ Returns(IF handles[h].pos >= Len(handles[h].data) THEN 1 ELSE 0, <<>>)
    /\ UNCHANGED <<memory, stdinPos, syscallPos, heapNext, delivered>>

LibcNext ==
    \/ Strcpy \/ Strncpy \/ Memcpy \/ Memset \/ Sprintf \/ Strdup \/ Inspect
    \/ Gets \/ Fgets \/ ReadBytes \/ ReadSyscall \/ Scanf
    \/ Fopen \/ Fscanf \/ FgetsFile \/ Fgetc \/ Fclose

LibcSpec == LibcInit /\ [][LibcNext]_libcVars

-----------------------------------------------------------------------------
LibcTypeOK ==
    /\ 1..Cells \subseteq DOMAIN memory /\ 0 \notin DOMAIN memory
    /\ \A a \in DOMAIN memory : memory[a] \in ByteValues
    /\ {stdinPos, syscallPos} \subseteq 0..Len(libc.stdin)
    /\ \A h \in 1..Len(handles) : handles[h].pos \in 0..Len(handles[h].data)
    /\ heapNext >= Heap /\ heapNext \notin DOMAIN memory
    /\ event.simulated \in BOOLEAN /\ libcCalls <= libc.calls

Changed == {a \in DOMAIN memory : memory[a] # (IF a \in DOMAIN before THEN before[a] ELSE Nul)}
Covers(w, a) == a \in w.at..(w.at + w.size - 1)

\* The snapshot of a simulated call tells what the call did: every byte it changed lies
\* in a write it recorded, no write is longer than the arguments allow, and the last
\* record of a byte that shows its value shows the one memory holds.  A record without
\* values is one of bytes that are not all mapped: the padding of a strncpy that runs
\* off the mapping (_simulate_symbol_with_args, _record_external_access).
WritesTold ==
    event.simulated =>
        /\ \A a \in Changed : \E i \in 1..Len(event.writes) : Covers(event.writes[i], a)
        /\ \A i \in 1..Len(event.writes) :
             LET w == event.writes[i] IN
             /\ 0 < w.size /\ w.size <= w.most
             /\ IF w.bytes = <<>> THEN ~MappedAt(memory, w.at, w.size)
                ELSE /\ Len(w.bytes) = w.size /\ MappedAt(memory, w.at, w.size)
                     /\ \A a \in w.at..(w.at + w.size - 1) :
                          (\A j \in (i + 1)..Len(event.writes) : ~Covers(event.writes[j], a))
                              => w.bytes[a - w.at + 1] = memory[a]

\* The input behind a stream: libc and the read system call have the same bytes.
InputOf(stream) == IF stream = Syscall THEN Stdin ELSE stream

\* Input is given once and in order: what two calls took of one input does not overlap,
\* and the later call has the later part, unless one of the two is a call of libc and the
\* other the system call, each of which has the standard input from its first byte
\* (stdin_pos, _stdin_pos); nothing is taken beyond a stream's place
\* (_simulate_scanf_call, _simulate_virtual_fscanf, _consume_stream_line).
InputOnce ==
    \A i \in 1..Len(delivered) :
        /\ \A j \in 1..(i - 1) :
             InputOf(delivered[j].stream) = InputOf(delivered[i].stream) =>
                 \/ delivered[j].to <= delivered[i].from
                 \/ {delivered[j].stream, delivered[i].stream} = {Stdin, Syscall}
        /\ delivered[i].to <= CASE delivered[i].stream = Stdin -> stdinPos
                               [] delivered[i].stream = Syscall -> syscallPos
                               [] OTHER -> handles[delivered[i].stream].pos

\* Simulated calls are told as they happened, over memory and streams that stay within
\* what is mapped and what was given (_simulate_symbol_with_args).
LibcTells == LibcTypeOK /\ WritesTold /\ InputOnce
=============================================================================
