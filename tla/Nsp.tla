-------------------------------- MODULE Nsp --------------------------------
(***************************************************************************)
(* Commands to the NFP Service Processor (nfpcore/nfp_nsp.c).              *)
(*                                                                         *)
(* A caller opens a handle, which locks the NSP resource (Resource models  *)
(* the lock), gives commands one after the other and closes the handle.  A *)
(* command with a buffer goes through the NSP's default buffer if that is  *)
(* large enough, else through chunks of host memory mapped for DMA.  The   *)
(* registers are polled with a timeout.  A caller that times out frees its *)
(* memory and the lock although the NSP may still take or run the command. *)
(*                                                                         *)
(* The NSP itself is external: it takes a command when START is set and it *)
(* is idle, clearing START and setting BUSY, and later puts the result in  *)
(* the registers, the output in the buffer, and clears BUSY.  A command's  *)
(* data, result and output are named by the caller and its serial number.  *)
(***************************************************************************)
EXTENDS Integers, FiniteSets

CONSTANTS
    Callers,
    DefSize,        \* size of the default buffer, in pages
    DmaOrders,      \* NSP_DFLT_BUFFER_DMA_CHUNK_ORDER, in pages
    BufSizes,       \* sizes of buffers: 0 for a command without one
    Minors,         \* ABI minor versions of the NSP
    MaxCommands     \* bound: commands given in all

NSP_MINOR == 8
NoCmd == [by |-> "nobody", n |-> 0]
NoBuf == "none"
Dflt == "dflt"

VARIABLES
    minor,          \* ABI minor version
    sgOK, dmaOrder, \* what the NSP can do with DMA buffers
    lock,           \* callers that hold the NSP resource
    command,        \* the COMMAND register: [start, cmd, buf]
    bufReg,         \* the BUFFER register
    status,         \* the STATUS register: [busy, result]
    running,        \* the command the NSP works on: [cmd, buf]
    option,         \* the result in NSP_COMMAND_OPTION: whose it is
    dflt,           \* whose data is in the default buffer
    caller,         \* [pc, n, size, buf, label, i] of each caller
    chunks, maps,   \* how often each chunk is allocated and mapped
    given,          \* number of commands given
    gaveUp          \* history: a caller gave up before the NSP took its command

nspvars == <<minor, sgOK, dmaOrder, lock, command, bufReg, status, running, option,
             dflt, caller, chunks, maps, given, gaveUp>>
hostmem == <<chunks, maps>>
regs == <<command, bufReg, status, running, option>>
caps == <<minor, sgOK, dmaOrder>>

MaxSize == CHOOSE m \in BufSizes : \A x \in BufSizes : x <= m
ChunkIds == 0 .. MaxSize            \* the last one stands for the descriptor
Desc == MaxSize
Nothing == [k \in ChunkIds |-> 0]

Mine(c) == [by |-> c, n |-> caller[c].n]
At(c, pc) == caller' = [caller EXCEPT ![c].pc = pc]

-----------------------------------------------------------------------------
(***************************************************************************)
(* Opening and closing.                                                    *)
(***************************************************************************)
\* nfp_nsp_check(): the error, or 0.
nfp_nsp_check ==
    IF minor < NSP_MINOR THEN "einval" ELSE IF status.busy THEN "ebusy" ELSE "ok"

nfp_nsp_open(c) ==
    /\ caller[c].pc = "closed" /\ lock = {}
    /\ IF nfp_nsp_check = "ok" THEN lock' = {c} /\ At(c, "open")
       ELSE UNCHANGED <<lock, caller>>
    /\ UNCHANGED <<caps, regs, dflt, hostmem, given, gaveUp>>

\* After an error the callers close; after a success they may go on.
nfp_nsp_close(c) ==
    /\ caller[c].pc \in {"open", "failed", "done"}
    /\ lock' = lock \ {c} /\ At(c, "closed")
    /\ UNCHANGED <<caps, regs, dflt, hostmem, given, gaveUp>>

-----------------------------------------------------------------------------
(***************************************************************************)
(* Choosing and filling the buffer.                                        *)
(***************************************************************************)
\* nfp_nsp_command_buf(): how a command with a buffer of that size is given.
nfp_nsp_command_buf(size) ==
    IF size = 0 THEN "plain"
    ELSE IF minor < 13 THEN "failed"
    ELSE IF DefSize >= size THEN "def"
    ELSE IF dmaOrder = 0 THEN "failed"
    ELSE "dma"

\* nfp_nsp_command_buf_dma(): the size of the chunks, 0 if it cannot be done.
\* A page is the largest chunk of a list; without lists one chunk holds all.
nfp_nsp_command_buf_dma(size) ==
    IF sgOK THEN 1 ELSE IF size > dmaOrder THEN 0 ELSE size

Segments(size) == 0 .. ((size + nfp_nsp_command_buf_dma(size) - 1)
                          \div nfp_nsp_command_buf_dma(size)) - 1

Begin(c) ==
    \E size \in BufSizes :
        LET how == nfp_nsp_command_buf(size)
        IN  /\ caller[c].pc \in {"open", "done"} /\ given < MaxCommands
            /\ given' = given + 1
            /\ caller' = [caller EXCEPT ![c] =
                [@ EXCEPT !.pc = CASE how = "plain" -> "check"
                                   [] how = "def" -> "fill"
                                   [] how = "failed" -> "failed"
                                   [] how = "dma" -> IF nfp_nsp_command_buf_dma(size) = 0
                                                     THEN "failed" ELSE "alloc",
                          !.n = given + 1, !.size = size, !.i = 0,
                          !.buf = IF how = "def" THEN Dflt ELSE NoBuf]]
            /\ UNCHANGED <<caps, lock, regs, dflt, hostmem, gaveUp>>

\* nfp_nsp_command_buf_def() up to the command: the input, or zeroes.
nfp_nsp_command_buf_def(c) ==
    /\ caller[c].pc = "fill" /\ dflt' = Mine(c) /\ At(c, "check")
    /\ UNCHANGED <<caps, lock, regs, hostmem, given, gaveUp>>

\* nfp_nsp_command_buf_dma_sg(): chunk i is allocated, or the allocation fails.
AllocChunk(c) ==
    LET i == caller[c].i
        last == i + 1 \notin Segments(caller[c].size)
    IN  /\ caller[c].pc = "alloc"
        /\ \/ /\ chunks' = [chunks EXCEPT ![c][i] = @ + 1]
              /\ caller' = [caller EXCEPT ![c] = [@ EXCEPT !.pc = IF last THEN "map" ELSE "alloc",
                                                           !.i = IF last THEN 0 ELSE i + 1]]
           \/ /\ caller' = [caller EXCEPT ![c] = [@ EXCEPT !.pc = "unwind", !.to = "failed",
                                                           !.label = "free_prev"]]
              /\ UNCHANGED chunks
        /\ UNCHANGED <<caps, lock, regs, dflt, maps, given, gaveUp>>

\* Chunk i is mapped: that fails, or gives an address the NSP cannot use.
MapChunk(c) ==
    LET i == caller[c].i
        last == i + 1 \notin Segments(caller[c].size)
        next(pc, j) == [caller EXCEPT ![c] = [@ EXCEPT !.pc = pc, !.i = j]]
        unwind(j) == [caller EXCEPT ![c] = [@ EXCEPT !.pc = "unwind", !.i = j, !.to = "failed",
                                                     !.label = "unmap_prev"]]
    IN  /\ caller[c].pc = "map"
        /\ \/ /\ maps' = [maps EXCEPT ![c][i] = @ + 1]
              /\ caller' = IF last THEN next("desc", i) ELSE next("map", i + 1)
           \/ maps' = [maps EXCEPT ![c][i] = @ + 1] /\ caller' = unwind(i + 1)
           \/ UNCHANGED maps /\ caller' = unwind(i)
        /\ UNCHANGED <<caps, lock, regs, dflt, chunks, given, gaveUp>>

\* The descriptor is allocated and mapped.
MapDesc(c) ==
    LET unwind(l) == [caller EXCEPT ![c] = [@ EXCEPT !.pc = "unwind", !.to = "failed", !.label = l]]
    IN  /\ caller[c].pc = "desc"
        /\ \/ /\ chunks' = [chunks EXCEPT ![c][Desc] = @ + 1]
              /\ maps' = [maps EXCEPT ![c][Desc] = @ + 1]
              /\ caller' = [caller EXCEPT ![c] = [@ EXCEPT !.pc = "check", !.buf = c]]
           \/ /\ chunks' = [chunks EXCEPT ![c][Desc] = @ + 1] /\ UNCHANGED maps
              /\ caller' = unwind("free_desc")
           \/ caller' = unwind("unmap_all") /\ UNCHANGED hostmem
        /\ UNCHANGED <<caps, lock, regs, dflt, given, gaveUp>>

\* The exit labels of nfp_nsp_command_buf_dma_sg(), from label on.
Unwind(c) ==
    LET x == caller[c]
        l == x.label
        segs == Segments(x.size)
        prev == {k \in segs : k < x.i}
        unmapped == (IF l = "unmap_desc" THEN {Desc} ELSE {})
                    \cup (IF l \in {"unmap_desc", "free_desc", "unmap_all"} THEN segs
                          ELSE IF l = "unmap_prev" THEN prev ELSE {})
        freed == (IF l \in {"unmap_desc", "free_desc"} THEN {Desc} ELSE {})
                 \cup (IF l = "free_prev" THEN prev ELSE segs)
    IN  /\ x.pc = "unwind" /\ At(c, x.to)
        /\ maps' = [maps EXCEPT ![c] = [k \in ChunkIds |-> IF k \in unmapped THEN @[k] - 1 ELSE @[k]]]
        /\ chunks' = [chunks EXCEPT ![c] = [k \in ChunkIds |-> IF k \in freed THEN @[k] - 1 ELSE @[k]]]
        /\ UNCHANGED <<caps, lock, regs, dflt, given, gaveUp>>

-----------------------------------------------------------------------------
(***************************************************************************)
(* __nfp_nsp_command().                                                    *)
(***************************************************************************)
\* Where the command returns to, with an error or without.
Return(c, to) ==
    caller' = [caller EXCEPT ![c] =
        IF @.buf = c THEN [@ EXCEPT !.pc = "unwind", !.to = to, !.label = "unmap_desc"]
        ELSE [@ EXCEPT !.pc = to]]

CheckStatus(c) ==
    /\ caller[c].pc = "check"
    /\ IF nfp_nsp_check = "ok" THEN At(c, "buffer") ELSE Return(c, "failed")
    /\ UNCHANGED <<caps, lock, regs, dflt, hostmem, given, gaveUp>>

WriteBuffer(c) ==
    /\ caller[c].pc = "buffer" /\ At(c, "command")
    /\ bufReg' = caller[c].buf
    /\ UNCHANGED <<caps, lock, command, status, running, option, dflt, hostmem, given, gaveUp>>

WriteCommand(c) ==
    /\ caller[c].pc = "command" /\ At(c, "waitstart")
    /\ command' = [start |-> TRUE, cmd |-> Mine(c)]
    /\ UNCHANGED <<caps, lock, bufReg, status, running, option, dflt, hostmem, given, gaveUp>>

\* Mutant: START is not waited for.
WaitStartSkipped(c) ==
    /\ caller[c].pc = "waitstart" /\ At(c, "waitbusy")
    /\ UNCHANGED <<caps, lock, regs, dflt, hostmem, given, gaveUp>>

\* nfp_nsp_wait_reg() for START and for BUSY.
WaitStart(c) ==
    /\ caller[c].pc = "waitstart" /\ ~command.start /\ At(c, "waitbusy")
    /\ UNCHANGED <<caps, lock, regs, dflt, hostmem, given, gaveUp>>

\* The status is read last when BUSY has gone, the result right after it.
WaitBusy(c) ==
    /\ caller[c].pc = "waitbusy" /\ ~status.busy
    /\ caller' = [caller EXCEPT ![c] = [@ EXCEPT !.pc = "result", !.seen = status.result]]
    /\ UNCHANGED <<caps, lock, regs, dflt, hostmem, given, gaveUp>>

\* A result code in the status is an error of the command.
ReadResult(c) ==
    /\ caller[c].pc = "result"
    /\ \/ caller' = [caller EXCEPT ![c] = [@ EXCEPT !.pc = "output", !.got = option]]
       \/ Return(c, "failed")
    /\ UNCHANGED <<caps, lock, regs, dflt, hostmem, given, gaveUp>>

\* The output is copied from the buffer and the memory given back.
ReadOutput(c) ==
    /\ caller[c].pc = "output" /\ Return(c, "done")
    /\ UNCHANGED <<caps, lock, regs, dflt, hostmem, given, gaveUp>>

\* A register cannot be accessed, or START or BUSY stays set for too long.
GiveUp(c) ==
    /\ caller[c].pc \in {"check", "buffer", "command", "waitstart", "waitbusy", "result"}
    /\ Return(c, "failed")
    /\ gaveUp' = (gaveUp \/ (caller[c].pc = "waitstart" /\ command.start))
    /\ UNCHANGED <<caps, lock, regs, dflt, hostmem, given>>

-----------------------------------------------------------------------------
(***************************************************************************)
(* The service processor.                                                  *)
(***************************************************************************)
NspTake ==
    /\ command.start /\ ~status.busy
    /\ command' = [command EXCEPT !.start = FALSE]
    /\ status' = [status EXCEPT !.busy = TRUE]
    /\ running' = [cmd |-> command.cmd, buf |-> bufReg]
    /\ UNCHANGED <<caps, lock, bufReg, option, dflt, caller, hostmem, given, gaveUp>>

NspFinish ==
    /\ status.busy
    /\ status' = [busy |-> FALSE, result |-> running.cmd]
    /\ option' = running.cmd
    /\ dflt' = IF running.buf = Dflt THEN running.cmd ELSE dflt
    /\ running' = [cmd |-> NoCmd, buf |-> NoBuf]
    /\ UNCHANGED <<caps, lock, command, bufReg, caller, hostmem, given, gaveUp>>

-----------------------------------------------------------------------------
NspInit ==
    /\ minor \in Minors /\ sgOK \in BOOLEAN /\ dmaOrder \in DmaOrders
    /\ lock = {} /\ given = 0
    /\ command = [start |-> FALSE, cmd |-> NoCmd] /\ bufReg = NoBuf
    /\ status = [busy |-> FALSE, result |-> NoCmd]
    /\ running = [cmd |-> NoCmd, buf |-> NoBuf] /\ option = NoCmd /\ dflt = NoCmd
    /\ caller = [c \in Callers |-> [pc |-> "closed", n |-> 0, size |-> 0, i |-> 0, buf |-> NoBuf,
                                    label |-> "", to |-> "", seen |-> NoCmd, got |-> NoCmd]]
    /\ chunks = [c \in Callers |-> Nothing] /\ maps = [c \in Callers |-> Nothing]
    /\ gaveUp = FALSE

NspNext ==
    \/ NspTake \/ NspFinish
    \/ \E c \in Callers :
        \/ nfp_nsp_open(c) \/ nfp_nsp_close(c) \/ Begin(c) \/ nfp_nsp_command_buf_def(c)
        \/ AllocChunk(c) \/ MapChunk(c) \/ MapDesc(c) \/ Unwind(c)
        \/ CheckStatus(c) \/ WriteBuffer(c) \/ WriteCommand(c)
        \/ WaitStart(c) \/ WaitBusy(c) \/ ReadResult(c) \/ ReadOutput(c)
        \/ GiveUp(c)

-----------------------------------------------------------------------------
\* Both halves of an answer, the status and the option word, and the default
\* buffer, are those of the command that is waiting for them
\* (__nfp_nsp_command, nfp_nsp_command_buf_def), even after timeouts of others.
AnswerIsMine ==
    \A c \in Callers : caller[c].pc = "output" =>
        /\ caller[c].seen = Mine(c) /\ caller[c].got = Mine(c)
        /\ caller[c].buf = Dflt => dflt = Mine(c)

\* The NSP works on the buffer of its command, and nobody else has written to
\* it or given it back, unless a caller gave up on a command the NSP had not
\* taken yet or its own caller gave up (__nfp_nsp_command).
BufferStays ==
    status.busy /\ ~gaveUp =>
        LET c == running.cmd.by
            waits == caller[c].n = running.cmd.n /\ caller[c].pc \in {"waitstart", "waitbusy"}
        IN  waits => /\ running.buf = caller[c].buf
                     /\ running.buf = Dflt => dflt = running.cmd
                     /\ running.buf = c => maps[c][Desc] = 1

\* All that was mapped is unmapped once and all that was allocated is freed
\* once, whichever step failed, and nothing is freed while it is mapped
\* (nfp_nsp_command_buf_dma_sg).
ChunksReturned ==
    \A c \in Callers, k \in ChunkIds :
        /\ maps[c][k] \in 0 .. chunks[c][k] /\ chunks[c][k] <= 1
        /\ caller[c].pc \in {"closed", "open", "done", "failed"} => chunks[c][k] = 0
=============================================================================
