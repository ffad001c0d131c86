------------------------------ MODULE Console ------------------------------
(***************************************************************************)
(* The console driver (src/src/console.c) and the traps that reach it:    *)
(* SYSCALL_GETC, SYSCALL_PUTC and the UART interrupt IRQ_HW of            *)
(* irq_handler (src/src/main.c), composed with the kernel of module       *)
(* Kernel.  A getc that finds the receive buffer empty leaves the CPU and *)
(* waits on threads_waiting_for_input, a ring of the same list_t nodes    *)
(* the scheduler uses; the interrupt hands it a character and pushes it   *)
(* back on the ready ring.  A putc that finds the send buffer full rewinds *)
(* sepc, so that the thread executes the same ecall again when it next    *)
(* runs.                                                                   *)
(*                                                                         *)
(* A character the UART receives is numbered by its arrival, so that the  *)
(* order and the count of the characters getc returns can be checked.    *)
(* The console helpers are functions of the kernel state record extended  *)
(* with the console's fields, so that the scheduler's own operators       *)
(* (Push, SchedNext) apply to it unchanged.                                *)
(***************************************************************************)
EXTENDS Kernel

CONSTANTS
    CONSOLE_BUFFER_SIZE,    \* bytes in each console buffer (lib/hw.h)
    OutChars,               \* characters user code passes to putc
    MaxInput,               \* model bound: characters the UART receives
    MaxOutput               \* model bound: characters putc accepts

SYSCALL_GETC == 65      \* 0x41
NoRetry == "none"

VARIABLES
    waiting,    \* threads_waiting_for_input
    recvBuf,    \* console_receive_buffer[0 .. console_receive_cnt - 1]
    sendBuf,    \* console_send_buffer[0 .. console_send_cnt - 1]
    rx,         \* the characters in the UART's receive FIFO
    out,        \* the characters written to the UART's transmit register
    arrived,    \* characters received by the UART so far
    got,        \* history: the characters getc has returned, in order
    accepted,   \* history: the characters putc has accepted, in order
    retry       \* the putc a thread re-executes after a refusal, or NoRetry

cvars == <<waiting, recvBuf, sendBuf, rx, out, arrived, got, accepted, retry>>
allvars == <<vars, cvars>>

CSt == [links |-> links, sched |-> sched, thr |-> thr, sem |-> sem, rec |-> rec,
        halt |-> halt, waiting |-> waiting, recvBuf |-> recvBuf,
        sendBuf |-> sendBuf, got |-> got, accepted |-> accepted, retry |-> retry,
        rx |-> rx, out |-> out]

CSet(S) ==
    /\ Set(S)
    /\ waiting' = S.waiting /\ recvBuf' = S.recvBuf /\ sendBuf' = S.sendBuf
    /\ got' = S.got /\ accepted' = S.accepted /\ retry' = S.retry
    /\ rx' = S.rx /\ out' = S.out
    /\ UNCHANGED arrived

(* __console_init: both buffers empty, nobody waiting. *)
ConsoleInit ==
    /\ waiting = NULL /\ recvBuf = <<>> /\ sendBuf = <<>>
    /\ rx = <<>> /\ out = <<>> /\ arrived = 0
    /\ got = <<>> /\ accepted = <<>>
    /\ retry = [t \in UserThreads |-> NoRetry]

(* __waiting_push: the thread to the tail of the input wait ring. *)
WaitingPush(S, t) ==
    IF S.waiting = NULL THEN [S EXCEPT !.links = ListSingle(@, t), !.waiting = t]
    ELSE [S EXCEPT !.links = ListInsert(@, S.waiting, t)]

(* __waiting_pop: unlink the head; the next node becomes the head. *)
WaitingPop(S) ==
    IF S.links[S.waiting].next = S.waiting THEN [S EXCEPT !.waiting = NULL]
    ELSE LET L1 == ListUnlink(S.links, S.waiting)
         IN  [S EXCEPT !.links = L1, !.waiting = L1[S.waiting].next]

(* Mutation: the unsent characters are taken from the front of the       *)
(* buffer, not after the ones just sent.                                   *)
ConsoleSendKeepHead(S, ready) ==
    LET k == IF ready < Len(S.sendBuf) THEN ready ELSE Len(S.sendBuf)
    IN  [S EXCEPT !.out = @ \o SubSeq(S.sendBuf, 1, k),
                  !.sendBuf = SubSeq(@, 1, Len(@) - k)]

(* __console_send: the UART takes characters while its status shows it    *)
(* ready; ready is the number it takes before the bit drops.  The rest     *)
(* moves to the front of the buffer.                                       *)
ConsoleSend(S, ready) ==
    LET k == IF ready < Len(S.sendBuf) THEN ready ELSE Len(S.sendBuf)
    IN  [S EXCEPT !.out = @ \o SubSeq(S.sendBuf, 1, k),
                  !.sendBuf = SubSeq(@, k + 1, Len(@))]

(* Mutation: every waiter is given the first buffered character. *)
RECURSIVE UnblockFirstChar(_, _, _)
UnblockFirstChar(S, k, fuel) ==
    IF S.waiting = NULL \/ k >= Len(S.recvBuf) \/ fuel = 0
    THEN [S EXCEPT !.recvBuf = SubSeq(@, k + 1, Len(@))]
    ELSE LET t == S.waiting
             c == S.recvBuf[1]
             S1 == [WaitingPop(S) EXCEPT !.thr[t].a0 = c, !.got = Append(@, c)]
         IN  UnblockFirstChar(Push(S1, t), k + 1, fuel - 1)

(* The second loop of __console_receive: the waiters in order each get the *)
(* next buffered character in a0 and go to the ready ring; the characters  *)
(* handed out leave the buffer.                                            *)
RECURSIVE Unblock(_, _, _)
Unblock(S, k, fuel) ==
    IF S.waiting = NULL \/ k >= Len(S.recvBuf) \/ fuel = 0
    THEN [S EXCEPT !.recvBuf = SubSeq(@, k + 1, Len(@))]
    ELSE LET t == S.waiting
             c == S.recvBuf[k + 1]
             S1 == [WaitingPop(S) EXCEPT !.thr[t].a0 = c, !.got = Append(@, c)]
         IN  Unblock(Push(S1, t), k + 1, fuel - 1)

(* Mutation: the first loop without its console_receive_cnt < size test. *)
ConsoleReceiveNoRoom(S) ==
    LET S1 == [S EXCEPT !.recvBuf = @ \o S.rx, !.rx = <<>>]
    IN  Unblock(S1, 0, Cardinality(UserThreads))

(* __console_receive: move what the UART holds into the buffer while there *)
(* is room, then serve the waiting threads from it.                        *)
ConsoleReceive(S) ==
    LET n == IF Len(S.rx) < CONSOLE_BUFFER_SIZE - Len(S.recvBuf)
             THEN Len(S.rx) ELSE CONSOLE_BUFFER_SIZE - Len(S.recvBuf)
        S1 == [S EXCEPT !.recvBuf = @ \o SubSeq(S.rx, 1, n),
                        !.rx = SubSeq(@, n + 1, Len(@))]
    IN  Unblock(S1, 0, Cardinality(UserThreads))

(* Mutation: the thread is queued for input but keeps the CPU. *)
GetcNoSwitch(S) ==
    LET c == S.sched.current
    IN  IF S.recvBuf = <<>>
        THEN WaitingPush([S EXCEPT !.thr[c].a0 = SYSCALL_GETC], c)
        ELSE [S EXCEPT !.thr[c].a0 = S.recvBuf[1], !.recvBuf = Tail(@),
                       !.got = Append(@, S.recvBuf[1])]

(* Mutation: the thread leaves the CPU but is never queued for input. *)
GetcLost(S) ==
    LET c == S.sched.current
    IN  IF S.recvBuf = <<>>
        THEN [SchedNext(S) EXCEPT !.thr[c].a0 = SYSCALL_GETC]
        ELSE [S EXCEPT !.thr[c].a0 = S.recvBuf[1], !.recvBuf = Tail(@),
                       !.got = Append(@, S.recvBuf[1])]

(* __getc: with the buffer empty the thread leaves the CPU (a0 still holds *)
(* the syscall number) and waits; otherwise it takes the first character.  *)
Getc(S) ==
    LET c == S.sched.current
    IN  IF S.recvBuf = <<>>
        THEN WaitingPush([SchedNext(S) EXCEPT !.thr[c].a0 = SYSCALL_GETC], c)
        ELSE [S EXCEPT !.thr[c].a0 = S.recvBuf[1], !.recvBuf = Tail(@),
                       !.got = Append(@, S.recvBuf[1])]

(* __putc and the SYSCALL_PUTC case: a full buffer is first flushed; if it *)
(* is still full the call fails, sepc is rewound to the ecall and the      *)
(* thread goes to the tail of the ready ring; otherwise the buffer is      *)
(* flushed again and the character appended.                               *)
Putc(S, ch, ready1, ready2) ==
    LET c == S.sched.current
        S1 == IF Len(S.sendBuf) = CONSOLE_BUFFER_SIZE THEN ConsoleSend(S, ready1) ELSE S
        S2 == ConsoleSend(S1, ready2)
    IN  IF Len(S1.sendBuf) = CONSOLE_BUFFER_SIZE
        THEN SchedNext(Push([S1 EXCEPT !.retry[c] = ch], c))
        ELSE [S2 EXCEPT !.sendBuf = Append(@, ch), !.accepted = Append(@, ch),
                        !.retry[c] = NoRetry]

(* __stop (kernel.c 95-102), when kernel_main leaves its loop: one         *)
(* __console_send, then the halt word.  What the UART does not take then   *)
(* stays in the buffer and is never sent.                                  *)
Stop(S, ready) == [ConsoleSend(S, ready) EXCEPT !.halt = "stop"]
-----------------------------------------------------------------------------
Ready == 0..CONSOLE_BUFFER_SIZE

(* SYSCALL_GETC from a thread with no putc to re-execute. *)
SysGetc ==
    /\ UserTrap /\ retry[Current] = NoRetry
    /\ CSet(Getc(CSt))

(* SYSCALL_PUTC: a new character, or the one whose ecall was rewound. *)
SysPutc ==
    /\ UserTrap
    /\ \E ch \in OutChars, ready1, ready2 \in Ready :
        /\ IF retry[Current] = NoRetry THEN Len(accepted) < MaxOutput
           ELSE ch = retry[Current]
        /\ CSet(Putc(CSt, ch, ready1, ready2))

(* kernel_main with no user thread counted: __stop. *)
ConsoleStop ==
    /\ Running /\ Current = KernelMain /\ sched.userCount = 0
    /\ \E ready \in Ready : CSet(Stop(CSt, ready))

(* IRQ_HW with PLIC source 10: __console_receive, then __console_send. *)
IrqHw(ready) == Running /\ CSet(ConsoleSend(ConsoleReceive(CSt), ready))

(* The UART receives a character: the device, not the program. *)
UartReceive ==
    /\ Running /\ arrived < MaxInput
    /\ rx' = Append(rx, arrived + 1)
    /\ arrived' = arrived + 1
    /\ UNCHANGED <<vars, waiting, recvBuf, sendBuf, out, got, accepted, retry>>

(* The kernel's traps.  A thread whose putc was refused executes only that *)
(* putc again: its other system calls are not reached.                     *)
KernelSyscall ==
    \/ SysThreadCreate \/ SysThreadExit \/ SysThreadDispatch \/ SysTimeSleep
    \/ SysSemOpen \/ SysSemClose \/ SysSemWait \/ SysSemSignal \/ SysSemTimedWait

ConsoleNext ==
    \/ (IrqTimer \/ KernelDispatch) /\ UNCHANGED cvars
    \/ ConsoleStop
    \/ KernelSyscall /\ retry[Current] = NoRetry /\ UNCHANGED cvars
    \/ SysGetc
    \/ SysPutc
    \/ \E ready \in Ready : IrqHw(ready)
    \/ UartReceive

(* The UART raises its interrupt while its receive FIFO holds data, and   *)
(* user threads and kernel_main's idle loop run with interrupts enabled.   *)
(* InputFair is WF_allvars(InputTrap) written out, with ENABLED spelled as *)
(* the state predicate that some IrqHw step changes the state.             *)
InputTrap == rx # <<>> /\ \E ready \in Ready : IrqHw(ready)
InputFair ==
    \/ []<>~(Running /\ rx # <<>> /\ \E ready \in Ready :
                ConsoleSend(ConsoleReceive(CSt), ready) # CSt)
    \/ []<><<InputTrap>>_allvars

ConsoleSpec == Init /\ ConsoleInit /\ [][ConsoleNext]_allvars /\ TimerFair /\ InputFair
-----------------------------------------------------------------------------
(***************************************************************************)
(* Properties                                                              *)
(***************************************************************************)

ConsoleWaiters == Members(links, waiting)
(* A thread parked by getc: alive, off the CPU, a0 still the syscall code. *)
GetcBlocked(t) == thr[t].live /\ t # Current /\ thr[t].a0 = SYSCALL_GETC

(* Both buffers stay within CONSOLE_BUFFER_SIZE (the bound the receive    *)
(* loop and __putc test), and every a0 is a result the kernel writes.      *)
ConsoleTypeOK ==
    /\ recvBuf \in Seq(1..MaxInput) /\ Len(recvBuf) <= CONSOLE_BUFFER_SIZE
    /\ sendBuf \in Seq(OutChars) /\ Len(sendBuf) <= CONSOLE_BUFFER_SIZE
    /\ rx \in Seq(1..MaxInput) /\ out \in Seq(OutChars)
    /\ waiting \in UserThreads \cup {NULL}
    /\ retry \in [UserThreads -> OutChars \cup {NoRetry}]
    /\ \A t \in Threads : thr[t].a0 \in A0Values \cup (1..MaxInput) \cup {SYSCALL_GETC}

(* Every character the UART receives is returned by exactly one getc, in  *)
(* the order it arrived: what getc returned, then the receive buffer, then *)
(* the UART's FIFO, are the arrivals in order (__getc, __console_receive   *)
(* and their shifts of console_receive_buffer).                            *)
InputInOrder == got \o recvBuf \o rx = [i \in 1..arrived |-> i]

(* Every character putc accepted reaches the UART once, in the order       *)
(* accepted: what was sent, then the send buffer, is what was accepted     *)
(* (__putc, its retry after a refusal, and __console_send's shift).        *)
OutputInOrder == out \o sendBuf = accepted

(* A thread blocked in getc is on the input wait ring and nowhere else:   *)
(* every live user thread is in exactly one place (running, ready, asleep,  *)
(* on a semaphore or waiting for input); the wait ring is a ring of live   *)
(* threads whose a0 still awaits a character; and nobody waits while a     *)
(* character sits in the receive buffer.                                   *)
ConsoleThreadsAccounted ==
    Running =>
    /\ RingOK(links, waiting)
    /\ ConsoleWaiters \subseteq LiveUsers
    /\ \A t \in LiveUsers :
          Cardinality(Places(t) \cup (IF t \in ConsoleWaiters THEN {"input"} ELSE {})) = 1
    /\ \A t \in ConsoleWaiters : thr[t].a0 = SYSCALL_GETC
    /\ ConsoleWaiters # {} => recvBuf = <<>>

(* Liveness, under the fair timer and the level-triggered UART interrupt: *)
(* a thread blocked in getc runs again once the UART holds at least as    *)
(* many characters as there are blocked threads (the interrupt serves the *)
(* waiters in order, then the scheduler runs them).                        *)
InputReachesWaiters ==
    \A t \in UserThreads :
        (GetcBlocked(t) /\ Len(rx) >= Cardinality({u \in UserThreads : GetcBlocked(u)}))
            ~> Current = t
=============================================================================
