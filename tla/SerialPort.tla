----------------------------- MODULE SerialPort -----------------------------
(***************************************************************************)
(* The character devices: interrupt queues (devices/intq.c), the input     *)
(* buffer (devices/input.c), the serial port (devices/serial.c) with the   *)
(* keyboard as a second source, and the console lock                       *)
(* (lib/kernel/console.c).                                                 *)
(*                                                                         *)
(* A stretch of code with interrupts off is one step.  The UART holds one  *)
(* byte each way: its FIFO is disabled.  An input byte is its place in the *)
(* order of arrival, an output byte is its writer and its place among the  *)
(* writer's bytes.                                                         *)
(***************************************************************************)
EXTENDS Integers, Sequences

CONSTANTS
  Reader,          \* threads that call input_getc()
  Writer,          \* threads that call putbuf()
  INTQ_BUFSIZE,
  MsgLen,          \* bytes of each putbuf()
  MaxMsgs,         \* bound: messages of each writer
  MaxIn,           \* bound: bytes received
  MaxIrq,          \* bound: bytes printed with interrupts off
  irq,             \* whoever prints with interrupts off
  NULL

ASSUME SerialAssumption ==
  /\ INTQ_BUFSIZE \in Nat \ {0, 1}
  /\ \A n \in {MsgLen, MaxMsgs, MaxIn, MaxIrq} : n \in Nat
  /\ MsgLen > 0 /\ Reader \cap Writer = {}
  /\ irq \notin Writer /\ NULL \notin Reader \cup Writer \cup {irq} \cup Nat
  /\ NULL \notin (Writer \cup {irq}) \X Nat

Thread == Reader \cup Writer
Index  == 0 .. INTQ_BUFSIZE - 1

VARIABLES
  buffer, txq,       \* struct intq without its lock: input.c's and serial.c's
  rlock, wlock,      \* the holders of their locks
  mode, ier,         \* serial.c's mode, and the interrupt enable register
  rbr, thr,          \* the byte received, the byte being transmitted, or NULL
  console_lock,      \* its holder
  pc,                \* where each thread stands
  left,              \* bytes left of the putbuf() in progress
  printed,           \* bytes each writer, and irq, has passed to serial_putc()
  panicked,          \* the assertion of wait() has failed
  received, read,    \* bytes put into buffer, bytes returned by input_getc()
  written, sent      \* history: bytes accepted by serial_putc(), bytes on the line

input  == <<buffer, rlock, rbr, received, read>>
output == <<txq, wlock, thr, written, sent>>
console == <<console_lock, left, printed>>
vars == <<input, output, console, mode, ier, pc, panicked>>

----------------------------------------------------------------------------
(* intq.c.                                                                 *)

next(pos) == (pos + 1) % INTQ_BUFSIZE

intq_init == [buf |-> [i \in Index |-> NULL], head |-> 0, tail |-> 0,
              not_full |-> NULL, not_empty |-> NULL]

intq_empty(q) == q.head = q.tail

\* Mutant: the last slot is used too.
intq_full_UseAll(q) == FALSE

intq_full(q) == next(q.head) = q.tail

\* The part of intq_putc() and intq_getc() after their loops: the byte is
\* stored or removed, and signal() forgets the thread it wakes.
Put(q, b) == [q EXCEPT !.buf[q.head] = b, !.head = next(@), !.not_empty = NULL]
Front(q) == q.buf[q.tail]

Take(q) == [q EXCEPT !.tail = next(@), !.not_full = NULL]

\* thread_unblock() of the thread the queue q had in its slot, if any, when
\* the step has turned q into r.
Woken(q, r, t) == \/ t = q.not_empty /\ r.not_empty = NULL
                  \/ t = q.not_full /\ r.not_full = NULL

----------------------------------------------------------------------------
(* serial.c.                                                               *)

\* The interrupts enabled for the input buffer in and the transmit queue tx.
write_ier(in, tx) ==
  (IF intq_empty(tx) THEN {} ELSE {"XMIT"}) \cup (IF intq_full(in) THEN {} ELSE {"RECV"})

\* The registers and the threads after a step that leaves the queues in, tx;
\* the threads of p stand where the step left them.  serial_notify() does
\* nothing before serial_init_queue().
Notify(in, tx) == ier' = IF mode = "QUEUE" THEN write_ier(in, tx) ELSE ier
Wake(in, tx, p) ==
  pc' = [t \in Thread |-> IF Woken(buffer, in, t) \/ Woken(txq, tx, t) THEN "woken" ELSE p[t]]
Stands(t, p) == [pc EXCEPT ![t] = p]

serial_init_queue ==
  /\ mode = "POLL"
  /\ mode' = "QUEUE"
  /\ ier' = write_ier(buffer, txq)
  /\ UNCHANGED <<input, output, console, pc, panicked>>

\* putc_poll() waits for the transmitter, then hands it the byte.
Line == IF thr = NULL THEN <<>> ELSE <<thr>>
putc_poll(b) == sent' = sent \o Line /\ thr' = b

\* One byte of a printing thread, interrupts on.  A full queue makes it wait;
\* woken, it releases the queue's lock and looks again.
serial_putc(t) ==
  LET b  == <<t, printed[t] + 1>>
      tx == Put(txq, b)
  IN
  /\ t \in Writer /\ left[t] > 0
  /\ pc[t] = "run" \/ pc[t] = "woken"
  /\ wlock \in {NULL, t}
  /\ IF mode = "QUEUE" /\ intq_full(txq)
     THEN /\ wlock' = t
          /\ txq' = [txq EXCEPT !.not_full = t]
          /\ pc' = Stands(t, "wait")
          /\ UNCHANGED <<written, sent, thr, left, printed, ier>>
     ELSE /\ wlock' = NULL
          /\ IF mode = "QUEUE"
             THEN txq' = tx /\ ier' = write_ier(buffer, tx) /\ UNCHANGED <<sent, thr>>
             ELSE putc_poll(b) /\ UNCHANGED <<txq, ier>>
          /\ written' = Append(written, b)
          /\ left' = [left EXCEPT ![t] = @ - 1]
          /\ printed' = [printed EXCEPT ![t] = @ + 1]
          /\ pc' = Stands(t, "run")
  /\ UNCHANGED <<input, console_lock, mode, panicked>>

\* Mutant: the new byte goes out by polling, before those that are queued.
serial_putc_off_Overtake ==
  LET b == <<irq, printed[irq] + 1>> IN
  /\ printed[irq] < MaxIrq
  /\ written' = Append(written, b)
  /\ printed' = [printed EXCEPT ![irq] = @ + 1]
  /\ IF mode = "QUEUE" /\ ~intq_full(txq)
     THEN txq' = Put(txq, b) /\ ier' = write_ier(buffer, txq') /\ UNCHANGED <<sent, thr>>
     ELSE putc_poll(b) /\ UNCHANGED <<txq, ier>>
  /\ UNCHANGED <<input, wlock, console_lock, left, mode, pc, panicked>>

\* The same with interrupts off: nobody waits, the oldest byte of a full
\* queue is sent by polling.  It is woken who waits for room.
serial_putc_off ==
  LET b  == <<irq, printed[irq] + 1>>
      q  == IF intq_full(txq) THEN Take(txq) ELSE txq
      tx == IF mode = "QUEUE" THEN Put(q, b) ELSE txq
  IN
  /\ printed[irq] < MaxIrq
  /\ written' = Append(written, b)
  /\ printed' = [printed EXCEPT ![irq] = @ + 1]
  /\ txq' = tx
  /\ IF mode # "QUEUE" THEN putc_poll(b)
     ELSE IF intq_full(txq) THEN putc_poll(Front(txq)) ELSE UNCHANGED <<sent, thr>>
  /\ Notify(buffer, tx)
  /\ Wake(buffer, tx, pc)
  /\ UNCHANGED <<input, wlock, console_lock, left, mode, panicked>>

\* What a queue holds, oldest byte first.
Contents(q) == [i \in 1 .. (q.head - q.tail) % INTQ_BUFSIZE |->
                  q.buf[(q.tail + i - 1) % INTQ_BUFSIZE]]

\* serial_flush() polls everything out, and leaves the register alone.
serial_flush ==
  LET all == Line \o Contents(txq) IN
  /\ ~intq_empty(txq)
  /\ txq' = [txq EXCEPT !.tail = txq.head, !.not_full = NULL]
  /\ sent' = sent \o SubSeq(all, 1, Len(all) - 1)
  /\ thr' = all[Len(all)]
  /\ Wake(buffer, txq', pc)
  /\ UNCHANGED <<input, console, wlock, written, mode, ier, panicked>>

\* Mutant: nothing is transmitted while there is room for input.
serial_interrupt_Else ==
  LET rx == rbr # NULL /\ ~intq_full(buffer)
      in == IF rx THEN Put(buffer, received + 1) ELSE buffer
      go == intq_full(buffer) /\ ~intq_empty(txq) /\ thr = NULL
      tx == IF go THEN Take(txq) ELSE txq
  IN
  /\ \/ "RECV" \in ier /\ rbr # NULL
     \/ "XMIT" \in ier /\ thr = NULL
  /\ buffer' = in /\ txq' = tx
  /\ received' = IF rx THEN received + 1 ELSE received
  /\ rbr' = IF rx THEN NULL ELSE rbr
  /\ thr' = IF go THEN Front(txq) ELSE thr
  /\ ier' = write_ier(in, tx)
  /\ Wake(in, tx, pc)
  /\ UNCHANGED <<rlock, read, wlock, written, sent, console, mode, panicked>>

\* serial_interrupt(): a byte is received if there is room for it, one is
\* transmitted if the transmitter is free.
serial_interrupt ==
  LET rx == rbr # NULL /\ ~intq_full(buffer)
      in == IF rx THEN Put(buffer, received + 1) ELSE buffer
      go == ~intq_empty(txq) /\ thr = NULL
      tx == IF go THEN Take(txq) ELSE txq
  IN
  /\ \/ "RECV" \in ier /\ rbr # NULL
     \/ "XMIT" \in ier /\ thr = NULL
  /\ buffer' = in /\ txq' = tx
  /\ received' = IF rx THEN received + 1 ELSE received
  /\ rbr' = IF rx THEN NULL ELSE rbr
  /\ thr' = IF go THEN Front(txq) ELSE thr
  /\ ier' = write_ier(in, tx)
  /\ Wake(in, tx, pc)
  /\ UNCHANGED <<rlock, read, wlock, written, sent, console, mode, panicked>>

\* The hardware: a byte arrives, or is lost in a full register; a byte is out.
Arrive ==
  /\ rbr = NULL /\ received < MaxIn
  /\ rbr' = "byte"
  /\ UNCHANGED <<buffer, rlock, received, read, output, console, mode, ier, pc, panicked>>

Transmitted ==
  /\ thr # NULL
  /\ sent' = Append(sent, thr) /\ thr' = NULL
  /\ UNCHANGED <<input, txq, wlock, written, console, mode, ier, pc, panicked>>

----------------------------------------------------------------------------
(* input.c and the end of keyboard_interrupt().                            *)

\* A key that stands for a character: it is dropped when there is no room.
keyboard_interrupt ==
  LET in == Put(buffer, received + 1) IN
  /\ received < MaxIn /\ ~intq_full(buffer)
  /\ buffer' = in /\ received' = received + 1
  /\ Notify(in, txq) /\ Wake(in, txq, pc)
  /\ UNCHANGED <<rlock, rbr, read, output, console, mode, panicked>>

\* wait(): q must be empty when the caller, which has got the lock, sleeps.
wait(t) ==
  /\ rlock' = t
  /\ \/ /\ intq_empty(buffer)
        /\ buffer' = [buffer EXCEPT !.not_empty = t]
        /\ pc' = Stands(t, "wait")
        /\ UNCHANGED panicked
     \/ /\ ~intq_empty(buffer)
        /\ panicked' = TRUE
        /\ UNCHANGED <<buffer, pc>>
  /\ UNCHANGED <<read, ier>>

\* Mutant: a reader that was woken keeps the lock.
input_getc_KeepLock(t) ==
  /\ t \in Reader
  /\ pc[t] = "run" \/ pc[t] = "woken"
  /\ \/ /\ ~intq_empty(buffer)
        /\ buffer' = Take(buffer) /\ read' = read + 1
        /\ Notify(Take(buffer), txq) /\ Wake(Take(buffer), txq, Stands(t, "run"))
        /\ UNCHANGED <<rlock, panicked>>
     \/ intq_empty(buffer) /\ rlock = NULL /\ wait(t)
     \/ /\ intq_empty(buffer) /\ rlock # NULL
        /\ pc' = Stands(t, "lock")
        /\ UNCHANGED <<buffer, rlock, read, ier, panicked>>
  /\ UNCHANGED <<rbr, received, output, console, mode>>

\* input_getc(), from its start or from the end of wait(): an empty buffer
\* sends the reader to the queue's lock and to sleep.  A reader that was woken
\* releases the lock first; the release lets no other reader in before the
\* next test of the buffer.
input_getc(t) ==
  LET free == rlock = NULL \/ pc[t] = "woken" IN
  /\ t \in Reader
  /\ pc[t] = "run" \/ pc[t] = "woken"
  /\ \/ /\ ~intq_empty(buffer)
        /\ rlock' = IF pc[t] = "woken" THEN NULL ELSE rlock
        /\ buffer' = Take(buffer) /\ read' = read + 1
        /\ Notify(Take(buffer), txq) /\ Wake(Take(buffer), txq, Stands(t, "run"))
        /\ UNCHANGED panicked
     \/ intq_empty(buffer) /\ free /\ wait(t)
     \/ /\ intq_empty(buffer) /\ ~free
        /\ pc' = Stands(t, "lock")
        /\ UNCHANGED <<buffer, rlock, read, ier, panicked>>
  /\ UNCHANGED <<rbr, received, output, console, mode>>

\* lock_acquire() returns.
LockAcquired(t) ==
  /\ pc[t] = "lock" /\ rlock = NULL
  /\ wait(t)
  /\ UNCHANGED <<rbr, received, output, console, mode>>

----------------------------------------------------------------------------
(* console.c: putbuf() holds the console lock over its bytes.              *)

acquire_console(t) ==
  /\ t \in Writer /\ pc[t] = "run" /\ left[t] = 0 /\ console_lock = NULL
  /\ printed[t] < MsgLen * MaxMsgs
  /\ console_lock' = t
  /\ left' = [left EXCEPT ![t] = MsgLen]
  /\ UNCHANGED <<input, output, printed, mode, ier, pc, panicked>>

release_console(t) ==
  /\ pc[t] = "run" /\ console_lock = t /\ left[t] = 0
  /\ console_lock' = NULL
  /\ UNCHANGED <<input, output, left, printed, mode, ier, pc, panicked>>

----------------------------------------------------------------------------
Init ==
  /\ buffer = intq_init /\ txq = intq_init
  /\ rlock = NULL /\ wlock = NULL
  /\ mode = "POLL" /\ ier = {}
  /\ rbr = NULL /\ thr = NULL
  /\ console_lock = NULL
  /\ pc = [t \in Thread |-> "run"]
  /\ left = [t \in Writer |-> 0]
  /\ printed = [t \in Writer \cup {irq} |-> 0]
  /\ panicked = FALSE
  /\ received = 0 /\ read = 0
  /\ written = <<>> /\ sent = <<>>

Hardware == Arrive \/ Transmitted
Interrupt == serial_interrupt \/ keyboard_interrupt

\* What a thread does once it is inside putbuf() or asleep in input_getc().
Continue(t) == \/ serial_putc(t) \/ release_console(t) \/ LockAcquired(t)
               \/ pc[t] = "woken" /\ input_getc(t)

Next ==
  /\ ~panicked
  /\ \/ \E t \in Writer : acquire_console(t) \/ serial_putc(t) \/ release_console(t)
     \/ \E t \in Reader : input_getc(t) \/ LockAcquired(t)
     \/ serial_init_queue \/ serial_putc_off \/ serial_flush
     \/ Interrupt \/ Hardware

Spec == Init /\ [][Next]_vars

\* The UART transmits and interrupts while it is asked to, and threads inside
\* the kernel are scheduled; nobody has to press a key, read or print.
LiveSpec ==
  /\ Spec
  /\ WF_vars(~panicked /\ serial_init_queue)
  /\ WF_vars(~panicked /\ serial_interrupt)
  /\ WF_vars(~panicked /\ Transmitted)
  /\ \A t \in Thread : WF_vars(~panicked /\ Continue(t))

----------------------------------------------------------------------------
(* Properties.                                                             *)

\* The circular buffer is a queue: input_getc() returns the bytes in the order
\* in which they came, none twice, none overwritten, whoever puts and takes.
InputInOrder ==
  Contents(buffer) = [i \in 1 .. received - read |-> read + i]

\* Bytes leave the port in the order in which serial_putc() accepted them,
\* whether by interrupt, by polling around a full queue, or by a flush.
OutputInOrder == sent \o Line \o Contents(txq) = written

\* Whatever was printed is transmitted, by interrupts if by nothing else.
OutputIsSent == []<>(sent = written \/ panicked)

\* Input does not stay in the buffer while a reader is held up for it.
InputIsRead ==
  []<>(panicked \/ intq_empty(buffer) \/ \A r \in Reader : pc[r] = "run")
====
