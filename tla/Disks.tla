-------------------------------- MODULE Disks --------------------------------
(***************************************************************************)
(* The disks: probing at boot (devices/ide.c), partitions                  *)
(* (devices/partition.c), block devices and their roles (devices/block.c,  *)
(* threads/init.c), and a sector's way through the driver: the channel's   *)
(* lock, the command, the completion interrupt (threads/interrupt.c) and   *)
(* the transfer.  The ATA controllers and the interrupt controllers (PICs) *)
(* are external.  A disk answers within the time the polling loops wait,   *)
(* and a write it took the data of does not fail.                          *)
(***************************************************************************)
EXTENDS Integers, Sequences, SequencesExt, FiniteSets

CONSTANTS
  User,        \* threads that use disks once the system is up
  Hardware,    \* {[channels -> [0 .. 1 -> "none", "ata" or "other"]]}: machines
  Capacity,    \* [Disk -> sectors]
  BigDisk,     \* sectors of a disk that is too big to touch
  Tables,      \* contents of sector 0: [signature, partitions]
  SECTORS,     \* block_sector_t is an integer modulo SECTORS
  StackDepth,  \* calls of read_partition_table() a kernel stack holds
  Data,        \* contents of the other sectors
  MaxRequests  \* bound: requests of the users

Channel == {0, 1}
Disk == Channel \X {0, 1}
vec(c) == 46 + c          \* 14 + 0x20 and 15 + 0x20, lines of the slave PIC
Main == "main"            \* the thread that boots
Thread == User \cup {Main}
Nobody == "nobody"
RoleType == {"kernel", "filesys", "scratch", "swap"}

VARIABLES
  hw,        \* which devices there are
  disk,      \* [Disk -> contents, by sector]
  ctl,       \* [Channel -> the controller: st, cmd, dev, sec, buf]
  irr, isr,  \* interrupt lines raised, and in service, at the PICs
  handlers,  \* vectors with a registered handler
  chan,      \* [Channel -> struct channel]
  is_ata,    \* [Disk -> BOOLEAN]
  all_blocks, role,
  boot,      \* what the main thread has still to do
  th,        \* [Thread -> its request]
  requests, panicked
vars == <<hw, disk, ctl, irr, isr, handlers, chan, is_ata, all_blocks, role, boot, th,
          requests, panicked>>
device == <<hw, disk>>
blocks == <<is_ata, all_blocks, role, boot>>

NoTable == [signature |-> FALSE, partitions |-> <<>>]
Blank == [table |-> NoTable, data |-> 0]   \* what a sector holds
Idle == [pc |-> "idle", op |-> "none", c |-> 0, d |-> 0, sec |-> 0, buf |-> Blank]

----------------------------------------------------------------------------
(* Block devices and partitions.                                           *)

\* disk is the disk below, start the first sector on it (0 for a raw device).
block_register(bs, name, type, start, size, dk) ==
  Append(bs, [name |-> name, type |-> type, start |-> start, size |-> size, disk |-> dk])

TypeOf(part_type) ==
  CASE part_type = 32 -> "kernel" [] part_type = 33 -> "filesys"
    [] part_type = 34 -> "scratch" [] part_type = 35 -> "swap" [] OTHER -> "foreign"

\* Mutant: an end that wraps around is not noticed.
fits_Wraps(start, size, disk_size) == (start + size) % SECTORS <= disk_size
fits(start, size, disk_size) ==
  LET end == (start + size) % SECTORS IN end >= start /\ end <= disk_size

found_partition(bs, dk, e, start, part_nr) ==
  IF start < Capacity[dk] /\ fits(start, e.size, Capacity[dk])
    THEN block_register(bs, <<dk, part_nr>>, TypeOf(e.type), start, e.size, dk) ELSE bs

is_extended(type) == type \in {5, 15, 133, 197}

\* The blocks, the number of partitions, and whether the stack has held.  Every
\* level of the recursion reads sector 0, whose contents pt are.
RECURSIVE read_partition_table(_, _, _, _, _, _)
read_partition_table(r, dk, pt, sector, primary, depth) ==
  LET entry(s, e) ==
        IF ~ s.ok \/ e.size = 0 \/ e.type = 0 THEN s
        ELSE IF is_extended(e.type)
          THEN IF sector = 0
                 THEN read_partition_table(s, dk, pt, e.offset, e.offset, depth + 1)
                 ELSE read_partition_table(s, dk, pt, (e.offset + primary) % SECTORS, primary,
                                           depth + 1)
          ELSE [s EXCEPT !.nr = @ + 1,
                  !.bs = found_partition(@, dk, e, (e.offset + sector) % SECTORS, s.nr + 1)]
  IN
  IF depth > StackDepth THEN [r EXCEPT !.ok = FALSE]
  ELSE IF sector >= Capacity[dk] \/ ~ pt.signature THEN r
  ELSE FoldLeft(entry, r, pt.partitions)

partition_scan(bs, dk, pt) ==
  read_partition_table([bs |-> bs, nr |-> 0, ok |-> TRUE], dk, pt, 0, 0, 1)

check_sector(size, sector) == sector < size
partition_sector(b, sector) == (b.start + sector) % SECTORS
block_get_role(r) == all_blocks[role[r]]

\* The first block device of the type, 0 if there is none.
locate_block_device(type) == SelectInSeq(all_blocks, LAMBDA b : b.type = type)

----------------------------------------------------------------------------
Init ==
  /\ hw \in Hardware
  /\ \E t \in [{k \in Disk : hw[k[1]][k[2]] = "ata"} -> Tables] :
       disk = [k \in Disk |-> [s \in 0 .. Capacity[k] - 1 |->
                 IF s = 0 /\ k \in DOMAIN t THEN [table |-> t[k], data |-> 0] ELSE Blank]]
  /\ ctl = [c \in Channel |-> [st |-> "idle", cmd |-> "none", dev |-> 0, sec |-> 0, buf |-> Blank]]
  /\ irr = {} /\ isr = {} /\ handlers = {}
  /\ chan = [c \in Channel |-> [lock |-> Nobody, expecting_interrupt |-> FALSE,
                                completion_wait |-> 0]]
  /\ is_ata = [k \in Disk |-> FALSE]
  /\ all_blocks = <<>> /\ role = [r \in RoleType |-> 0]
  /\ boot = <<[do |-> "channel", c |-> 0, d |-> 0], [do |-> "channel", c |-> 1, d |-> 0],
              [do |-> "locate", c |-> 0, d |-> 0]>>
  /\ th = [t \in Thread |-> Idle]
  /\ requests = 0 /\ panicked = "no"

At(t, pc) == panicked = "no" /\ th[t].pc = pc
Goto(t, pc) == th' = [th EXCEPT ![t].pc = pc]

----------------------------------------------------------------------------
(* Booting.  boot holds what is left of ide_init() and what follows it.    *)

BootAt(do) == panicked = "no" /\ th[Main].pc = "idle" /\ boot # <<>> /\ Head(boot).do = do

\* After a reset a controller is idle, with device 0 selected.
reset_channel(x) == [x EXCEPT !.st = "idle", !.dev = 0]

register_handler(v) == handlers' = handlers \cup {v}
intr_register_ext(v) == v \in 32 .. 47 /\ v \notin handlers /\ register_handler(v)

\* What select_device() lets the driver read of a device after a reset.
Registers(kind) ==
  CASE kind = "ata"   -> [error |-> 1, lbam |-> 0, lbah |-> 0, drdy |-> TRUE, bsy |-> FALSE]
    [] kind = "other" -> [error |-> 1, lbam |-> 20, lbah |-> 235, drdy |-> TRUE, bsy |-> FALSE]
    [] kind = "none"  -> [error |-> 255, lbam |-> 255, lbah |-> 255, drdy |-> TRUE, bsy |-> TRUE]

\* is_ata, and whether a slave may exist.
check_device_type(c, d) ==
  LET r == Registers(hw[c][d]) IN
  IF (r.error # 1 /\ (r.error # 129 \/ d = 1)) \/ ~ r.drdy \/ r.bsy
    THEN <<FALSE, r.error # 129>>
    ELSE <<(r.lbam = 0 /\ r.lbah = 0) \/ (r.lbam = 60 /\ r.lbah = 195), TRUE>>

\* A turn of the loop of ide_init(), up to the disks it is to identify.
ide_init ==
  LET c == Head(boot).c
      zero == check_device_type(c, 0)
      one == IF zero[2] THEN check_device_type(c, 1)[1] ELSE FALSE
      identify(d) == [do |-> "identify", c |-> c, d |-> d]
  IN
  /\ BootAt("channel")
  /\ intr_register_ext(vec(c))
  /\ ctl' = [ctl EXCEPT ![c] = reset_channel(@)]
  /\ is_ata' = [is_ata EXCEPT ![<<c, 0>>] = zero[1], ![<<c, 1>>] = one]
  /\ boot' = (IF zero[1] THEN <<identify(0)>> ELSE <<>>)
          \o (IF one THEN <<identify(1)>> ELSE <<>>) \o Tail(boot)
  /\ UNCHANGED <<device, irr, isr, chan, all_blocks, role, th, requests, panicked>>

\* identify_ata_device() does not take the channel's lock.
identify_ata_device ==
  /\ BootAt("identify")
  /\ th' = [th EXCEPT ![Main] = [Idle EXCEPT !.pc = "select", !.op = "identify",
                                 !.c = Head(boot).c, !.d = Head(boot).d]]
  /\ UNCHANGED <<device, ctl, irr, isr, handlers, chan, blocks, requests, panicked>>

\* IDENTIFY DEVICE has been answered, or not.
Identified(ok) ==
  LET k == <<th[Main].c, th[Main].d>> IN
  /\ boot' = (IF ok /\ Capacity[k] < BigDisk THEN <<[Head(boot) EXCEPT !.do = "scan"]>> ELSE <<>>)
             \o Tail(boot)
  /\ IF ok /\ Capacity[k] < BigDisk
       THEN /\ all_blocks' = block_register(all_blocks, <<k, 0>>, "raw", 0, Capacity[k], k)
            /\ UNCHANGED is_ata
       ELSE is_ata' = [is_ata EXCEPT ![k] = FALSE] /\ UNCHANGED all_blocks
  /\ UNCHANGED role

\* partition_scan() reads sector 0.
Scan ==
  /\ BootAt("scan")
  /\ th' = [th EXCEPT ![Main] = [Idle EXCEPT !.pc = "acquire", !.op = "read",
                                 !.c = Head(boot).c, !.d = Head(boot).d]]
  /\ UNCHANGED <<device, ctl, irr, isr, handlers, chan, blocks, requests, panicked>>

locate_block_devices ==
  /\ BootAt("locate")
  /\ role' = [r \in RoleType |-> IF r = "kernel" THEN 0 ELSE locate_block_device(r)]
  /\ boot' = <<>>
  /\ UNCHANGED <<device, ctl, irr, isr, handlers, chan, is_ata, all_blocks, th, requests,
                 panicked>>

----------------------------------------------------------------------------
(* Requests.                                                               *)

\* block_read() or block_write() of a sector of the block device in a role: the
\* partition's operation calls them again for the disk.
block_request(t, r, op, sec, data) ==
  LET b == block_get_role(r)
      s == partition_sector(b, sec)
  IN
  /\ At(t, "idle") /\ boot = <<>> /\ requests < MaxRequests
  /\ role[r] # 0 /\ check_sector(b.size, sec)
  /\ IF check_sector(Capacity[b.disk], s)
       THEN /\ th' = [th EXCEPT ![t] = [pc |-> "acquire", op |-> op, c |-> b.disk[1],
                        d |-> b.disk[2], sec |-> s, buf |-> [Blank EXCEPT !.data = data]]]
            /\ UNCHANGED panicked
       ELSE panicked' = "past end of device" /\ UNCHANGED th
  /\ requests' = requests + 1
  /\ UNCHANGED <<device, ctl, irr, isr, handlers, chan, blocks>>

\* Mutant: the lock is one per disk.
channel_free_PerDisk(t) ==
  LET h == chan[th[t].c].lock IN IF h = Nobody THEN TRUE ELSE th[h].d # th[t].d
channel_free(t) == chan[th[t].c].lock = Nobody

Acquire(t) ==
  /\ At(t, "acquire") /\ channel_free(t)
  /\ chan' = [chan EXCEPT ![th[t].c].lock = t]
  /\ Goto(t, "select")
  /\ UNCHANGED <<device, ctl, irr, isr, handlers, blocks, requests, panicked>>

wait_until_idle(c) == ctl[c].st = "idle"
select_device(x, d) == [x EXCEPT !.dev = d]

device_bits(x, t) == select_device(x, th[t].d)

select_sector(t) ==
  LET c == th[t].c IN
  /\ At(t, "select") /\ wait_until_idle(c)
  /\ ctl' = [ctl EXCEPT ![c] = [device_bits(@, t) EXCEPT !.sec = th[t].sec]]
  /\ Goto(t, "issue")
  /\ UNCHANGED <<device, irr, isr, handlers, chan, blocks, requests, panicked>>

issue_pio_command(t) ==
  LET c == th[t].c IN
  /\ At(t, "issue")
  /\ chan' = [chan EXCEPT ![c].expecting_interrupt = TRUE]
  /\ ctl' = [ctl EXCEPT ![c].st = "busy", ![c].cmd = th[t].op]
  /\ Goto(t, IF th[t].op = "write" THEN "output" ELSE "wait")
  /\ UNCHANGED <<device, irr, isr, handlers, blocks, requests, panicked>>

sema_down(t) ==
  LET c == th[t].c IN
  /\ At(t, "wait") /\ chan[c].completion_wait > 0
  /\ chan' = [chan EXCEPT ![c].completion_wait = @ - 1]
  /\ Goto(t, IF th[t].op = "write" THEN "done" ELSE "input")
  /\ UNCHANGED <<device, ctl, irr, isr, handlers, blocks, requests, panicked>>

wait_while_busy(c) == ctl[c].st # "busy"
drq(c) == ctl[c].st = "drq"

\* The rest of ide_read(), or of identify_ata_device(), after the sema_down().
input_sector(t) ==
  LET c == th[t].c IN
  /\ At(t, "input") /\ wait_while_busy(c)
  /\ ctl' = [ctl EXCEPT ![c].st = "idle"]
  /\ IF th[t].op = "identify"
       THEN th' = [th EXCEPT ![t] = Idle] /\ Identified(drq(c)) /\ UNCHANGED panicked
       ELSE /\ th' = [th EXCEPT ![t].pc = "done", ![t].buf = ctl[c].buf]
            /\ panicked' = IF drq(c) THEN "no" ELSE "disk read failed"
            /\ UNCHANGED blocks
  /\ UNCHANGED <<device, irr, isr, handlers, chan, requests>>

output_sector(t) ==
  LET c == th[t].c IN
  /\ At(t, "output") /\ wait_while_busy(c)
  /\ ctl' = [ctl EXCEPT ![c].buf = th[t].buf, ![c].st = "busy", ![c].cmd = "data"]
  /\ panicked' = IF drq(c) THEN "no" ELSE "disk write failed"
  /\ Goto(t, "wait")
  /\ UNCHANGED <<device, irr, isr, handlers, chan, blocks, requests>>

\* The lock_release(), and for the main thread what is done with the sector.
Done(t) ==
  LET r == partition_scan(all_blocks, <<th[t].c, th[t].d>>, th[t].buf.table) IN
  /\ At(t, "done")
  /\ chan' = [chan EXCEPT ![th[t].c].lock = Nobody]
  /\ th' = [th EXCEPT ![t] = Idle]
  /\ IF t = Main
       THEN /\ all_blocks' = r.bs /\ boot' = Tail(boot)
            /\ panicked' = IF r.ok THEN "no" ELSE "stack overflow"
       ELSE UNCHANGED <<all_blocks, boot, panicked>>
  /\ UNCHANGED <<device, ctl, irr, isr, handlers, is_ata, role, requests>>

----------------------------------------------------------------------------
(* Hardware (external), and the interrupt handlers.                        *)

\* The controller has done what it was told: read a sector, or found it cannot
\* be read; made room for the data of a sector; or written them.
Controller(c) ==
  LET x == ctl[c]
      k == <<c, x.dev>>
  IN
  /\ panicked = "no" /\ x.st = "busy"
  /\ \/ /\ x.cmd = "read" /\ irr' = irr \cup {vec(c)}
        /\ \/ ctl' = [ctl EXCEPT ![c].st = "drq", ![c].buf = disk[k][x.sec]]
           \/ ctl' = [ctl EXCEPT ![c].st = "error"]
        /\ UNCHANGED disk
     \/ /\ x.cmd = "identify" /\ irr' = irr \cup {vec(c)}
        /\ \E st \in {"drq", "error"} : ctl' = [ctl EXCEPT ![c].st = st]
        /\ UNCHANGED disk
     \/ /\ x.cmd = "write"
        /\ \/ ctl' = [ctl EXCEPT ![c].st = "drq"] /\ UNCHANGED irr
           \/ ctl' = [ctl EXCEPT ![c].st = "error"] /\ irr' = irr \cup {vec(c)}
        /\ UNCHANGED disk
     \/ /\ x.cmd = "data" /\ irr' = irr \cup {vec(c)}
        /\ ctl' = [ctl EXCEPT ![c].st = "idle"]
        /\ disk' = [disk EXCEPT ![k][x.sec] = x.buf]
  /\ UNCHANGED <<hw, isr, handlers, chan, blocks, th, requests, panicked>>

\* Mutant: the slave PIC is not told.
pic_end_of_interrupt_Master(lines, irq) == {v \in lines : v >= 40}

\* The lines in service after the end-of-interrupt signals to the master, whose
\* lines are below 0x28, and to the slave if irq is one of its lines.
pic_end_of_interrupt(lines, irq) ==
  {v \in lines : v >= 40} \ (IF irq >= 40 THEN {v \in lines : v >= 40} ELSE {})

\* ide.c's handler: it wakes the waiter if an interrupt is expected.
interrupt_handler(v) ==
  chan' = [c \in Channel |-> IF vec(c) = v /\ chan[c].expecting_interrupt
                               THEN [chan[c] EXCEPT !.completion_wait = @ + 1] ELSE chan[c]]

\* The PICs deliver a line of the slave, which is on line 0x22 of the master, if
\* none is in service.
intr_handler(v) ==
  /\ panicked = "no" /\ v \in irr /\ isr = {}
  /\ IF v \in handlers THEN interrupt_handler(v) ELSE UNCHANGED chan
  /\ irr' = irr \ {v}
  /\ isr' = pic_end_of_interrupt({v, 34}, v)
  /\ UNCHANGED <<device, ctl, handlers, blocks, th, requests, panicked>>

Serve(t) == select_sector(t) \/ issue_pio_command(t) \/ sema_down(t) \/ input_sector(t)
            \/ output_sector(t) \/ Done(t)
Boot == ide_init \/ identify_ata_device \/ Scan \/ locate_block_devices

Next ==
  \/ ide_init \/ identify_ata_device \/ Scan \/ locate_block_devices
  \/ \E t \in User, r \in RoleType, sec \in 0 .. SECTORS - 1 :
       \/ block_request(t, r, "read", sec, 0)
       \/ \E x \in Data : block_request(t, r, "write", sec, x)
  \/ \E t \in Thread :
       \/ Acquire(t) \/ select_sector(t) \/ issue_pio_command(t) \/ sema_down(t)
       \/ input_sector(t) \/ output_sector(t) \/ Done(t)
  \/ \E c \in Channel : Controller(c) \/ intr_handler(vec(c))

\* The disks and the PICs do their work, threads run, and lock_acquire() is fair.
Fairness ==
  /\ WF_vars(Boot)
  /\ \A t \in Thread : SF_vars(Acquire(t)) /\ WF_vars(Serve(t))
  /\ \A c \in Channel : WF_vars(Controller(c)) /\ WF_vars(intr_handler(vec(c)))

Spec == Init /\ [][Next]_vars /\ Fairness

----------------------------------------------------------------------------
\* While a thread ends its request the sector it asked for, of the disk it
\* asked for, holds what it wrote, or its buffer what the sector holds; and
\* a channel nobody uses has an idle controller, no interrupt on its way and
\* no completion counted that nobody waits for.  Hazards: a completion that
\* comes before the sema_down(), and two disks behind one controller.
DiskRequestsServed ==
  /\ \A t \in Thread : At(t, "done") => disk[<<th[t].c, th[t].d>>][th[t].sec] = th[t].buf
  /\ \A c \in Channel :
       (panicked = "no" /\ \A t \in Thread : th[t].pc \in {"idle", "acquire"} \/ th[t].c # c)
       => /\ ctl[c].st = "idle" /\ vec(c) \notin irr
          /\ chan[c].completion_wait = 0 /\ chan[c].lock = Nobody

\* Every request returns and the boot ends, unless the kernel panics.
\* Hazard: a line the PIC still holds in service is never delivered again.
DiskRequestsReturn ==
  /\ \A t \in User : th[t].pc # "idle" ~> (th[t].pc = "idle" \/ panicked # "no")
  /\ <>(boot = <<>> \/ panicked # "no")

\* Every partition that is registered lies inside its disk, whatever the
\* table says, so no request for a sector of a partition reaches past the
\* end of the disk.  Hazard: 32-bit sums of an offset and a size wrap.
PartitionsFit ==
  /\ panicked # "past end of device"
  /\ \A i \in DOMAIN all_blocks :
       all_blocks[i].start + all_blocks[i].size <= Capacity[all_blocks[i].disk]
=============================================================================
