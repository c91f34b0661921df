------------------------------ MODULE Console -------------------------------
(***************************************************************************)
(* The console (kernel/console.c) and the UART driver (kernel/uart.c) with *)
(* the 16550 behind it.                                                    *)
(*                                                                         *)
(* cons.lock and uart_tx_lock are held by a reader, by a writer or by the  *)
(* interrupt handler, which runs on one CPU at a time.  uartputc_sync()    *)
(* takes no lock: between its look at the line status and its write to the *)
(* holding register a writer on another CPU may do both.                   *)
(***************************************************************************)
EXTENDS Integers, Sequences, SequencesExt

CONSTANTS ConsReaders, ConsWriters,  \* processes in consoleread() and consolewrite()
          Keys,              \* characters typed
          INPUT_BUF_SIZE, UART_TX_BUF_SIZE,
          UINT,              \* cons.r, cons.w and cons.e count modulo this (2^32)
          FIFO,              \* depth of the transmitter's FIFO (16)
          RXFIFO,            \* depth of the receiver's
          MAXREAD,           \* bound on the length of a read
          MAXCALLS           \* bound on keys typed, reads, characters written and kills

ASSUME ConsoleAssumption ==
  /\ INPUT_BUF_SIZE \in Nat \ {0} /\ UART_TX_BUF_SIZE \in Nat \ {0}
  /\ UINT \in Nat /\ UINT > INPUT_BUF_SIZE /\ UINT % INPUT_BUF_SIZE = 0
  /\ {"nl", "eof", "kill", "bs"} \subseteq Keys

VARIABLES
  cons,      \* buf, r, w, e
  conslock,  \* holder of cons.lock, or "free"
  tx,        \* uart_tx_buf, uart_tx_r, uart_tx_w
  txlock,    \* holder of uart_tx_lock, or "free"
  start,     \* how far that holder is in uartstart()
  fifo,      \* the transmitter's FIFO
  irq,       \* the transmitter's interrupt
  rx,        \* the receiver's FIFO
  wire,      \* characters of write() that left the transmitter
  intr,      \* the interrupt handler: where it is and the key it looks at
  rpc, want, got,  \* per reader: where it is, n and target - n
  wpc, left,  \* per writer: where it is, characters still to write
  killed,    \* readers that were killed
  calls,
  written    \* how many write() put in uart_tx_buf: its n-th is the number n

consVars  == <<cons, conslock>>
uartVars  == <<tx, txlock, start, written>>
lineVars  == <<fifo, irq, wire>>
readVars  == <<rpc, want, got, killed>>
writeVars == <<wpc, left>>
consoleVars == <<consVars, uartVars, lineVars, rx, intr, readVars, writeVars, calls>>

(* consoleinit() and uartinit(); or later, when the counters are about to  *)
(* wrap and a line that all but fills the buffer has been typed.           *)
ConsoleInit ==
  /\ \/ cons = [buf |-> [k \in 0 .. INPUT_BUF_SIZE - 1 |-> "none"], r |-> 0, w |-> 0, e |-> 0]
     \/ cons = [buf |-> [k \in 0 .. INPUT_BUF_SIZE - 1 |-> "a"], r |-> UINT - 1, w |-> UINT - 1,
                e |-> INPUT_BUF_SIZE - 2]
  /\ conslock = "free" /\ txlock = "free"
  /\ tx = [buf |-> [k \in 0 .. UART_TX_BUF_SIZE - 1 |-> 0], r |-> 0, w |-> 0]
  /\ start = "off" /\ fifo = <<>> /\ rx = <<>> /\ wire = <<>>
  /\ irq = TRUE /\ intr = [at |-> "off", key |-> "none"]
  /\ rpc = [p \in ConsReaders |-> "idle"]
  /\ want = [p \in ConsReaders |-> 0] /\ got = [p \in ConsReaders |-> 0]
  /\ killed = {}
  /\ wpc = [p \in ConsWriters |-> "idle"] /\ left = [p \in ConsWriters |-> 0]
  /\ calls = 0 /\ written = 0

Used(from, to) == (to - from) % UINT
Place(i) == i % INPUT_BUF_SIZE
rgoto(p, l) == rpc' = [rpc EXCEPT ![p] = l]
wgoto(p, l) == wpc' = [wpc EXCEPT ![p] = l]
-----------------------------------------------------------------------------
(* consoleread()                                                           *)
readCall(p, n) ==
  /\ rpc[p] = "idle" /\ calls < MAXCALLS
  /\ want' = [want EXCEPT ![p] = n]
  /\ got' = [got EXCEPT ![p] = 0]
  /\ calls' = calls + 1
  /\ rgoto(p, "acquire")
  /\ UNCHANGED <<consVars, uartVars, lineVars, rx, intr, killed, writeVars>>

(* The lock is taken at the start and again when sleep() returns. *)
readAcquire(p) ==
  /\ rpc[p] = "acquire" /\ conslock = "free"
  /\ conslock' = p
  /\ rgoto(p, "loop")
  /\ UNCHANGED <<cons, uartVars, lineVars, rx, intr, want, got, killed, writeVars, calls>>

(* No input: the reader sleeps, or returns -1 when it was killed. *)
readWait(p) ==
  /\ rpc[p] = "loop" /\ want[p] > 0 /\ cons.r = cons.w
  /\ conslock' = "free"
  /\ rgoto(p, IF p \in killed THEN "idle" ELSE "sleep")
  /\ UNCHANGED <<cons, uartVars, lineVars, rx, intr, want, got, killed, writeVars, calls>>

EofStays(p) == got[p] > 0

(* One turn of the loop.  ^D ends the read, and stays for the next one     *)
(* when this one has something to return; so does a bad destination, after *)
(* the character is taken, and the end of the line.                        *)
readChar(p, copied) ==
  /\ rpc[p] = "loop" /\ want[p] > 0 /\ cons.r # cons.w
  /\ LET c == cons.buf[Place(cons.r)]
         end == c \in {"eof", "nl"} \/ ~copied \/ want[p] = 1 IN
       /\ cons' = IF c = "eof" /\ EofStays(p) THEN cons
                  ELSE [cons EXCEPT !.r = (@ + 1) % UINT]
       /\ IF c = "eof" \/ ~copied THEN UNCHANGED <<want, got>>
          ELSE /\ want' = [want EXCEPT ![p] = @ - 1]
               /\ got' = [got EXCEPT ![p] = @ + 1]
       /\ IF end THEN conslock' = "free" /\ rgoto(p, "idle")
          ELSE UNCHANGED <<conslock, rpc>>
  /\ UNCHANGED <<uartVars, lineVars, rx, intr, killed, writeVars, calls>>

(* kill() of a reader wakes it when it sleeps. *)
killReader(p) ==
  /\ rpc[p] # "idle" /\ p \notin killed /\ calls < MAXCALLS
  /\ calls' = calls + 1
  /\ killed' = killed \cup {p}
  /\ rgoto(p, IF rpc[p] = "sleep" THEN "acquire" ELSE rpc[p])
  /\ UNCHANGED <<consVars, uartVars, lineVars, rx, intr, want, got, writeVars>>
-----------------------------------------------------------------------------
(* consolewrite() and uartputc().  A bad source ends a write early, as a   *)
(* shorter write does.                                                     *)
writeCall(p, n) ==
  /\ wpc[p] = "idle" /\ calls + n <= MAXCALLS
  /\ calls' = calls + n
  /\ left' = [left EXCEPT ![p] = n]
  /\ wgoto(p, "put")
  /\ UNCHANGED <<consVars, uartVars, lineVars, rx, intr, readVars>>

TxFull == tx.w = tx.r + UART_TX_BUF_SIZE

uartputc(p) ==
  /\ wpc[p] = "put" /\ txlock = "free"
  /\ \/ /\ TxFull
        /\ wgoto(p, "sleep")
        /\ UNCHANGED <<uartVars, left>>
     \/ /\ ~TxFull
        /\ tx' = [tx EXCEPT !.buf[tx.w % UART_TX_BUF_SIZE] = written + 1, !.w = @ + 1]
        /\ written' = written + 1
        /\ txlock' = p /\ start' = "poll"
        /\ left' = [left EXCEPT ![p] = @ - 1]
        /\ wgoto(p, "start")
  /\ UNCHANGED <<consVars, lineVars, rx, intr, readVars, calls>>

(* uartstart() returns, and its caller releases uart_tx_lock. *)
putReturn ==
  /\ start' = "off" /\ txlock' = "free"
  /\ IF txlock = "intr" THEN intr' = [intr EXCEPT !.at = "off"] /\ UNCHANGED wpc
     ELSE wgoto(txlock, IF left[txlock] > 0 THEN "put" ELSE "idle") /\ UNCHANGED intr

(* Nothing to send: reading ISR takes the interrupt back.  Busy: it will   *)
(* interrupt.                                                              *)
uartstart_poll ==
  /\ start = "poll"
  /\ \/ tx.w = tx.r /\ irq' = FALSE /\ putReturn
     \/ tx.w # tx.r /\ fifo # <<>> /\ putReturn /\ UNCHANGED irq
     \/ tx.w # tx.r /\ fifo = <<>> /\ start' = "send" /\ UNCHANGED <<irq, intr, txlock, wpc>>
  /\ UNCHANGED <<consVars, tx, written, fifo, wire, rx, readVars, left, calls>>

(* Variant of TxDepth: FCR_FIFO_ENABLE is not set. *)
TxDepth_One == 1

TxDepth == FIFO

(* The FIFO after a write to the holding register: 0 stands for an echo. *)
Queued(c) == IF Len(fifo) < TxDepth THEN Append(fifo, c) ELSE fifo

(* Writing the holding register takes the interrupt back, too. *)
uartstart_send ==
  /\ start = "send"
  /\ fifo' = Queued(tx.buf[tx.r % UART_TX_BUF_SIZE])
  /\ irq' = FALSE
  /\ tx' = [tx EXCEPT !.r = @ + 1]
  /\ wpc' = [p \in ConsWriters |-> IF wpc[p] = "sleep" THEN "put" ELSE wpc[p]]
  /\ start' = "poll"
  /\ UNCHANGED <<consVars, txlock, written, wire, rx, intr, readVars, left, calls>>
-----------------------------------------------------------------------------
(* uartintr() and consoleintr()                                            *)
uartintr ==
  /\ intr.at = "off" /\ (irq \/ rx # <<>>)
  /\ intr' = [intr EXCEPT !.at = "rx"]
  /\ UNCHANGED <<consVars, uartVars, lineVars, rx, readVars, writeVars, calls>>

uartgetc ==
  /\ intr.at = "rx"
  /\ IF rx = <<>> THEN intr' = [intr EXCEPT !.at = "tx"] /\ UNCHANGED rx
     ELSE intr' = [at |-> "cons", key |-> rx[1]] /\ rx' = Tail(rx)
  /\ UNCHANGED <<consVars, uartVars, lineVars, readVars, writeVars, calls>>

CanErase == cons.e # cons.w
LastIs(c) == cons.buf[Place(cons.e - 1)] = c
HasRoom == Used(cons.r, cons.e) < INPUT_BUF_SIZE

(* Whether the key does anything; each effect begins with an echo.  "ctl"  *)
(* is NUL, or ^P, which lists the processes.                               *)
Acts(c) ==
  CASE c = "ctl" -> FALSE
    [] c = "kill" -> CanErase /\ ~LastIs("nl")
    [] c = "bs" -> CanErase
    [] OTHER -> HasRoom

consoleintr ==
  /\ intr.at = "cons" /\ conslock = "free"
  /\ IF Acts(intr.key) THEN conslock' = "intr" /\ intr' = [intr EXCEPT !.at = "echo"]
     ELSE intr' = [intr EXCEPT !.at = "rx"] /\ UNCHANGED conslock
  /\ UNCHANGED <<cons, uartVars, lineVars, rx, readVars, writeVars, calls>>

(* uartputc_sync() waits for the transmitter, without uart_tx_lock. *)
echo ==
  /\ intr.at = "echo" /\ fifo = <<>>
  /\ intr' = [intr EXCEPT !.at = "storeChar"]
  /\ UNCHANGED <<consVars, uartVars, lineVars, rx, readVars, writeVars, calls>>

(* Variant of LineArrived that does not look for a full buffer. *)
LineArrived_NotFull(c) == c \in {"nl", "eof"}

LineArrived(c) == c \in {"nl", "eof"} \/ Used(cons.r, cons.e) + 1 = INPUT_BUF_SIZE

Entered(c) ==
  LET end == (cons.e + 1) % UINT IN
    [cons EXCEPT !.buf[Place(cons.e)] = c, !.e = end,
                 !.w = IF LineArrived(c) THEN end ELSE @]

(* Variant of ReadWaiters that wakes one reader. *)
ReadWaiters_One ==
  LET asleep == {p \in ConsReaders : rpc[p] = "sleep"} IN
    IF asleep = {} THEN {} ELSE {CHOOSE p \in asleep : TRUE}

ReadWaiters == {p \in ConsReaders : rpc[p] = "sleep"}

(* The echo goes out, and the key takes effect; ^U comes back for each     *)
(* character of the line.                                                  *)
storeChar ==
  /\ intr.at = "storeChar"
  /\ fifo' = Queued(0) /\ irq' = FALSE
  /\ cons' = IF intr.key \in {"kill", "bs"} THEN [cons EXCEPT !.e = (@ - 1) % UINT]
             ELSE Entered(intr.key)
  /\ IF intr.key = "kill" /\ cons'.e # cons.w /\ cons.buf[Place(cons'.e - 1)] # "nl"
     THEN intr' = [intr EXCEPT !.at = "echo"] /\ UNCHANGED conslock
     ELSE intr' = [intr EXCEPT !.at = "rx"] /\ conslock' = "free"
  /\ rpc' = [p \in ConsReaders |-> IF p \in ReadWaiters /\ cons'.w # cons.w THEN "acquire" ELSE rpc[p]]
  /\ UNCHANGED <<uartVars, wire, rx, want, got, killed, writeVars, calls>>

(* The keys are done: send what is buffered. *)
uartintr_tx ==
  /\ intr.at = "tx" /\ txlock = "free"
  /\ txlock' = "intr" /\ start' = "poll"
  /\ intr' = [intr EXCEPT !.at = "start"]
  /\ UNCHANGED <<consVars, tx, written, lineVars, rx, readVars, writeVars, calls>>
-----------------------------------------------------------------------------
(* The 16550, as uart.c sets it up and relies on it.                       *)
typeKey(c) ==
  /\ Len(rx) < RXFIFO /\ calls < MAXCALLS
  /\ rx' = Append(rx, c) /\ calls' = calls + 1
  /\ UNCHANGED <<consVars, uartVars, lineVars, intr, readVars, writeVars>>

TxInterrupts == TRUE

(* One character leaves; the interrupt comes when the FIFO gets empty. *)
transmit ==
  /\ fifo # <<>>
  /\ wire' = IF fifo[1] = 0 THEN wire ELSE Append(wire, fifo[1])
  /\ fifo' = Tail(fifo)
  /\ irq' = (irq \/ (TxInterrupts /\ Len(fifo) = 1))
  /\ UNCHANGED <<consVars, uartVars, rx, intr, readVars, writeVars, calls>>

Reader(p) ==
  \/ \E n \in 1 .. MAXREAD : readCall(p, n)
  \/ readAcquire(p) \/ readWait(p) \/ killReader(p)
  \/ \E copied \in BOOLEAN : readChar(p, copied)

Writer(p) == uartputc(p) \/ \E n \in 1 .. UART_TX_BUF_SIZE + 1 : writeCall(p, n)

Handler == uartintr \/ uartgetc \/ consoleintr \/ echo \/ storeChar \/ uartintr_tx

ConsoleNext ==
  \/ \E p \in ConsReaders : Reader(p)
  \/ \E p \in ConsWriters : Writer(p)
  \/ uartstart_poll \/ uartstart_send \/ Handler
  \/ (\E c \in Keys : typeKey(c)) \/ transmit

ConsoleSpec == ConsoleInit /\ [][ConsoleNext]_consoleVars
-----------------------------------------------------------------------------
(* The characters of the ring from index i to index j. *)
Ring(i, j) == [k \in 1 .. Used(i, j) |-> cons.buf[Place(i + k - 1)]]

(* What the console promises: a queue of whole lines behind a line that    *)
(* can still be edited (module LineEditor).                                *)
Lines == INSTANCE LineEditor WITH Readers <- ConsReaders,
           SIZE <- INPUT_BUF_SIZE, lines <- Ring(cons.r, cons.w), edit <- Ring(cons.w, cons.e)

(* With counters that wrap and readers that interleave, consoleread() and  *)
(* consoleintr() keep to the line discipline: only an unfinished line is   *)
(* edited, a line becomes readable as a whole and no character is read     *)
(* twice, skipped or out of order; ^D is consumed by a read that returns   *)
(* nothing else.                                                           *)
IsLineEditor == Lines!Spec

(* No reader sleeps while there is input and no writer while there is room *)
(* in uart_tx_buf, in spite of readers woken together and of a handler     *)
(* that runs between a test and the sleep.                                 *)
ConsoleSleepers ==
  /\ \A p \in ConsReaders : rpc[p] = "sleep" => cons.r = cons.w
  /\ \A p \in ConsWriters : wpc[p] = "sleep" => TxFull

(* The characters of write() come out once each and in the order in which  *)
(* uartputc() took them, although echoes go past the transmit buffer and   *)
(* its lock.                                                               *)
OutputInOrder ==
  LET waiting == [k \in 1 .. tx.w - tx.r |-> tx.buf[(tx.r + k - 1) % UART_TX_BUF_SIZE]]
  IN  wire \o SelectSeq(fifo, LAMBDA c : c # 0) \o waiting = [n \in 1 .. written |-> n]
=============================================================================
