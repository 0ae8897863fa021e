------------------------------- MODULE Console -------------------------------
(***************************************************************************)
(* The console of xv6: line editing (kernel/console.c), the uart driver    *)
(* below it (kernel/uart.c) and the interrupt that drives both             *)
(* (devintr in kernel/trap.c, the PLIC of kernel/plic.c).                  *)
(*                                                                         *)
(* held is cons.lock, which the handler keeps while it echoes a key, and   *)
(* txlock is uart_tx_lock.  The echo does not take uart_tx_lock, so its    *)
(* test of the line status register and its write of THR are steps of their*)
(* own, as are those of uartstart.  The three bytes that erase a character *)
(* on the screen are one; ^P, which only prints, and the kernel's other    *)
(* uses of printf are left out.                                            *)
(***************************************************************************)
EXTENDS Integers, FiniteSetsExt, SequencesExt

CONSTANTS
  Readers,
  Writers,
  Say,               \* what each writer writes
  Letters,           \* the ordinary characters that are typed
  Sizes,             \* what readers ask for
  INPUT_BUF_SIZE,
  UINT,              \* number of values of an unsigned integer
  UART_TX_BUF_SIZE,
  RxMax, TxMax,      \* what the uart can hold of what it receives and is to send
  MaxBytes           \* bound: bytes typed and written

ASSUME ConsoleAssumption ==
  /\ INPUT_BUF_SIZE \in Nat \ {0} /\ UART_TX_BUF_SIZE \in Nat \ {0}
  /\ UINT \in Nat /\ UINT > INPUT_BUF_SIZE /\ UINT % INPUT_BUF_SIZE = 0
  /\ Sizes \subseteq Nat /\ MaxBytes \in Nat

None == "none"
Handler == "handler"
Keys == Letters \cup {"\n", "^D", "^U", "^H"}

VARIABLES
  cons,    \* buf and the indices r, w and e
  held,    \* who holds cons.lock
  rpc,     \* where a reader is in consoleread
  left,    \* n and target - n of its call
  got,
  killed,
  tx,      \* uart_tx_buf, uart_tx_w and uart_tx_r
  said,    \* what a writer has put into it
  wpc,     \* writing, asleep on &uart_tx_r, or done
  txlock,  \* who holds uart_tx_lock
  sending, \* c of uartstart: a byte taken from tx that is not in the uart yet
  thr,     \* the bytes the uart is to send: who wrote each, and what
  rx,      \* the bytes it has received
  raised,  \* the PLIC has an interrupt of the uart pending
  ipc,     \* where the handler is
  echo,    \* what it still has to echo
  keys,    \* keys typed so far
  screen,  \* history: the echoed characters that are on the screen
  out,     \* history: the bytes of each writer that went out
  taken    \* history: the characters taken out of the buffer

input == <<cons, held, rpc, left, got, killed, taken>>
output == <<tx, said, wpc, txlock, sending>>
uart == <<thr, rx, raised, keys, screen, out>>
vars == <<input, output, uart, ipc, echo>>

Init ==
  /\ cons = [buf |-> [i \in 0 .. INPUT_BUF_SIZE - 1 |-> None], r |-> 0, w |-> 0, e |-> 0]
  /\ held = None
  /\ rpc = [p \in Readers |-> "idle"] /\ left = [p \in Readers |-> 0]
  /\ got = [p \in Readers |-> 0] /\ killed = [p \in Readers |-> FALSE]
  /\ tx = [buf |-> [i \in 0 .. UART_TX_BUF_SIZE - 1 |-> <<>>], w |-> 0, r |-> 0]
  /\ said = [w \in Writers |-> 0]
  /\ \E some \in SUBSET Writers :
       wpc = [w \in Writers |-> IF w \in some THEN "writing" ELSE "done"]
  /\ txlock = None /\ sending = <<>>
  /\ thr = <<>> /\ rx = <<>> /\ raised = FALSE /\ ipc = "none" /\ echo = <<>> /\ keys = 0
  /\ screen = <<>> /\ out = [w \in Writers |-> <<>>] /\ taken = <<>>

Minus(a, b) == (a - b) % UINT
Char(i) == cons.buf[i % INPUT_BUF_SIZE]
More == keys + FoldFunction(+, 0, said) < MaxBytes
Between(i, j) == [k \in 1 .. Minus(j, i) |-> Char((i + k - 1) % UINT)]

------------------------------------------------------------------------------
(* consoleread *)

ReadStart(p) ==
  /\ rpc[p] = "idle" /\ held = None /\ ~killed[p]
  /\ held' = p /\ rpc' = [rpc EXCEPT ![p] = "reading"]
  /\ \E n \in Sizes : left' = [left EXCEPT ![p] = n]
  /\ got' = [got EXCEPT ![p] = 0]
  /\ UNCHANGED <<cons, killed, taken, output, uart, ipc, echo>>

Return(p) == rpc' = [rpc EXCEPT ![p] = "idle"] /\ held' = None

\* Nothing to read: a killed process gives up, another sleeps on &cons.r.
ReadWait(p) ==
  /\ rpc[p] = "reading" /\ left[p] > 0 /\ cons.r = cons.w
  /\ IF killed[p] THEN Return(p)
     ELSE rpc' = [rpc EXCEPT ![p] = "asleep"] /\ held' = None
  /\ UNCHANGED <<cons, left, got, killed, taken, output, uart, ipc, echo>>

\* sleep takes the lock again when the process is awake.
ReadAgain(p) ==
  /\ rpc[p] = "woken" /\ held = None
  /\ held' = p /\ rpc' = [rpc EXCEPT ![p] = "reading"]
  /\ UNCHANGED <<cons, left, got, killed, taken, output, uart, ipc, echo>>

\* One character; the end of the line or of the file ends the call, a ^D that is not
\* the first character is left for the next call, and a bad address loses one.
ReadChar(p) ==
  /\ rpc[p] = "reading" /\ left[p] > 0 /\ cons.r # cons.w
  /\ LET c == Char(cons.r)
         kept == c = "^D" /\ got[p] > 0
     IN
     /\ IF kept THEN UNCHANGED <<cons, taken>>
        ELSE cons' = [cons EXCEPT !.r = (@ + 1) % UINT] /\ taken' = Append(taken, c)
     /\ IF c = "^D" THEN Return(p) /\ UNCHANGED <<left, got>>
        ELSE \E copied \in BOOLEAN :
               /\ left' = [left EXCEPT ![p] = IF copied THEN @ - 1 ELSE @]
               /\ got' = [got EXCEPT ![p] = IF copied THEN @ + 1 ELSE @]
               /\ IF c = "\n" \/ ~copied THEN Return(p) ELSE UNCHANGED <<rpc, held>>
  /\ UNCHANGED <<killed, output, uart, ipc, echo>>

ReadEnd(p) ==
  /\ rpc[p] = "reading" /\ left[p] = 0
  /\ Return(p)
  /\ UNCHANGED <<cons, left, got, killed, taken, output, uart, ipc, echo>>

\* kill wakes a process that sleeps.
Kill(p) ==
  /\ ~killed[p]
  /\ killed' = [killed EXCEPT ![p] = TRUE]
  /\ rpc' = [rpc EXCEPT ![p] = IF @ = "asleep" THEN "woken" ELSE @]
  /\ UNCHANGED <<cons, held, left, got, taken, output, uart, ipc, echo>>

------------------------------------------------------------------------------
(* uartstart, consolewrite and uartputc *)

\* LSR_TX_IDLE: the uart has nothing left to send.
TxIdle == thr = <<>>

\* A byte written to THR while the uart is full is lost.
WriteTHR(b) == thr' = IF Len(thr) < TxMax THEN Append(thr, b) ELSE thr

\* Mutant: one byte too many fits.
TxFull_Late == tx.w = tx.r + UART_TX_BUF_SIZE + 1

TxFull == tx.w = tx.r + UART_TX_BUF_SIZE

\* uartputc, also when it is back from its sleep: it sleeps while there is no room, and
\* goes on into uartstart with the lock.
Uartputc(w) ==
  /\ wpc[w] = "writing" /\ said[w] < Len(Say[w]) /\ More /\ txlock = None
  /\ IF TxFull THEN wpc' = [wpc EXCEPT ![w] = "asleep"] /\ UNCHANGED <<tx, said, txlock>>
     ELSE /\ said' = [said EXCEPT ![w] = @ + 1]
          /\ tx' = [tx EXCEPT !.buf[tx.w % UART_TX_BUF_SIZE] = <<w, Say[w][said'[w]]>>,
                              !.w = @ + 1]
          /\ txlock' = w /\ UNCHANGED wpc
  /\ UNCHANGED <<input, sending, uart, ipc, echo>>

\* Mutant: who waits for room is not woken.
Uartstart_NoWakeup ==
  /\ txlock # None /\ sending = <<>>
  /\ IF tx.w = tx.r \/ ~TxIdle
     THEN /\ txlock' = None /\ UNCHANGED <<tx, sending>>
          /\ ipc' = IF txlock = Handler THEN "none" ELSE ipc
     ELSE /\ sending' = tx.buf[tx.r % UART_TX_BUF_SIZE]
          /\ tx' = [tx EXCEPT !.r = @ + 1]
          /\ UNCHANGED <<txlock, ipc>>
  /\ UNCHANGED <<input, said, wpc, uart, echo>>

\* The next byte, if the uart is idle, and who waits for room is woken; without either
\* the lock is released, and the handler is done (plic_complete).
Uartstart ==
  /\ txlock # None /\ sending = <<>>
  /\ IF tx.w = tx.r \/ ~TxIdle
     THEN /\ txlock' = None /\ UNCHANGED <<tx, wpc, sending>>
          /\ ipc' = IF txlock = Handler THEN "none" ELSE ipc
     ELSE /\ sending' = tx.buf[tx.r % UART_TX_BUF_SIZE]
          /\ tx' = [tx EXCEPT !.r = @ + 1]
          /\ wpc' = [w \in Writers |-> IF wpc[w] = "asleep" THEN "writing" ELSE wpc[w]]
          /\ UNCHANGED <<txlock, ipc>>
  /\ UNCHANGED <<input, said, uart, echo>>

UartstartWrite ==
  /\ sending # <<>>
  /\ WriteTHR(sending) /\ sending' = <<>>
  /\ UNCHANGED <<input, tx, said, wpc, txlock, rx, raised, keys, screen, out, ipc, echo>>

\* Everything is written, or a bad address ends the write.
WriteEnd(w) ==
  /\ wpc[w] = "writing" /\ txlock # w
  /\ wpc' = [wpc EXCEPT ![w] = "done"]
  /\ UNCHANGED <<input, tx, said, txlock, sending, uart, ipc, echo>>

------------------------------------------------------------------------------
(* the uart and the keyboard *)

\* What an echo does to the screen.
Shown(s, c) == IF c = "erase" THEN Front(s) ELSE Append(s, c)

\* The uart sends a byte, and interrupts when it was the last.
Transmit ==
  /\ thr # <<>>
  /\ LET by == Head(thr)[1]
         c == Head(thr)[2]
     IN IF by = Handler THEN screen' = Shown(screen, c) /\ UNCHANGED out
        ELSE out' = [out EXCEPT ![by] = Append(@, c)] /\ UNCHANGED screen
  /\ thr' = Tail(thr) /\ raised' = (raised \/ thr' = <<>>)
  /\ UNCHANGED <<input, output, rx, keys, ipc, echo>>

Type ==
  /\ More /\ Len(rx) < RxMax
  /\ \E c \in Keys : rx' = Append(rx, c)
  /\ keys' = keys + 1 /\ raised' = TRUE
  /\ UNCHANGED <<input, output, thr, screen, out, ipc, echo>>

------------------------------------------------------------------------------
(* devintr, uartintr and consoleintr *)

\* plic_claim: no other hart gets the interrupt until plic_complete.
Claim ==
  /\ raised /\ ipc = "none"
  /\ raised' = FALSE /\ ipc' = "rx"
  /\ UNCHANGED <<input, output, thr, rx, keys, screen, out, echo>>

\* How many characters ^U erases.
Kills ==
  LET n == Minus(cons.e, cons.w)
  IN Min({ j \in 0 .. n : j = n \/ Char(Minus(cons.e, j + 1)) = "\n" })

\* Mutant: one character too many fits.
Room_Late == Minus(cons.e, cons.r) <= INPUT_BUF_SIZE

Room == Minus(cons.e, cons.r) < INPUT_BUF_SIZE

Erase(n) ==
  /\ cons' = [cons EXCEPT !.e = Minus(@, n)]
  /\ echo' = [i \in 1 .. n |-> "erase"]
  /\ UNCHANGED rpc

\* Mutant: a line that fills the buffer is not given to the readers.
Whole_Line(c, e) == c \in {"\n", "^D"}

\* A line, an end of file or a full buffer is given to the readers.
Whole(c, e) == c \in {"\n", "^D"} \/ Minus(e, cons.r) = INPUT_BUF_SIZE

Store(c) ==
  LET e == (cons.e + 1) % UINT IN
  /\ echo' = <<c>>
  /\ cons' = [cons EXCEPT !.buf[cons.e % INPUT_BUF_SIZE] = c, !.e = e,
                          !.w = IF Whole(c, e) THEN e ELSE @]
  /\ rpc' = [p \in Readers |-> IF rpc[p] = "asleep" /\ Whole(c, e) THEN "woken" ELSE rpc[p]]

Consoleintr(c) ==
  CASE c = "^U" -> Erase(Kills)
    [] c = "^H" -> Erase(IF cons.e # cons.w THEN 1 ELSE 0)
    [] OTHER -> IF Room THEN Store(c) ELSE echo' = <<>> /\ UNCHANGED <<cons, rpc>>

\* uartgetc and the section of consoleintr, up to the echo.
UartRx ==
  /\ ipc = "rx" /\ rx # <<>> /\ held = None
  /\ Consoleintr(Head(rx))
  /\ rx' = Tail(rx) /\ held' = Handler /\ ipc' = "echo"
  /\ UNCHANGED <<left, got, killed, taken, output, thr, raised, keys, screen, out>>

\* Mutant: the echo does not wait until the uart is idle.
EchoWait_Blind ==
  /\ ipc = "echo"
  /\ IF echo = <<>> THEN held' = None /\ ipc' = "rx"
     ELSE ipc' = "put" /\ UNCHANGED held
  /\ UNCHANGED <<cons, rpc, left, got, killed, taken, output, uart, echo>>

\* uartputc_sync spins until the uart is idle.
EchoWait ==
  /\ ipc = "echo"
  /\ IF echo = <<>> THEN held' = None /\ ipc' = "rx"
     ELSE TxIdle /\ ipc' = "put" /\ UNCHANGED held
  /\ UNCHANGED <<cons, rpc, left, got, killed, taken, output, uart, echo>>

\* Then it writes, whatever uartstart has written in between on another hart.
EchoPut ==
  /\ ipc = "put"
  /\ WriteTHR(<<Handler, Head(echo)>>) /\ echo' = Tail(echo) /\ ipc' = "echo"
  /\ UNCHANGED <<input, output, rx, raised, keys, screen, out>>

\* No byte is left: uartintr takes uart_tx_lock and what is buffered is sent.
UartTx ==
  /\ ipc = "rx" /\ rx = <<>> /\ txlock = None
  /\ txlock' = Handler /\ ipc' = "tx"
  /\ UNCHANGED <<input, tx, said, wpc, sending, uart, echo>>

------------------------------------------------------------------------------

Reading(p) == ReadWait(p) \/ ReadAgain(p) \/ ReadChar(p) \/ ReadEnd(p)
Interrupt == Claim \/ UartRx \/ EchoWait \/ EchoPut \/ UartTx
Starting == Uartstart \/ UartstartWrite

Next ==
  \/ \E p \in Readers : ReadStart(p) \/ Reading(p) \/ Kill(p)
  \/ \E w \in Writers : Uartputc(w) \/ WriteEnd(w)
  \/ Starting \/ Transmit \/ Type \/ Interrupt

Spec == Init /\ [][Next]_vars

\* The uart sends, interrupts are served, and processes in a call go on.
Fairness ==
  /\ WF_vars(Transmit) /\ WF_vars(Interrupt) /\ WF_vars(Starting)
  /\ \A p \in Readers : WF_vars(Reading(p))
  /\ \A w \in Writers : WF_vars(Uartputc(w) \/ WriteEnd(w))

------------------------------------------------------------------------------
(* Properties *)

ready == Between(cons.r, cons.w)
line == Between(cons.w, cons.e)

\* What one of those who write to the uart has among some bytes.
By(x, bytes) ==
  LET his == SelectSeq(bytes, LAMBDA b : b # <<>> /\ b[1] = x)
  IN [i \in DOMAIN his |-> his[i][2]]

\* What is on the screen, once what is being echoed gets there, is what readers got
\* and will get and the line under edit: no character is lost, overwritten or given
\* twice when the buffer is full, its indices wrap or a line is erased (consoleread,
\* consoleintr).
TextExact ==
  FoldLeft(Shown, screen, By(Handler, thr) \o echo) = taken \o ready \o line

\* The bytes of a writer go out in order and none is lost, whatever other writers and
\* echoes come between a test of the uart's status and the write that follows it
\* (uartputc, uartstart, uartputc_sync).
OutputExact ==
  LET buffered == [i \in 1 .. tx.w - tx.r |-> tx.buf[(tx.r + i - 1) % UART_TX_BUF_SIZE]]
      onTheWay == thr \o (IF sending = <<>> THEN <<>> ELSE <<sending>>) \o buffered
  IN \A w \in Writers : out[w] \o By(w, onTheWay) = SubSeq(Say[w], 1, said[w])

\* There is something to read.
Something == ready # <<>> \/ ~Room

\* A reader does not sleep on when there is something to read, a writer does not
\* sleep on for ever, and what is written goes out (uartstart, uartintr, wakeup).
ConsoleMoves ==
  /\ \A p \in Readers : (rpc[p] = "asleep" /\ Something) ~> (rpc[p] = "idle" \/ ~Something)
  /\ \A w \in Writers : <>(wpc[w] = "done")
  /\ <>[](tx.w = tx.r /\ sending = <<>> /\ thr = <<>>)

==============================================================================
