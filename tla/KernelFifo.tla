----------------------------- MODULE KernelFifo -----------------------------
(***************************************************************************)
(* Kernel_Queue_using_Kernel_API/queue.c: at load, records of 1 to 10      *)
(* bytes go into a kfifo asked to hold 80 bytes and come out again.  The   *)
(* kernel stores a byte of length with each record, drops a record that    *)
(* does not fit, and keeps a power of two: 64 bytes where it rounds down,  *)
(* 128 where it rounds up.                                                 *)
(***************************************************************************)
EXTENDS Naturals, Sequences

VARIABLES
  fifoStep,    \* where example_init is
  fifoSize,    \* the bytes the fifo holds, 0 before it is allocated
  fifoCount,   \* i of testfunc
  fifo,        \* the lengths of the records in it
  fifoUsed,    \* the bytes in use
  fifoOut      \* the records taken out, in order

fifoVars == <<fifoStep, fifoSize, fifoCount, fifo, fifoUsed, fifoOut>>

FifoInit ==
  /\ fifoStep = "alloc" /\ fifoSize = 0 /\ fifoCount = 0
  /\ fifo = <<>> /\ fifoUsed = 0 /\ fifoOut = <<>>

kfifo_alloc ==
  /\ fifoStep = "alloc"
  /\ \/ fifoStep' = "put" /\ fifoSize' \in {64, 128}
     \/ fifoStep' = "failed" /\ UNCHANGED fifoSize
  /\ UNCHANGED <<fifoCount, fifo, fifoUsed, fifoOut>>

\* What kfifo_in returns is not tested.
kfifo_in ==
  /\ fifoStep = "put"
  /\ LET n == fifoCount + 1
     IN  IF fifoUsed + n + 1 <= fifoSize
         THEN fifo' = Append(fifo, n) /\ fifoUsed' = fifoUsed + n + 1
         ELSE UNCHANGED <<fifo, fifoUsed>>
  /\ fifoCount' = fifoCount + 1
  /\ fifoStep' = IF fifoCount + 1 < 10 THEN "put" ELSE "peek"
  /\ UNCHANGED <<fifoSize, fifoOut>>

\* kfifo_out_peek leaves the first record where it is.
kfifo_out_peek ==
  /\ fifoStep = "peek" /\ fifoStep' = "get"
  /\ UNCHANGED <<fifoSize, fifoCount, fifo, fifoUsed, fifoOut>>

kfifo_out ==
  /\ fifoStep = "get"
  /\ IF fifo # <<>>
     THEN /\ fifo' = Tail(fifo) /\ fifoUsed' = fifoUsed - Head(fifo) - 1
          /\ fifoOut' = Append(fifoOut, Head(fifo))
          /\ UNCHANGED fifoStep
     ELSE fifoStep' = "loaded" /\ UNCHANGED <<fifo, fifoUsed, fifoOut>>
  /\ UNCHANGED <<fifoSize, fifoCount>>

example_exit ==
  /\ fifoStep = "loaded" /\ fifoStep' = "gone" /\ fifoSize' = 0
  /\ UNCHANGED <<fifoCount, fifo, fifoUsed, fifoOut>>

FifoNext == kfifo_alloc \/ kfifo_in \/ kfifo_out_peek \/ kfifo_out \/ example_exit

\* The records come out in the order they went in; all ten of them if the
\* kernel rounded the size up, all but the last, silently, if it rounded it
\* down (testfunc).
RecordsInOrder ==
  /\ \A i \in 1..Len(fifoOut) : fifoOut[i] = i
  /\ fifoStep = "loaded" => Len(fifoOut) = (IF fifoSize = 128 THEN 10 ELSE 9)
=============================================================================
