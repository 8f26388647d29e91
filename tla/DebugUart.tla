------------------------------ MODULE DebugUart ------------------------------
(***************************************************************************)
(* The transmit side of the debug UART (services/debug_uart.cpp): the main *)
(* loop copies text into a ring and publishes it, the DMA sends one        *)
(* contiguous span at a time, the DMA-done interrupt frees the span and    *)
(* starts the next, and a DMA fault, of any of the channels, drops it.     *)
(*                                                                         *)
(* StartNextTxDma is entered by three parties of rising priority: the main *)
(* loop, the UART interrupt and the DMA fault interrupt, none of which     *)
(* masks the others.  Its accesses to shared state are steps of their own  *)
(* for the first two; the fault interrupt has the highest priority and is  *)
(* one step.  Bytes are numbered as the ring accepts them, from 1.         *)
(***************************************************************************)
EXTENDS Integers, Sequences

CONSTANTS
    TxSize,       \* DEBUG_UART_TX_BUFFER_SIZE
    Block,        \* DEBUG_UART_TX_DMA_BLOCK_SIZE, less than TxSize
    LongestText,      \* bound: longest text of one write
    MaxBytes,     \* bound: bytes offered to the ring
    MaxFaults     \* bound: DMA faults

VARIABLES
    ring,         \* g_txBuffer: the number of the byte in each cell, 0 for none
    head, tail,   \* g_txHead, g_txTail
    active,       \* g_txDmaActive
    length,       \* g_txDmaLength
    channel,      \* the DMA channel: enabled, next cell, bytes left
    done,         \* DMA_DONE_TX is pending
    txAt,           \* where the main loop and the UART interrupt are in
                  \* StartNextTxDma, with the span each has computed
    accepted,     \* bytes the ring has taken
    offered,      \* bytes offered to it
    sentBytes,         \* the bytes the UART has sent
    faults

txVars == <<ring, head, tail, active, length, channel, done, txAt, accepted,
            offered, sentBytes, faults>>

TxConstants ==
    /\ TxSize \in Nat /\ TxSize > 1 /\ Block \in Nat \ {0} /\ Block < TxSize
    /\ LongestText \in Nat /\ MaxBytes \in Nat /\ MaxFaults \in Nat

TxCells == 0 .. TxSize - 1
Party == {"main", "irq"}
Resting == [step |-> "idle", span |-> 0]

AdvanceTxIndex(index, amount) == (index + amount) % TxSize

TxFreeSpace == (TxSize + tail - head - 1) % TxSize

\* The contiguous bytes from `from` to `to`, at most one block.
Span(from, to) ==
    LET run == IF to > from THEN to - from ELSE TxSize - from
    IN  IF run > Block THEN Block ELSE run

TxInit ==
    /\ ring = [c \in TxCells |-> 0]
    /\ head = 0 /\ tail = 0
    /\ active = FALSE /\ length = 0
    /\ channel = [on |-> FALSE, from |-> 0, left |-> 0]
    /\ done = FALSE
    /\ txAt = [p \in Party |-> Resting]
    /\ accepted = 0 /\ offered = 0 /\ sentBytes = <<>> /\ faults = 0

-----------------------------------------------------------------------------
\* Mutant: a span is started while another is in flight.
CheckedAnyway(busy, from, to) ==
    IF from = to THEN Resting ELSE [step |-> "sized", span |-> Span(from, to)]

\* The check at the top of StartNextTxDma: where the party goes on.
Checked(busy, from, to) ==
    IF busy \/ from = to THEN Resting
    ELSE [step |-> "sized", span |-> Span(from, to)]

\* An interrupt holds up the main loop.
Runs(p) == p = "irq" \/ txAt["irq"] = Resting

TxGoes(p, step) == txAt' = [txAt EXCEPT ![p].step = step]

StoreLength(p) ==
    /\ Runs(p) /\ txAt[p].step = "sized"
    /\ length' = txAt[p].span
    /\ TxGoes(p, "claim")
    /\ UNCHANGED <<ring, head, tail, active, channel, done, accepted, offered,
                   sentBytes, faults>>

Claim(p) ==
    /\ Runs(p) /\ txAt[p].step = "claim"
    /\ active' = TRUE
    /\ TxGoes(p, "aim")
    /\ UNCHANGED <<ring, head, tail, length, channel, done, accepted, offered,
                   sentBytes, faults>>

\* The channel is disabled and its source set from the tail of the moment.
Aim(p) ==
    /\ Runs(p) /\ txAt[p].step = "aim"
    /\ channel' = [on |-> FALSE, from |-> tail, left |-> 0]
    /\ TxGoes(p, "enable")
    /\ UNCHANGED <<ring, head, tail, active, length, done, accepted, offered,
                   sentBytes, faults>>

Enable(p) ==
    /\ Runs(p) /\ txAt[p].step = "enable"
    /\ channel' = [channel EXCEPT !.on = TRUE, !.left = txAt[p].span]
    /\ txAt' = [txAt EXCEPT ![p] = Resting]
    /\ UNCHANGED <<ring, head, tail, active, length, done, accepted, offered,
                   sentBytes, faults>>

-----------------------------------------------------------------------------
\* Of a text of n bytes, what fits; the rest is dropped.
Taken(n) == IF n > TxFreeSpace THEN TxFreeSpace ELSE n

\* The bytes taken are copied, around the end of the ring if need be, and then
\* published.
DebugUart_WriteData(n) ==
    /\ Runs("main") /\ txAt["main"] = Resting
    /\ offered + n <= MaxBytes
    /\ LET k == Taken(n)
           place == [i \in 1 .. k |-> AdvanceTxIndex(head, i - 1)]
           to == AdvanceTxIndex(head, k)
       IN  /\ ring' = [c \in TxCells |->
                        IF \E i \in 1 .. k : place[i] = c
                        THEN accepted + (CHOOSE i \in 1 .. k : place[i] = c)
                        ELSE ring[c]]
           /\ head' = to
           /\ accepted' = accepted + k
           /\ txAt' = [txAt EXCEPT !["main"] = Checked(active, tail, to)]
    /\ offered' = offered + n
    /\ UNCHANGED <<tail, active, length, channel, done, sentBytes, faults>>

\* Once per round of the main loop: kicks a queue that has come to rest.
DebugUart_TxPump ==
    /\ Runs("main") /\ txAt["main"] = Resting
    /\ txAt' = [txAt EXCEPT !["main"] = Checked(active, tail, head)]
    /\ txAt' # txAt
    /\ UNCHANGED <<ring, head, tail, active, length, channel, done, accepted,
                   offered, sentBytes, faults>>

\* The DMA moves one byte to the UART; its source address only counts up, and
\* after the last byte the channel is done.
Transfer ==
    /\ channel.on /\ channel.left > 0
    /\ sentBytes' = Append(sentBytes, IF channel.from \in TxCells THEN ring[channel.from]
                            ELSE 0)
    /\ channel' = [on |-> channel.left > 1,
                   from |-> channel.from + 1,
                   left |-> channel.left - 1]
    /\ done' = (done \/ channel.left = 1)
    /\ UNCHANGED <<ring, head, tail, active, length, txAt, accepted, offered,
                   faults>>

\* CompleteTxDma up to its check; reading the interrupt index clears it.
CompleteEnter ==
    /\ done /\ txAt["irq"] = Resting
    /\ done' = FALSE
    /\ channel' = [channel EXCEPT !.on = FALSE]
    /\ txAt' = [txAt EXCEPT !["irq"].step =
                IF active /\ length > 0 THEN "complete" ELSE "idle"]
    /\ UNCHANGED <<ring, head, tail, active, length, accepted, offered, sentBytes,
                   faults>>

Freed(amount) == AdvanceTxIndex(tail, amount)

CompleteTxDma ==
    /\ txAt["irq"].step = "complete"
    /\ tail' = Freed(length)
    /\ length' = 0 /\ active' = FALSE
    /\ txAt' = [txAt EXCEPT !["irq"] = Checked(FALSE, tail', head)]
    /\ UNCHANGED <<ring, head, channel, done, accepted, offered, sentBytes, faults>>

\* A DMA fault of any channel reaches every handler.  The span in flight is
\* dropped, and the next one started before anybody else runs.
RecoverTxDmaError ==
    /\ faults < MaxFaults
    /\ faults' = faults + 1
    /\ LET to == IF active /\ length > 0 THEN Freed(length) ELSE tail
           next == Checked(FALSE, to, head)
       IN  /\ tail' = to
           /\ length' = next.span
           /\ active' = (next # Resting)
           /\ channel' = IF next = Resting THEN [channel EXCEPT !.on = FALSE]
                         ELSE [on |-> TRUE, from |-> to, left |-> next.span]
    /\ UNCHANGED <<ring, head, done, txAt, accepted, offered, sentBytes>>

MainStep ==
    \/ \E n \in 1 .. LongestText : DebugUart_WriteData(n)
    \/ DebugUart_TxPump
    \/ StoreLength("main") \/ Claim("main") \/ Aim("main") \/ Enable("main")

IrqStep ==
    \/ CompleteEnter \/ CompleteTxDma
    \/ StoreLength("irq") \/ Claim("irq") \/ Aim("irq") \/ Enable("irq")

TxNext == MainStep \/ IrqStep \/ Transfer \/ RecoverTxDmaError

MainServes ==
    DebugUart_TxPump \/ StoreLength("main") \/ Claim("main") \/ Aim("main") \/ Enable("main")

\* The DMA runs, interrupts are taken, and the main loop comes round.
TxFairness ==
    /\ WF_txVars(Transfer) /\ WF_txVars(IrqStep)
    /\ WF_txVars(MainServes)

TxSpec == TxInit /\ [][TxNext]_txVars /\ TxFairness

-----------------------------------------------------------------------------
\* Types; the span in flight lies inside what has been published.
TxTypeOK ==
    /\ ring \in [TxCells -> 0 .. MaxBytes]
    /\ head \in TxCells /\ tail \in TxCells
    /\ active \in BOOLEAN /\ done \in BOOLEAN
    /\ length \in 0 .. Block
    /\ channel \in [on : BOOLEAN, from : Nat, left : 0 .. Block]
    /\ txAt \in [Party -> [step : {"idle", "sized", "claim", "aim", "enable",
                                 "complete"}, span : 0 .. Block]]
    /\ accepted \in 0 .. offered /\ offered \in 0 .. MaxBytes
    /\ faults \in 0 .. MaxFaults

\* What the UART has sent is what the ring accepted, in that order, each byte
\* once and none that was not published: unless a DMA fault dropped a span
\* (comment at debug_uart.cpp:23-32).
SentInOrder ==
    faults = 0 => /\ Len(sentBytes) <= accepted
                  /\ \A i \in 1 .. Len(sentBytes) : sentBytes[i] = i

\* Without faults all the text that was accepted is sent: none is left in the
\* ring until the next write.
AllSent == <>[](faults = 0 => Len(sentBytes) = accepted)
==============================================================================
