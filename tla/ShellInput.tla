------------------------------ MODULE ShellInput ------------------------------
(***************************************************************************)
(* What the shell makes of the bytes typed at the debug UART: the receive  *)
(* interrupt puts them into a ring (services/debug_uart.cpp), the main     *)
(* loop takes them out one by one and edits the line, and a line end runs  *)
(* the command (services/shell.cpp).  A command takes its time: any number *)
(* of bytes may arrive before the next one is taken out.  A byte is a      *)
(* printable character, "cr", "lf", "bs" for both erase keys, or "ctl".    *)
(***************************************************************************)
EXTENDS Integers, SequencesExt

CONSTANTS
    Chars,        \* printable characters
    RxSize,       \* DEBUG_UART_RX_BUFFER_SIZE
    LineSize,     \* DEBUG_SHELL_LINE_BUFFER_SIZE
    MaxTyped      \* bound: bytes typed

VARIABLES
    rxBytes,           \* the bytes between g_rxTail and g_rxHead
    line,         \* g_lineBuffer up to g_lineLength
    ignoreLf,     \* g_ignoreNextLf
    ranLines,          \* the lines that have been run and answered with a prompt,
                  \* the empty ones included, oldest first
    typed,        \* every byte that has arrived
    dropped       \* g_rxDroppedCount

inputVars == <<rxBytes, line, ignoreLf, ranLines, typed, dropped>>

Bytes == Chars \cup {"cr", "lf", "bs", "ctl"}

InputConstants ==
    /\ Chars \cap {"cr", "lf", "bs", "ctl"} = {}
    /\ RxSize \in Nat \ {0} /\ LineSize \in Nat \ {0} /\ MaxTyped \in Nat

InputInit ==
    /\ rxBytes = <<>> /\ line = <<>> /\ ignoreLf = FALSE
    /\ ranLines = <<>> /\ typed = <<>> /\ dropped = 0

-----------------------------------------------------------------------------
\* One cell stays free, to tell a full ring from an empty one.
Room == Len(rxBytes) < RxSize - 1

PushRxByteFromIsr(b) ==
    /\ Len(typed) < MaxTyped
    /\ typed' = Append(typed, b)
    /\ IF Room THEN rxBytes' = Append(rxBytes, b) /\ UNCHANGED dropped
       ELSE dropped' = dropped + 1 /\ UNCHANGED rxBytes
    /\ UNCHANGED <<line, ignoreLf, ranLines>>

\* A line end runs the line, which is then empty, and prints a prompt.
LineEnd(lfFollows) ==
    /\ ranLines' = Append(ranLines, line)
    /\ line' = <<>>
    /\ ignoreLf' = lfFollows

CarriageReturn == Head(rxBytes) = "cr" /\ LineEnd(TRUE)

LineFeed ==
    /\ Head(rxBytes) = "lf"
    /\ IF ignoreLf THEN ignoreLf' = FALSE /\ UNCHANGED <<ranLines, line>>
       ELSE LineEnd(FALSE)

HandleBackspace ==
    /\ Head(rxBytes) = "bs"
    /\ line' = IF line = <<>> THEN line ELSE Front(line)
    /\ ignoreLf' = FALSE /\ UNCHANGED ranLines

\* A printable character: past the end of the buffer only the bell is rung.
Printable ==
    /\ Head(rxBytes) \in Chars
    /\ line' = IF Len(line) >= LineSize - 1 THEN line ELSE Append(line, Head(rxBytes))
    /\ ignoreLf' = FALSE /\ UNCHANGED ranLines

Unprintable ==
    /\ Head(rxBytes) = "ctl"
    /\ ignoreLf' = FALSE /\ UNCHANGED <<ranLines, line>>

\* DebugUart_ReadByte and HandleInputByte.
HandleInputByte ==
    /\ rxBytes # <<>>
    /\ rxBytes' = Tail(rxBytes)
    /\ \/ CarriageReturn \/ LineFeed \/ HandleBackspace \/ Printable
       \/ Unprintable
    /\ UNCHANGED <<typed, dropped>>

InputNext == HandleInputByte \/ \E b \in Bytes : PushRxByteFromIsr(b)

InputSpec == InputInit /\ [][InputNext]_inputVars

-----------------------------------------------------------------------------
\* Types; neither buffer is ever overrun.
InputTypeOK ==
    /\ rxBytes \in Seq(Bytes) /\ Len(rxBytes) < RxSize
    /\ line \in Seq(Chars) /\ Len(line) < LineSize
    /\ ignoreLf \in BOOLEAN /\ dropped \in 0 .. MaxTyped

\* What a terminal means by bytes: a line ends with CR, with LF, or with CR LF,
\* which counts once.
EndsLine(bytes, i) ==
    \/ bytes[i] = "cr"
    \/ bytes[i] = "lf" /\ (i = 1 \/ bytes[i - 1] # "cr")

Ends(bytes) == {i \in 1 .. Len(bytes) : EndsLine(bytes, i)}

\* What a byte makes of the text before it on its line.
Edit(text, b) ==
    IF b \in Chars /\ Len(text) < LineSize - 1 THEN Append(text, b)
    ELSE IF b = "bs" /\ text # <<>> THEN Front(text) ELSE text

Edited(bytes) ==
    LET kept[n \in 0 .. Len(bytes)] == IF n = 0 THEN <<>> ELSE Edit(kept[n - 1], bytes[n])
    IN  kept[Len(bytes)]

\* The place of the n-th line end.
EndAt(bytes, n) == CHOOSE i \in Ends(bytes) : Cardinality({j \in Ends(bytes) : j <= i}) = n

TypedLines(bytes) ==
    [n \in 1 .. Cardinality(Ends(bytes)) |->
        Edited(SubSeq(bytes, IF n = 1 THEN 1 ELSE EndAt(bytes, n - 1) + 1,
                      EndAt(bytes, n) - 1))]

\* The lines run are the lines typed, in order, each once, whatever line ends the
\* terminal sends and wherever the main loop was between two of the bytes, as
\* long as the ring never overflowed.
RunsWhatWasTyped ==
    dropped = 0 => ranLines = TypedLines(SubSeq(typed, 1, Len(typed) - Len(rxBytes)))
==============================================================================
