-------------------------------- MODULE LoraLink --------------------------------
(* The LoRa packet protocol of gugaPI (app/lora_protocol.cpp, app_lora.cpp)      *)
(* between a station that sends and one that receives, both running this code:   *)
(* sequence numbers, acknowledgments, bounded retries and duplicate detection    *)
(* over a transparent serial radio that loses and truncates frames.              *)
EXTENDS Integers, Sequences, SequencesExt, FiniteSets

CONSTANTS Payloads,      \* contents a frame can have
          Numbers,       \* sequence numbers (256)
          MaxRetries,    \* kMaximumRetries
          AckTimeout,    \* kAcknowledgmentTimeoutMs, in ticks
          QueueDepth,    \* LORA_PROTOCOL_RX_QUEUE_DEPTH
          InAir,         \* bound: frames under way in one direction
          MaxSends,      \* bound: frames the application sends
          MaxLosses,     \* bound: frames lost, truncated or not written
          MaxResets      \* bound: `lora proto off`, `on` and `reset`

VARIABLES tx,         \* the sender's next_tx_sequence and pending frame
          rx,         \* the receiver's last signature, queue and parser
          toRx, toTx, \* bytes under way
          taken,      \* history: the frames the receiver queued for its application
          confirmed,  \* history: the frames reported acknowledged
          sends, losses, resets

LoraConstants ==
    /\ Numbers \in Nat \ {0} /\ {MaxRetries, AckTimeout, QueueDepth, InAir} \subseteq Nat
    /\ {MaxSends, MaxLosses, MaxResets} \subseteq Nat

loraVars == << tx, rx, toRx, toTx, taken, confirmed, sends, losses, resets >>

(* A frame carries what its CRC covers, and as history the send it came from.     *)
NoFrame == [seq |-> 0, data |-> "none", ack |-> FALSE, id |-> 0]
Signature(f) == [seq |-> f.seq, data |-> f.data, ack |-> f.ack]
Whole(f) == [kind |-> "frame", frame |-> f]
Cut == [kind |-> "cut", frame |-> NoFrame]        \* a frame without its end
Ack(n) == [kind |-> "ack", seq |-> n]

Fresh == [next |-> 0, awaiting |-> FALSE, retries |-> 0, age |-> 0, pending |-> NoFrame]
Listening == [known |-> FALSE, last |-> Signature(NoFrame), queue |-> << >>, eaten |-> FALSE]

(* LoraUart_Write: the frame goes out whole, or the FIFO times out in the middle. *)
Written(f, ok) == IF Len(toRx) >= InAir THEN toRx
                  ELSE Append(toRx, IF ok THEN Whole(f) ELSE Cut)
MayFail == IF losses < MaxLosses THEN BOOLEAN ELSE {TRUE}
Counting(ok) == losses' = IF ok THEN losses ELSE losses + 1

-----------------------------------------------------------------------------
(* LoraProtocol_Send: one frame awaits its acknowledgment at a time; a frame that *)
(* could not be written takes no number.                                          *)
Send(data, ack) ==
    /\ sends < MaxSends /\ ~tx.awaiting
    /\ \E ok \in MayFail :
        LET f == [seq |-> tx.next, data |-> data, ack |-> ack, id |-> sends + 1] IN
        /\ toRx' = Written(f, ok)
        /\ tx' = IF ~ok THEN tx
                 ELSE IF ack
                 THEN [next |-> (tx.next + 1) % Numbers, awaiting |-> TRUE, retries |-> 0,
                       age |-> 0, pending |-> f]
                 ELSE [tx EXCEPT !.next = (@ + 1) % Numbers]
        /\ Counting(ok)
    /\ sends' = sends + 1
    /\ UNCHANGED << rx, toTx, taken, confirmed, resets >>

Elapsing ==
    /\ tx.awaiting /\ tx.age < AckTimeout
    /\ tx' = [tx EXCEPT !.age = @ + 1]
    /\ UNCHANGED << rx, toRx, toTx, taken, confirmed, sends, losses, resets >>

(* A retry counts whether or not it could be written. *)
Retried(t) == [t EXCEPT !.retries = @ + 1, !.age = 0]

(* LoraProtocol_ProcessTimeouts *)
Timeout ==
    /\ tx.awaiting /\ tx.age = AckTimeout
    /\ IF tx.retries >= MaxRetries
       THEN tx' = [tx EXCEPT !.awaiting = FALSE, !.pending = NoFrame]
            /\ UNCHANGED << toRx, losses >>
       ELSE \E ok \in MayFail : /\ toRx' = Written(tx.pending, ok)
                                /\ tx' = Retried(tx)
                                /\ Counting(ok)
    /\ UNCHANGED << rx, toTx, taken, confirmed, sends, resets >>

(* Mutant: any acknowledgment will do. *)
AnswersAny(n) == tx.awaiting

(* HandleCompletedFrame, an ACK: it has to name the pending frame. *)
Answers(n) == tx.awaiting /\ tx.pending.seq = n

ReceiveAck ==
    /\ toTx # << >>
    /\ toTx' = Tail(toTx)
    /\ IF Answers(Head(toTx).seq)
       THEN tx' = [tx EXCEPT !.awaiting = FALSE, !.retries = 0, !.pending = NoFrame]
            /\ confirmed' = confirmed \cup {tx.pending.id}
       ELSE UNCHANGED << tx, confirmed >>
    /\ UNCHANGED << rx, toRx, taken, sends, losses, resets >>

-----------------------------------------------------------------------------
(* IsDuplicate: the number and the CRC of the last frame taken. *)
IsDuplicate(f) == rx.known /\ rx.last = Signature(f)

(* HandleCompletedFrame acknowledges a frame only once the queue holds it. *)
Answered(f, queued) == f.ack /\ queued

(* SendAcknowledgment: one that cannot be written is lost. *)
Acknowledged(f) ==
    \E ok \in MayFail :
        /\ toTx' = IF ok /\ Len(toTx) < InAir THEN Append(toTx, Ack(f.seq)) ELSE toTx
        /\ Counting(ok)

(* QueueParsedFrame *)
QueueRoom(q) == Len(q) < QueueDepth

HandleCompletedFrame(f) ==
    LET room == QueueRoom(rx.queue)
        queued == IsDuplicate(f) \/ room
    IN /\ rx' = IF IsDuplicate(f) \/ ~room THEN [rx EXCEPT !.eaten = FALSE]
                ELSE [known |-> TRUE, last |-> Signature(f),
                      queue |-> Append(rx.queue, f), eaten |-> FALSE]
       /\ taken' = IF IsDuplicate(f) \/ ~room THEN taken ELSE Append(taken, f.id)
       /\ IF Answered(f, queued) THEN Acknowledged(f) ELSE UNCHANGED << toTx, losses >>

(* LoraProtocol_ProcessByte over one frame: the rest of a truncated one is read   *)
(* out of the bytes that follow, so the next frame fails its CRC with it.         *)
Receive ==
    /\ toRx # << >>
    /\ toRx' = Tail(toRx)
    /\ IF Head(toRx).kind = "cut"
       THEN rx' = [rx EXCEPT !.eaten = ~@] /\ UNCHANGED << toTx, taken, losses >>
       ELSE IF rx.eaten THEN rx' = [rx EXCEPT !.eaten = FALSE]
                         /\ UNCHANGED << toTx, taken, losses >>
       ELSE HandleCompletedFrame(Head(toRx).frame)
    /\ UNCHANGED << tx, confirmed, sends, resets >>

(* LoraProtocol_ReadFrame *)
ReadFrame ==
    /\ rx.queue # << >>
    /\ rx' = [rx EXCEPT !.queue = Tail(@)]
    /\ UNCHANGED << tx, toRx, toTx, taken, confirmed, sends, losses, resets >>

-----------------------------------------------------------------------------
(* Environment: the radio, or a full receive ring, drops a frame. *)
Lose ==
    /\ losses < MaxLosses /\ losses' = losses + 1
    /\ \/ toRx # << >> /\ toRx' = Tail(toRx) /\ UNCHANGED toTx
       \/ toTx # << >> /\ toTx' = Tail(toTx) /\ UNCHANGED toRx
    /\ UNCHANGED << tx, rx, taken, confirmed, sends, resets >>

(* App_LoraProtocolSetEnabled and App_LoraProtocolReset: everything starts over,  *)
(* numbers and signature included; the receive buffer may be cleared first.       *)
Reset ==
    /\ resets.tx + resets.rx < MaxResets
    /\ \/ /\ tx' = Fresh /\ toTx' \in {toTx, << >>}
          /\ resets' = [resets EXCEPT !.tx = @ + 1]
          /\ UNCHANGED << rx, toRx >>
       \/ /\ rx' = Listening /\ toRx' \in {toRx, << >>}
          /\ resets' = [resets EXCEPT !.rx = @ + 1]
          /\ UNCHANGED << tx, toTx >>
    /\ UNCHANGED << taken, confirmed, sends, losses >>

-----------------------------------------------------------------------------
LoraInit ==
    /\ tx = Fresh /\ rx = Listening
    /\ toRx = << >> /\ toTx = << >>
    /\ taken = << >> /\ confirmed = {}
    /\ sends = 0 /\ losses = 0 /\ resets = [tx |-> 0, rx |-> 0]

Serving == Receive \/ ReceiveAck \/ Timeout \/ Elapsing
LoraNext ==
    \/ \E data \in Payloads, ack \in BOOLEAN : Send(data, ack)
    \/ Serving \/ ReadFrame \/ Lose \/ Reset

(* App_LoraProtocolRun is called in every round of the main loop. *)
LoraSpec == LoraInit /\ [][LoraNext]_loraVars /\ WF_loraVars(Serving)

-----------------------------------------------------------------------------
Frames == [seq : 0..Numbers - 1, data : Payloads \cup {"none"}, ack : BOOLEAN, id : 0..MaxSends]
LoraTypeOK ==
    /\ tx \in [next : 0..Numbers - 1, awaiting : BOOLEAN, retries : 0..MaxRetries,
               age : 0..AckTimeout, pending : Frames]
    /\ tx.awaiting <=> tx.pending # NoFrame
    /\ rx.known \in BOOLEAN /\ rx.eaten \in BOOLEAN
    /\ Len(rx.queue) <= QueueDepth /\ \A i \in DOMAIN rx.queue : rx.queue[i] \in Frames
    /\ Len(toRx) <= InAir /\ Len(toTx) <= InAir
    /\ confirmed \subseteq 1..MaxSends /\ ToSet(taken) \subseteq 1..MaxSends

(* Unless the receiver is reset, no frame reaches its application twice and none   *)
(* out of order, whatever was lost, truncated or sent again (IsDuplicate,         *)
(* HandleCompletedFrame).                                                         *)
InOrderOnce == resets.rx = 0 =>
    \A i, j \in DOMAIN taken : i < j => taken[i] < taken[j]

(* Unless the sender is reset, a frame reported acknowledged was handed over, also *)
(* when the queue was full or an acknowledgment comes late (HandleCompletedFrame).  *)
ConfirmedIsTaken == resets.tx = 0 => confirmed \subseteq ToSet(taken)

(* The radio delivers in order, once, and what it confirms (lora_protocol.cpp).   *)
DeliveredOnce == InOrderOnce /\ ConfirmedIsTaken

(* A send that asks for an acknowledgment comes to an end, acknowledged or given  *)
(* up, and the next one is accepted (LoraProtocol_ProcessTimeouts).               *)
SendEnds == []<>~tx.awaiting
=================================================================================
