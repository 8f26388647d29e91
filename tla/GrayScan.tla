------------------------------- MODULE GrayScan -------------------------------
(* Sampling of the grayscale array of gugaPI: the analogue multiplexer and ADC   *)
(* of drivers/grayscale/grayscale.cpp, shared by the interrupt that ends a       *)
(* conversion and selects the next channel, the 1 ms task that collects a frame  *)
(* (App_GrayscaleUpdate) and the blocking reads of the shell.                    *)
EXTENDS Integers, Sequences

CONSTANTS Outer,       \* the road channels, one of which precedes each sweep
          Core,        \* the channels of the line, in scan order
          MaxErrors,   \* bound: conversions that never end
          MaxReads     \* bound: shell reads

VARIABLES adc,       \* GrayscaleContext: mux, conversion and its result
          scan,      \* g_scanPhase and the two channel masks
          working,   \* g_workingRaw: what each raw value is a sample of
          frame,     \* g_data.raw of the last publication, and what was fresh
          valid,     \* g_data.valid
          errors, reads

scanVars == << adc, scan, working, frame, valid, errors, reads >>

(* kScanSequence: every outer channel once, each followed by the core. *)
Sweep == Len(Core) + 1
Length == Len(Outer) * Sweep
ChannelAt(phase) ==
    IF phase % Sweep = 0 THEN Outer[(phase \div Sweep) + 1] ELSE Core[phase % Sweep]
PhaseAfter(phase) == (phase + 1) % Length
Channels == {Outer[i] : i \in DOMAIN Outer} \cup {Core[i] : i \in DOMAIN Core}

(* Every channel has one place in the scan. *)
OnePlaceEach(s) == \A i, j \in DOMAIN s : s[i] = s[j] => i = j
ScanConstants ==
    /\ Outer \in Seq(Channels) /\ Core \in Seq(Channels) /\ "none" \notin Channels
    /\ Len(Outer) > 0 /\ Len(Core) > 0
    /\ OnePlaceEach(Outer) /\ OnePlaceEach(Core)
    /\ \A i \in DOMAIN Outer, j \in DOMAIN Core : Outer[i] # Core[j]
    /\ MaxErrors \in Nat /\ MaxReads \in Nat

Older(n) == IF n < Length THEN n + 1 ELSE n   \* ages count up to one cycle, then stop

(* A sample: the channel the mux stood at, whether it had settled, the number of *)
(* samples taken since, and whether a failure came in between.                    *)
NoSample == [of |-> "none", settled |-> TRUE, age |-> 0, before |-> FALSE]
NoConversion == [channel |-> "none", next |-> "none", sample |-> NoSample]

(* Mutant: a channel that is selected already settles again. *)
PrepareAgain(a, c) == [a EXCEPT !.mux = c, !.settled = FALSE]

(* Grayscale_PrepareChannel: a channel that stands selected keeps its time. *)
PrepareChannel(a, c) == [a EXCEPT !.mux = c, !.settled = IF a.mux = c THEN @ ELSE FALSE]

(* Environment: the mux settles, a fraction of the task period later. *)
Settle ==
    /\ ~adc.settled
    /\ adc' = [adc EXCEPT !.settled = TRUE]
    /\ UNCHANGED << scan, working, frame, valid, errors, reads >>

(* Grayscale_HandleInterrupt *)
Completed(a) ==
    [a EXCEPT !.mux = a.conversion.next, !.settled = FALSE, !.conversion = NoConversion,
              !.result = a.conversion]

Interrupt ==
    /\ adc.conversion # NoConversion
    /\ adc' = Completed(adc)
    /\ UNCHANGED << scan, working, frame, valid, errors, reads >>

(* The ADC stops answering: the timeouts abort the conversion. *)
ConversionAborted(a) == [a EXCEPT !.conversion = NoConversion]

-----------------------------------------------------------------------------
(* Mutant: the conversion starts before the input has settled. *)
StartUnsettled(a, c, next) ==
    IF a.conversion # NoConversion \/ a.result # NoConversion THEN a
    ELSE [PrepareChannel(a, c) EXCEPT !.conversion =
             [channel |-> c, next |-> next,
              sample |-> [of |-> c, settled |-> PrepareChannel(a, c).settled, age |-> 0,
                          before |-> FALSE]]]

(* Grayscale_StartPreparedConversion: busy while a conversion or its result is   *)
(* there, and until the mux has settled.                                          *)
Start(a, c, next) ==
    IF a.conversion # NoConversion \/ a.result # NoConversion THEN a
    ELSE IF ~PrepareChannel(a, c).settled THEN PrepareChannel(a, c)
    ELSE [a EXCEPT !.conversion =
             [channel |-> c, next |-> next,
              sample |-> [of |-> a.mux, settled |-> TRUE, age |-> 0, before |-> FALSE]]]

(* MarkFailure, then the first channel is prepared again. *)
MarkFailure ==
    /\ valid' = FALSE
    /\ scan' = [phase |-> 0, initialized |-> {}, fresh |-> {}]
    /\ working' = [c \in Channels |-> [working[c] EXCEPT !.before = TRUE]]
    /\ adc' = PrepareChannel(ConversionAborted(adc), ChannelAt(0))
    /\ UNCHANGED frame

Complete(c, seen) == c = Core[Len(Core)] /\ seen = Channels

(* Grayscale_TakeCompletedConversion found a result: it is stored, and the last  *)
(* core channel completes a frame once every channel has been sampled.            *)
WithSample(c, sample) ==
    [d \in Channels |-> IF d = c THEN sample
                        ELSE [working[d] EXCEPT !.age = Older(@)]]

TakeResult ==
    LET c == adc.result.channel
        seen == scan.initialized \cup {c}
        fresh == scan.fresh \cup {c}
        done == Complete(c, seen)
        phase == PhaseAfter(scan.phase)
        taken == WithSample(c, adc.result.sample)
    IN  /\ adc.result # NoConversion
        /\ IF c # ChannelAt(scan.phase)
           THEN MarkFailure
           ELSE /\ working' = taken
                /\ scan' = [phase |-> phase, initialized |-> seen,
                            fresh |-> IF done THEN {} ELSE fresh]
                /\ adc' = Start([adc EXCEPT !.result = NoConversion], ChannelAt(phase),
                                ChannelAt(PhaseAfter(phase)))
                /\ frame' = IF done THEN [raw |-> taken, fresh |-> fresh] ELSE frame
                /\ valid' = (done \/ valid)

(* App_GrayscaleUpdate *)
Update ==
    \/ /\ TakeResult
       /\ UNCHANGED << errors, reads >>
    \/ /\ adc.result = NoConversion       \* the conversion runs, or none was started
       /\ adc' = Start(adc, ChannelAt(scan.phase), ChannelAt(PhaseAfter(scan.phase)))
       /\ UNCHANGED << scan, working, frame, valid, errors, reads >>
    \/ /\ adc.result = NoConversion /\ adc.conversion # NoConversion /\ errors < MaxErrors
       /\ errors' = errors + 1
       /\ MarkFailure
       /\ UNCHANGED reads

(* `gray read`, `gray all`: wait for the conversion in flight, or abort it; then *)
(* read the channel with the interrupt off and select the old channel again.      *)
BlockingRead(a, c) == PrepareChannel([PrepareChannel(a, c) EXCEPT !.settled = TRUE], a.mux)

ShellRead ==
    /\ reads < MaxReads
    /\ reads' = reads + 1
    /\ \/ /\ \E c \in Channels :
              adc' = BlockingRead(IF adc.conversion = NoConversion THEN adc ELSE Completed(adc),
                                  c)
          /\ UNCHANGED errors
       \/ /\ adc.conversion # NoConversion /\ errors < MaxErrors
          /\ errors' = errors + 1
          /\ adc' = [ConversionAborted(adc) EXCEPT !.result = NoConversion]
    /\ UNCHANGED << scan, working, frame, valid >>

ScanInit ==
    /\ adc = [mux |-> ChannelAt(0), settled |-> FALSE, conversion |-> NoConversion,
              result |-> NoConversion]
    /\ scan = [phase |-> 0, initialized |-> {}, fresh |-> {}]
    /\ working = [c \in Channels |-> NoSample]
    /\ frame = [raw |-> [c \in Channels |-> NoSample], fresh |-> {}]
    /\ valid = FALSE
    /\ errors = 0 /\ reads = 0

ScanNext == Settle \/ Interrupt \/ Update \/ ShellRead

ScanSpec ==
    ScanInit /\ [][ScanNext]_scanVars /\ WF_scanVars(Settle) /\ WF_scanVars(Interrupt)
        /\ WF_scanVars(Update)

-----------------------------------------------------------------------------
ScanTypeOK ==
    /\ adc.mux \in Channels
    /\ adc.result = NoConversion \/ adc.conversion = NoConversion
    /\ scan.phase \in 0 .. Length - 1
    /\ scan.fresh \subseteq scan.initialized /\ scan.initialized \subseteq Channels

(* A published frame holds for every channel a settled sample of that channel,   *)
(* taken after the last failure: whatever the shell reads in between and          *)
(* whichever conversion was aborted.                                              *)
FrameTrue ==
    valid => \A c \in Channels :
        LET s == frame.raw[c] IN s.of = c /\ s.settled /\ ~s.before

(* The line is placed from one sweep: the core samples of a frame were taken one *)
(* after the other, and those of the road channels within one scan cycle.         *)
FrameCoherent ==
    valid => /\ \A i \in DOMAIN Core : frame.raw[Core[i]].age = Len(Core) - i
             /\ \A i \in DOMAIN Outer : frame.raw[Outer[i]].age < Length

(* As long as conversions end, frames come: an aborted or a shell read delays    *)
(* them, it never stops the scan.                                                 *)
FramesCome == []<>valid
=============================================================================
