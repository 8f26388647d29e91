---------------------------- MODULE DeadManSwitch ---------------------------
(***************************************************************************)
(* What a motor board owes to the host it serves, whatever its registers,  *)
(* queues and loops: a motor is driven only while the host has asked for   *)
(* it, and not for longer than the time the host set without hearing from  *)
(* it again.                                                               *)
(*                                                                         *)
(* Module MotorDriver implements this (its definition KeepsPromise).       *)
(***************************************************************************)
EXTENDS Naturals

CONSTANTS
    Engines, \* the motors
    Limits,  \* the silences the host may allow; 0 stands for any
    Slack    \* how late the board may be

VARIABLES
    asked,   \* motors the host wants driven
    limit,   \* the silence the host allows
    silence, \* how long the host has been silent
    driven   \* motors that are driven

switch == <<asked, limit, silence, driven>>

InTime(s) == limit > 0 => s <= limit + Slack

Begin ==
    /\ asked = {} /\ driven = {} /\ silence = 0
    /\ limit \in Limits

(* The host is heard: it may change what it asks for and the limit.        *)
Hear ==
    /\ silence' = 0
    /\ asked' \in SUBSET Engines /\ limit' \in Limits
    /\ UNCHANGED driven

(* Time passes, but not beyond the limit while a motor is driven.  A clock *)
(* that is no longer looked at may stop.                                   *)
Elapse ==
    /\ silence' \in {silence, silence + 1}
    /\ driven # {} => InTime(silence')
    /\ UNCHANGED <<asked, limit, driven>>

(* The board takes back what the host asked for.                           *)
Withdraw ==
    /\ asked' = {}
    /\ UNCHANGED <<limit, silence, driven>>

(* The board sets its outputs, at most as asked and only in time.          *)
Settle ==
    /\ driven' \in SUBSET asked
    /\ driven' # {} => InTime(silence)
    /\ UNCHANGED <<asked, limit, silence>>

Step == Hear \/ Elapse \/ Withdraw \/ Settle

Promise == Begin /\ [][Step]_switch
=============================================================================
