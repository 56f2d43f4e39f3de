------------------------------- MODULE TuxCtl -------------------------------
(***************************************************************************)
(* The tux-controller driver's protocol (mp2 tuxctl-ioctl.c) with the     *)
(* device at the other end of the serial line.  The driver's side is the   *)
(* ioctls TUX_INIT and TUX_SET_LED (TUX_BUTTONS only copies button_val out *)
(* and the other commands return -EINVAL) and tuxctl_handle_packet, which  *)
(* the line discipline calls for every packet the device sends.  The       *)
(* device's side follows the MTCP protocol the driver's comments describe: *)
(* it executes commands in order and answers each with MTCP_ACK, reports   *)
(* button changes with MTCP_BIOC_EVENT, and sends MTCP_RESET after it was  *)
(* reset.  LED arguments are abstracted to small integers (0: all off).    *)
(***************************************************************************)
EXTENDS Integers, Sequences

CONSTANTS
  LedVals,     \* TUX_SET_LED arguments
  LineCap,     \* commands the line discipline's output buffer holds
  HostCap,     \* packets the serial receive side holds before it drops
  MaxCalls     \* ioctl calls and device events per behaviour

VARIABLES
  ackFlag,     \* ack_flag
  prevLeds,    \* prev_state_leds
  toDev,       \* commands written by tuxctl_ldisc_put, not yet executed
  toHost,      \* packets the device sent, not yet handled
  shown,       \* the LED value the device displays
  accepted,    \* every value TUX_SET_LED took into prev_state_leds
  lastReq,     \* the argument of the last TUX_SET_LED call
  calls        \* ioctl calls and device events so far

vars == <<ackFlag, prevLeds, toDev, toHost, shown, accepted, lastReq, calls>>

Cmd(op, v) == [op |-> op, v |-> v]

\* Mutant: the room left in the buffer is computed one too high.
PutOverruns(q, cmds) ==
  q \o SubSeq(cmds, 1, IF LineCap + 1 - Len(q) < Len(cmds)
                       THEN LineCap + 1 - Len(q) ELSE Len(cmds))

\* tuxctl_ldisc_put: the commands that fit into the output buffer are
\* queued, the rest are dropped (its return value is never checked).
Put(q, cmds) ==
  q \o SubSeq(cmds, 1, IF LineCap - Len(q) < Len(cmds)
                       THEN LineCap - Len(q) ELSE Len(cmds))

\* The serial receive side: a packet that arrives while HostCap packets
\* wait for the line discipline is lost.
Send(q, p) == IF Len(q) < HostCap THEN Append(q, p) ELSE q

\* tux_init: MTCP_BIOC_ON and MTCP_LED_USR, then ack_flag = 1.
TuxInitCmds == <<Cmd("BIOC_ON", 0), Cmd("LED_USR", 0)>>

\* tux_set_led: one MTCP_LED_SET command carrying the argument.
SetLedCmds(v) == <<Cmd("LED_SET", v)>>

\* ioctl TUX_INIT.
IoctlInit ==
  /\ calls < MaxCalls
  /\ toDev' = Put(toDev, TuxInitCmds)
  /\ ackFlag' = 1
  /\ calls' = calls + 1
  /\ UNCHANGED <<prevLeds, toHost, shown, accepted, lastReq>>

\* ioctl TUX_SET_LED: only while ack_flag is set; otherwise it returns 0
\* without doing anything.
IoctlSetLed ==
  /\ calls < MaxCalls
  /\ \E v \in LedVals :
       /\ lastReq' = v
       /\ IF ackFlag = 1
          THEN /\ ackFlag' = 0
               /\ prevLeds' = v
               /\ accepted' = accepted \cup {v}
               /\ toDev' = Put(toDev, SetLedCmds(v))
          ELSE UNCHANGED <<ackFlag, prevLeds, accepted, toDev>>
  /\ calls' = calls + 1
  /\ UNCHANGED <<toHost, shown>>

\* Mutant: MTCP_ACK has no case and falls to default.
HandlePacketNoAck ==
  /\ toHost /= <<>>
  /\ toHost' = Tail(toHost)
  /\ IF Head(toHost) = "ACK" THEN UNCHANGED <<ackFlag, toDev>>
     ELSE /\ ackFlag' = 1
          /\ toDev' = Put(Put(toDev, TuxInitCmds), SetLedCmds(prevLeds))
  /\ UNCHANGED <<prevLeds, shown, accepted, lastReq, calls>>

\* Mutant: the packet handler re-sends the last requested value, not the
\* last accepted one.
HandlePacketResendsLast ==
  /\ toHost /= <<>>
  /\ toHost' = Tail(toHost)
  /\ ackFlag' = 1
  /\ toDev' = Put(Put(toDev, TuxInitCmds), SetLedCmds(lastReq))
  /\ UNCHANGED <<prevLeds, shown, accepted, lastReq, calls>>

\* tuxctl_handle_packet: MTCP_BIOC_EVENT stores button_val and falls
\* through into MTCP_ACK (ack_flag = 1), which falls through into
\* MTCP_RESET: tux_init, then tux_set_led(prev_state_leds).
HandlePacket ==
  /\ toHost /= <<>>
  /\ toHost' = Tail(toHost)
  /\ ackFlag' = 1
  /\ toDev' = Put(Put(toDev, TuxInitCmds), SetLedCmds(prevLeds))
  /\ UNCHANGED <<prevLeds, shown, accepted, lastReq, calls>>

\* The device executes the oldest command and acknowledges it.
DeviceExec ==
  /\ toDev /= <<>>
  /\ shown' = IF Head(toDev).op = "LED_SET" THEN Head(toDev).v ELSE shown
  /\ toDev' = Tail(toDev)
  /\ toHost' = Send(toHost, "ACK")
  /\ UNCHANGED <<ackFlag, prevLeds, accepted, lastReq, calls>>

\* A button is pressed or released.
DeviceButton ==
  /\ calls < MaxCalls
  /\ toHost' = Send(toHost, "BIOC_EVENT")
  /\ calls' = calls + 1
  /\ UNCHANGED <<ackFlag, prevLeds, toDev, shown, accepted, lastReq>>

\* The device is reset: pending commands are lost, the display is blank.
DeviceReset ==
  /\ calls < MaxCalls
  /\ toDev' = <<>>
  /\ shown' = 0
  /\ toHost' = Send(toHost, "RESET")
  /\ calls' = calls + 1
  /\ UNCHANGED <<ackFlag, prevLeds, accepted, lastReq>>

Init ==
  /\ ackFlag = 1
  /\ prevLeds = 0
  /\ toDev = <<>>
  /\ toHost = <<>>
  /\ shown = 0
  /\ accepted = {}
  /\ lastReq = 0
  /\ calls = 0

Next ==
  \/ IoctlInit \/ IoctlSetLed
  \/ HandlePacket
  \/ DeviceExec \/ DeviceButton \/ DeviceReset

\* The device works through its commands, and the line discipline hands
\* every received packet to the driver: both are weakly fair.  The user
\* and the buttons are not.
Spec == Init /\ [][Next]_vars /\ WF_vars(HandlePacket) /\ WF_vars(DeviceExec)

-----------------------------------------------------------------------------
TypeOK ==
  /\ ackFlag \in {0, 1}
  /\ prevLeds \in LedVals \cup {0}
  /\ toDev \in Seq([op : {"BIOC_ON", "LED_USR", "LED_SET"}, v : LedVals \cup {0}])
  /\ Len(toDev) <= LineCap
  /\ toHost \in Seq({"ACK", "BIOC_EVENT", "RESET"})
  /\ Len(toHost) <= HostCap
  /\ shown \in LedVals \cup {0}
  /\ accepted \subseteq LedVals
  /\ lastReq \in LedVals \cup {0}
  /\ calls \in 0 .. MaxCalls

\* The displays only ever show a value some TUX_SET_LED call accepted (or
\* the blank power-up value), however the re-sends of tuxctl_handle_packet
\* interleave with dropped requests, lost packets and device resets.
ShownAccepted == shown \in accepted \cup {0}

\* TUX_SET_LED clears ack_flag; the driver never locks itself out of LED
\* updates: ack_flag is set again, whatever packets are lost.
NoLedLockout == ackFlag = 0 ~> ackFlag = 1

\* Once the user stops calling, the serial line falls quiet: the driver
\* and the device stop sending each other commands and packets.
SettlesAfterCalls == <>[](toDev = <<>> /\ toHost = <<>>)
==============================================================================
