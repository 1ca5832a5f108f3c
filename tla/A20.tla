--------------------------------- MODULE A20 ---------------------------------
(***************************************************************************)
(* enable_a20_or_die of boot/a20.asm: the BIOS, the keyboard controller    *)
(* and the fast A20 gate are tried in turn, until memory does not wrap     *)
(* around at 1 MiB.                                                        *)
(*                                                                         *)
(* The controller takes a byte written to it some time later; the code     *)
(* polls its status before every access.  It works with interrupts off:    *)
(* a key that is pressed meanwhile is read by nobody else.                 *)
(***************************************************************************)
EXTENDS Naturals, Sequences

VARIABLES
  hw,      \* the ways that work on this machine
  holds,   \* the ways by which the line is held on
  apc,     \* the next access of the code
  al,      \* the output port, as it was read
  input,   \* the byte that the controller has not taken yet
  output,  \* the bytes that it has for the CPU
  kbd_on,  \* it takes bytes from the keyboard
  port,    \* its output port
  typed    \* a key was pressed while interrupts were off

cpu_vars == <<hw, holds, apc, al>>
controller_vars == <<input, output, kbd_on, port>>
vars == <<cpu_vars, controller_vars, typed>>

Ways == {"bios", "kbd", "fast"}
Nothing == "nothing"
Scancode == "scancode"

(* The output port: its A20 line, and whether its other lines, one of them *)
(* the reset line of the CPU, are as the BIOS has left them.               *)
Port(a20, kept) == [a20 |-> a20, kept |-> kept]

a20 == holds # {}

Init ==
  /\ hw \in SUBSET Ways
  /\ holds = {}
  /\ apc = "bios"
  /\ al = Port(FALSE, TRUE)
  /\ input = Nothing /\ output = <<>> /\ kbd_on = TRUE
  /\ port = Port(FALSE, TRUE)
  /\ typed = FALSE

-----------------------------------------------------------------------------
(* A zero is stored at 0x500, then 0xff at 0x100500, which is the same     *)
(* byte when the line is off.                                              *)
check_a20 ==
  LET hi == IF a20 THEN 1 ELSE 0
      mem == [a \in {0, hi} |-> IF a = hi THEN 255 ELSE 0]
  IN mem[0] # 255

(* Go on to the next way, unless this one has worked.                      *)
Check(from, next) ==
  /\ apc = from
  /\ apc' = IF check_a20 THEN "end" ELSE next
  /\ UNCHANGED <<hw, holds, al, controller_vars, typed>>

(* int 0x15                                                                *)
TryBios ==
  /\ apc = "bios"
  /\ apc' = "check_bios"
  /\ holds' = holds \cup (hw \cap {"bios"})
  /\ UNCHANGED <<hw, al, controller_vars, typed>>

(* .wait until the controller has taken the last byte, then write one.     *)
Write(from, byte, to) ==
  /\ apc = from
  /\ input = Nothing
  /\ input' = byte
  /\ apc' = to
  /\ UNCHANGED <<hw, holds, al, output, kbd_on, port, typed>>

(* What the byte read says, when it is taken for the output port.          *)
AsPort(byte) == IF byte = Scancode THEN Port(FALSE, FALSE) ELSE port

(* Mutant: the answer is not waited for; without one, the port reads as    *)
(* the byte that was there before.                                         *)
Read_at_once ==
  /\ apc = "read"
  /\ al' = IF output = <<>> THEN AsPort(Scancode) ELSE AsPort(Head(output))
  /\ output' = IF output = <<>> THEN output ELSE Tail(output)
  /\ apc' = "D1"
  /\ UNCHANGED <<hw, holds, input, kbd_on, port, typed>>

(* .wait2 until there is a byte, then read it.                             *)
Read ==
  /\ apc = "read"
  /\ output # <<>>
  /\ al' = AsPort(Head(output))
  /\ output' = Tail(output)
  /\ apc' = "D1"
  /\ UNCHANGED <<hw, holds, input, kbd_on, port, typed>>

(* The last .wait, and sti: the BIOS reads what the controller still has.  *)
Sti ==
  /\ apc = "sti"
  /\ input = Nothing
  /\ output' = <<>>
  /\ apc' = "check_kbd"
  /\ UNCHANGED <<hw, holds, al, input, kbd_on, port, typed>>

enable_a20_via_kbd ==
  \/ Write("AD", "AD", "D0")
  \/ Write("D0", "D0", "read")
  \/ Read
  \/ Write("D1", "D1", "data")
  \/ Write("data", "data", "AE")
  \/ Write("AE", "AE", "sti")
  \/ Sti

(* Port 0x92 may read as all ones where it does not exist, and then the    *)
(* code is done without another check.                                     *)
Fast ==
  /\ apc = "fast"
  /\ \/ apc' = "check_fast"
     \/ "fast" \notin hw /\ apc' = "end"
  /\ holds' = holds \cup (hw \cap {"fast"})
  /\ UNCHANGED <<hw, al, controller_vars, typed>>

enable_a20_or_die ==
  \/ TryBios \/ Check("check_bios", "AD")
  \/ enable_a20_via_kbd \/ Check("check_kbd", "fast")
  \/ Fast \/ Check("check_fast", "error")

-----------------------------------------------------------------------------
(* The controller acts on a byte: AD and AE stop and start the keyboard,   *)
(* D0 asks for the output port, D1 says that the next byte is for it.      *)
Controller ==
  /\ input # Nothing
  /\ input' = Nothing
  /\ kbd_on' = CASE input = "AD" -> FALSE [] input = "AE" -> TRUE [] OTHER -> kbd_on
  /\ output' = IF input = "D0" THEN Append(output, "port") ELSE output
  /\ port' = IF input = "data" THEN [al EXCEPT !.a20 = TRUE] ELSE port
  /\ holds' = IF input = "data" THEN holds \cup (hw \cap {"kbd"}) ELSE holds
  /\ UNCHANGED <<hw, apc, al, typed>>

(* With interrupts on, the BIOS reads a key right away.                    *)
InterruptsOff == apc \in {"AD", "D0", "read", "D1", "data", "AE", "sti"}

Key ==
  /\ InterruptsOff
  /\ kbd_on
  /\ output = <<>>
  /\ output' = <<Scancode>>
  /\ typed' = TRUE
  /\ UNCHANGED <<cpu_vars, input, kbd_on, port>>

-----------------------------------------------------------------------------
(* The controller's output port gets its other lines back as they were,    *)
(* unless a key was pressed before the keyboard had been stopped: the      *)
(* first byte of the controller is taken for its answer, whatever it is.   *)
OutputPortKept == typed \/ port.kept
=============================================================================
