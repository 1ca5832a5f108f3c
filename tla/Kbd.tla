-------------------------------- MODULE Kbd --------------------------------
(***************************************************************************)
(* The keyboard.  IRQ 1 goes to kbd_handler of kernel/kbd.c until the kbd  *)
(* server, servers/kbd.c, has it forwarded to its own kbd_irq_handler.     *)
(* The server answers MSG_GETC with the last key pressed; the handler can  *)
(* interrupt it between any two of its accesses to the shared variables.   *)
(* Leoman gives the server its turns.                                      *)
(***************************************************************************)
EXTENDS Naturals

CONSTANTS
  Shifts, \* the Shift keys
  Keys,   \* the other keys
  NoKey   \* whatever _last_scancode holds before any key

VARIABLES
  down,        \* the keys that are held down
  handler, pdir, \* irq_handlers[1]: whose handler it is, and whose address
                 \* space the handler runs in, "kernel" for any
  is_pressed,  \* is_pressed[MASK_SHIFT] of "kernel" and of "server"
  last, key_pressed, \* _last_scancode and _key_pressed of the server
  reply,       \* what the server answers MSG_GETC with
  unread,      \* history: what the server's _key_pressed stands for, the
               \* "file" or a "press", or "nothing" once it was read
  heard        \* history: a Shift key has reached the server

vars == <<down, handler, pdir, is_pressed, last, key_pressed, reply, unread, heard>>

AllKeys == Shifts \cup Keys
MASK_NORMAL == 0

(* A character: an element of a key's array.                               *)
layout(k, mask) == <<k, mask>>

(* elf_load maps the .bss of the server onto what follows in its file, and *)
(* nobody clears it: the server's variables start with any value.          *)
Init ==
  /\ down = {}
  /\ handler = "kernel" /\ pdir = "kernel"
  /\ is_pressed \in [{"kernel", "server"} -> BOOLEAN] /\ ~is_pressed["kernel"]
  /\ last = NoKey
  /\ key_pressed \in BOOLEAN
  /\ reply = layout(NoKey, MASK_NORMAL)
  /\ unread = "file" /\ heard = FALSE

-----------------------------------------------------------------------------
(* irq_install_handler has stored the server's handler, but not yet its    *)
(* address space.                                                          *)
Torn == handler # pdir

(* Mutant: the release of a Shift key goes unnoticed.                      *)
Shift_stuck(h, k, pressed) ==
  is_pressed' = [is_pressed EXCEPT ![h] = IF k \in Shifts /\ pressed THEN TRUE ELSE @]

(* What both handlers do with the scancode of k, pressed or released.      *)
Shift(h, k, pressed) ==
  is_pressed' = [is_pressed EXCEPT ![h] = IF k \in Shifts THEN pressed ELSE @]

Heard(k) == heard' = (heard \/ (handler = "server" /\ k \in Shifts))

(* A key goes down, or repeats while it is held.  The server's handler     *)
(* computes the mask and does not use it; nobody reads the key_buffer of   *)
(* the kernel's.                                                           *)
Press(k) ==
  /\ ~Torn
  /\ down' = down \cup {k}
  /\ Shift(handler, k, TRUE)
  /\ Heard(k)
  /\ IF handler = "server"
     THEN last' = k /\ key_pressed' = TRUE /\ unread' = "press"
     ELSE UNCHANGED <<last, key_pressed, unread>>
  /\ UNCHANGED <<handler, pdir, reply>>

Release(k) ==
  /\ ~Torn
  /\ k \in down
  /\ down' = down \ {k}
  /\ Shift(handler, k, FALSE)
  /\ Heard(k)
  /\ UNCHANGED <<handler, pdir, last, key_pressed, reply, unread>>

-----------------------------------------------------------------------------
(* The kernel grants MSG_REQUEST_INTERRUPT_FORWARDING: the two stores of   *)
(* irq_install_handler.                                                    *)

StoreHandler ==
  /\ handler' = "server"
  /\ UNCHANGED <<down, pdir, is_pressed, last, key_pressed, reply, unread, heard>>

StorePdir ==
  /\ pdir' = "server"
  /\ UNCHANGED <<down, handler, is_pressed, last, key_pressed, reply, unread, heard>>

-----------------------------------------------------------------------------
(* The server.                                                             *)

Unhandled == UNCHANGED <<down, handler, pdir, is_pressed, last, heard>>

(* while (!_key_pressed) ; reply = layout[_last_scancode][0];              *)
Read ==
  /\ key_pressed
  /\ reply' = layout(last, MASK_NORMAL)
  /\ unread' = "nothing"
  /\ Unhandled
  /\ UNCHANGED key_pressed

(* Mutant: the key stays pressed.                                          *)
Clear_kept == UNCHANGED vars

(* _key_pressed = false, which forgets a key pressed since it was read.    *)
Clear ==
  /\ key_pressed' = FALSE
  /\ Unhandled
  /\ UNCHANGED <<reply, unread>>

-----------------------------------------------------------------------------
(* Shift never sticks: the handler that has the IRQ takes it for pressed   *)
(* only while a Shift key is held down.  The server, whose is_pressed is   *)
(* not cleared, may be wrong until the first Shift key reaches it.         *)
ShiftNotStuck ==
  is_pressed[handler] => down \cap Shifts # {} \/ (handler = "server" /\ ~heard)
=============================================================================
