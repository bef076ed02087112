---------------------------- MODULE NetworkShare ----------------------------
(***************************************************************************)
(* How a packet gets from the sending network-layer process (SNL) to the   *)
(* data-link process (SDL), as in protocol 3; protocols 1, 2, 4, 5 and 6   *)
(* do the same (1 and 2 write one more, empty, file at the end):           *)
(* MAX_NETWORK_SHARE files network_datalink.share.<i>, filled in turn, and *)
(* a System V shared memory segment with one mark text[i] per file (1: the *)
(* file holds a packet) and two flags, written1 and written2, with which   *)
(* each process asks the other to stay away from the marks.  The flags are *)
(* tested before they are raised and in two statements; SNL never looks at *)
(* a mark before it writes, and SDL walks past an empty file.              *)
(***************************************************************************)
EXTENDS Naturals, Sequences, Functions

CONSTANTS Packets,            \* packets in the source file
          MAX_NETWORK_SHARE   \* slots, 1000 in the code

ASSUME NetworkShareAssumption == /\ Packets \in Nat
                                 /\ MAX_NETWORK_SHARE \in Nat \ {0}

Slots == 0 .. MAX_NETWORK_SHARE - 1
next(i) == (i + 1) % MAX_NETWORK_SHARE

VARIABLES
    share,                \* share[i]: the packet in file i, 0 if there is no file
    text,                 \* shared memory: the marks
    written1, written2,   \* shared memory: SDL / SNL is changing a mark
    snl,                  \* program counter of SNL
    share_file_pointer,   \* the slot SNL fills next
    sent,                 \* packets SNL has read from the source file
    sdl,                  \* program counter of from_network_layer in SDL
    first_readable,       \* the slot SDL looks at
    fetched,              \* the packets from_network_layer has returned, in order
    overrun,              \* history: SNL has replaced a packet not yet fetched
    met                   \* history: one process has passed the other at a slot

snlVars == <<snl, share_file_pointer, sent>>
sdlVars == <<sdl, first_readable, fetched>>
vars == <<share, text, written1, written2, snlVars, sdlVars, overrun, met>>

\* delete_share_bool_memory and create_share_bool_memory: a new, zeroed segment.
Init ==
    /\ share = [i \in Slots |-> 0] /\ text = [i \in Slots |-> 0]
    /\ written1 = 0 /\ written2 = 0
    /\ snl = "read" /\ share_file_pointer = 0 /\ sent = 0
    /\ sdl = "scan" /\ first_readable = 0 /\ fetched = << >>
    /\ overrun = FALSE /\ met = FALSE

-----------------------------------------------------------------------------
(* SNL: fread, wait, write the file, mark the slot *)

SnlReadPacket ==
    /\ snl = "read" /\ sent < Packets
    /\ sent' = sent + 1
    /\ snl' = "gate"
    /\ UNCHANGED <<share, text, written1, written2, share_file_pointer, sdlVars,
                   overrun, met>>

\* Mutant of SnlPassGate: a packet whose slot is still marked is thrown away.
SnlDropsWhenFull ==
    /\ snl = "gate" /\ written1 = 0
    /\ snl' = IF text[share_file_pointer] = 1 THEN "read" ELSE "file"
    /\ UNCHANGED <<share, text, written1, written2, share_file_pointer, sent, sdlVars,
                   overrun, met>>

SnlPassGate ==
    /\ snl = "gate" /\ written1 = 0
    /\ snl' = "file"
    /\ UNCHANGED <<share, text, written1, written2, share_file_pointer, sent, sdlVars,
                   overrun, met>>

\* The slot's packet is still to be read: marked, or unmarked by SDL just now.
Unread(i) == text[i] = 1 \/ (first_readable = i /\ sdl \in {"gate", "raise", "clear", "lower", "file"})

\* SDL still looks at the slot of the packet it fetched last.
JustFetched == share[first_readable] \in Range(fetched)

SnlWriteFile ==
    /\ snl = "file"
    /\ share' = [share EXCEPT ![share_file_pointer] = sent]
    /\ overrun' = (overrun \/ Unread(share_file_pointer))
    /\ met' = \/ met
              \/ sdl = "scan" /\ first_readable = share_file_pointer /\ JustFetched
    /\ snl' = "raise"
    /\ UNCHANGED <<text, written1, written2, share_file_pointer, sent, sdlVars>>

SnlRaise ==
    /\ snl = "raise"
    /\ written2' = 1
    /\ snl' = "mark"
    /\ UNCHANGED <<share, text, written1, share_file_pointer, sent, sdlVars, overrun, met>>

\* Mutant of SnlMark: the slot is written and not marked.
SnlForgetsMark ==
    /\ snl = "mark"
    /\ snl' = "lower"
    /\ UNCHANGED <<share, text, written1, written2, share_file_pointer, sent, sdlVars,
                   overrun, met>>

SnlMark ==
    /\ snl = "mark"
    /\ text' = [text EXCEPT ![share_file_pointer] = 1]
    /\ snl' = "lower"
    /\ UNCHANGED <<share, written1, written2, share_file_pointer, sent, sdlVars,
                   overrun, met>>

SnlLower ==
    /\ snl = "lower"
    /\ written2' = 0
    /\ share_file_pointer' = next(share_file_pointer)
    /\ snl' = "read"
    /\ UNCHANGED <<share, text, written1, sent, sdlVars, overrun, met>>

Snl == \/ SnlReadPacket \/ SnlPassGate \/ SnlWriteFile
       \/ SnlRaise \/ SnlMark \/ SnlLower
-----------------------------------------------------------------------------
(* SDL: from_network_layer, called again and again *)

\* Mutant of SdlSkip: two slots are skipped for one that is empty.
SdlSkipTwo ==
    /\ sdl = "scan" /\ text[first_readable] = 0
    /\ first_readable' = next(next(first_readable))
    /\ met' = \/ met
              \/ first_readable = share_file_pointer /\ (sent < Packets \/ snl # "read")
    /\ UNCHANGED <<share, text, written1, written2, snlVars, sdl, fetched, overrun>>

\* An empty slot is skipped, whether or not SNL will fill it next.
SdlSkip ==
    /\ sdl = "scan" /\ text[first_readable] = 0
    /\ first_readable' = next(first_readable)
    /\ met' = \/ met
              \/ first_readable = share_file_pointer /\ (sent < Packets \/ snl # "read")
    /\ UNCHANGED <<share, text, written1, written2, snlVars, sdl, fetched, overrun>>

SdlFind ==
    /\ sdl = "scan" /\ text[first_readable] = 1
    /\ sdl' = "gate"
    /\ UNCHANGED <<share, text, written1, written2, snlVars, first_readable, fetched,
                   overrun, met>>

SdlPassGate ==
    /\ sdl = "gate" /\ written2 = 0
    /\ sdl' = "raise"
    /\ UNCHANGED <<share, text, written1, written2, snlVars, first_readable, fetched,
                   overrun, met>>

SdlRaise ==
    /\ sdl = "raise"
    /\ written1' = 1
    /\ sdl' = "clear"
    /\ UNCHANGED <<share, text, written2, snlVars, first_readable, fetched, overrun, met>>

\* Mutant of SdlClearMark: the slot stays marked.
SdlKeepsMark ==
    /\ sdl = "clear"
    /\ sdl' = "lower"
    /\ UNCHANGED <<share, text, written1, written2, snlVars, first_readable, fetched,
                   overrun, met>>

SdlClearMark ==
    /\ sdl = "clear"
    /\ text' = [text EXCEPT ![first_readable] = 0]
    /\ sdl' = "lower"
    /\ UNCHANGED <<share, written1, written2, snlVars, first_readable, fetched,
                   overrun, met>>

SdlLower ==
    /\ sdl = "lower"
    /\ written1' = 0
    /\ sdl' = "file"
    /\ UNCHANGED <<share, text, written2, snlVars, first_readable, fetched, overrun, met>>

\* Only now is the file read; the mark says it may be written again.
SdlReadFile ==
    /\ sdl = "file"
    /\ fetched' = Append(fetched, share[first_readable])
    /\ sdl' = "scan"
    /\ UNCHANGED <<share, text, written1, written2, snlVars, first_readable,
                   overrun, met>>

Sdl == \/ SdlSkip \/ SdlFind \/ SdlPassGate \/ SdlRaise
       \/ SdlClearMark \/ SdlLower \/ SdlReadFile
-----------------------------------------------------------------------------
Next == Snl \/ Sdl

Safety == Init /\ [][Next]_vars

\* Both processes are scheduled for ever.
Spec == Safety /\ WF_vars(Sdl) /\ WF_vars(Snl)
-----------------------------------------------------------------------------
\* Packets whose slot has been marked.
Marked == IF snl \in {"read", "lower"} THEN sent ELSE sent - 1
SlotOf(p) == (p - 1) % MAX_NETWORK_SHARE
Fetched(p) == p \in Range(fetched)

\* While SNL is less than one lap ahead, no packet is fetched twice and none
\* disappears between the file, the mark and SDL.
ExactlyOnceUnlessOverrun ==
    ~overrun => /\ IsInjective(fetched)
                /\ \A p \in 1 .. Marked : Fetched(p) \/ Unread(SlotOf(p))

\* Overrun loses the packets that were replaced, never the latest ones: SDL reads
\* the file after it has cleared the mark, so a mark set in between is seen again.
LatestNeverLost ==
    \A p \in 1 .. Marked :
        sent - p < MAX_NETWORK_SHARE => Fetched(p) \/ Unread(SlotOf(p))

\* The order of the source file is kept until the two processes meet at a slot:
\* SDL walks past the empty slot SNL fills next (the sleep() calls of main, one
\* second for SNL and three for SDL, are all that prevents it), or SNL, a full lap
\* ahead, refills the slot SDL fetched from last and has not yet stepped over.
InOrderUnlessMet ==
    ~overrun /\ ~met => \A i \in 1 .. Len(fetched) : fetched[i] = i

\* Everything left in a file is fetched in the end, and the last packet among it.
AllDrained == <>[](\A i \in Slots : ~Unread(i)) /\ (Packets > 0 => <>Fetched(Packets))
=============================================================================
