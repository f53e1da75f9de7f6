------------------------------ MODULE DevStdin ------------------------------
(***************************************************************************)
(* The keyboard buffer of kern/fs/devs/dev_stdin.c: the timer interrupt    *)
(* writes what was typed, processes read and sleep on a wait queue while   *)
(* there is nothing to read, and kill interrupts their sleep.              *)
(*                                                                         *)
(* dev_stdin_read holds interrupts off except around schedule(): a step is *)
(* its loop up to the point where it returns or goes to sleep.             *)
(* Characters are numbered in the order in which they are typed.           *)
(***************************************************************************)
EXTENDS Naturals, Sequences, SequencesExt, FiniteSets

CONSTANTS
    Readers,          \* the readers
    STDIN_BUFSIZE,
    MaxTyped,       \* bound: characters typed
    MaxLen          \* bound: the largest read

ASSUME StdinAssumption ==
    /\ STDIN_BUFSIZE \in Nat \ {0} /\ MaxTyped \in Nat /\ MaxLen \in Nat
    /\ IsFiniteSet(Readers)

VARIABLES
    stdin_buffer, p_rpos, p_wpos,
    wait_queue,    \* the processes whose wait_t is linked
    wakeup_flags,  \* of the wait_t of a process
    sleeping,      \* the processes with wait_state WT_KBD
    exiting,       \* the processes with PF_EXITING
    pc,            \* "user", "read" inside dev_stdin_read, "dead"
    left,          \* len - ret of the read a process is in
    typed,         \* characters typed so far
    lost,          \* the characters that found the buffer full, or were overwritten
    delivered      \* the characters the readers got, in that order

vars == <<stdin_buffer, p_rpos, p_wpos, wait_queue, wakeup_flags, sleeping, exiting,
          pc, left, typed, lost, delivered>>

\* stdin_device_init
Init ==
    /\ stdin_buffer = [i \in 0..(STDIN_BUFSIZE - 1) |-> 0]
    /\ p_rpos = 0 /\ p_wpos = 0
    /\ wait_queue = <<>>
    /\ wakeup_flags = [p \in Readers |-> "0"]
    /\ sleeping = {} /\ exiting = {}
    /\ pc = [p \in Readers |-> "user"]
    /\ left = [p \in Readers |-> 0]
    /\ typed = 0 /\ lost = {} /\ delivered = <<>>

At(pos) == stdin_buffer[pos % STDIN_BUFSIZE]

\* Mutant: there is room for one more than the buffer holds.
has_room_late == p_wpos - p_rpos <= STDIN_BUFSIZE

has_room == p_wpos - p_rpos < STDIN_BUFSIZE

\* Mutant: only the first waiter is woken.
wakeup_queue_first ==
    IF wait_queue = <<>> THEN UNCHANGED <<wait_queue, wakeup_flags, sleeping>>
    ELSE /\ wakeup_flags' = [wakeup_flags EXCEPT ![Head(wait_queue)] = "WT_KBD"]
         /\ sleeping' = sleeping \ {Head(wait_queue)}
         /\ wait_queue' = Tail(wait_queue)

\* Mutant: the reason of the wake-up is not recorded.
wakeup_queue_unflagged ==
    /\ sleeping' = sleeping \ ToSet(wait_queue)
    /\ wait_queue' = <<>>
    /\ UNCHANGED wakeup_flags

\* wakeup_queue(wait_queue, WT_KBD, 1): everybody is unlinked and woken, a
\* process that was killed and is not asleep any more included
wakeup_queue ==
    LET queued == ToSet(wait_queue)
    IN  /\ wakeup_flags' = [p \in Readers |-> IF p \in queued THEN "WT_KBD" ELSE wakeup_flags[p]]
        /\ sleeping' = sleeping \ queued
        /\ wait_queue' = <<>>

\* dev_stdin_write(c), c # 0: the character is stored even if there is no room,
\* then in the place of the oldest one
dev_stdin_write ==
    /\ typed < MaxTyped
    /\ typed' = typed + 1
    /\ stdin_buffer' = [stdin_buffer EXCEPT ![p_wpos % STDIN_BUFSIZE] = typed + 1]
    /\ p_wpos' = IF has_room THEN p_wpos + 1 ELSE p_wpos
    /\ lost' = IF has_room THEN lost ELSE lost \cup {At(p_rpos)}
    /\ wakeup_queue
    /\ UNCHANGED <<p_rpos, exiting, pc, left, delivered>>

\* return of a system call: trap() lets a killed process exit
Return(p) == pc' = [pc EXCEPT ![p] = IF p \in exiting THEN "dead" ELSE "user"]

\* The loop of dev_stdin_read with `len' characters to go, in a process that has
\* left the wait queue: take what there is, then return or sleep.
ReadLoop(p, len, queue) ==
    LET n == IF len <= p_wpos - p_rpos THEN len ELSE p_wpos - p_rpos
    IN  /\ delivered' = delivered \o [i \in 1..n |-> At(p_rpos + i - 1)]
        /\ p_rpos' = p_rpos + n
        /\ IF n = len
             THEN /\ Return(p)
                  /\ left' = [left EXCEPT ![p] = 0]
                  /\ wait_queue' = queue
                  /\ wakeup_flags' = [wakeup_flags EXCEPT ![p] = "0"]
                  /\ UNCHANGED sleeping
             ELSE /\ pc' = [pc EXCEPT ![p] = "read"]
                  /\ left' = [left EXCEPT ![p] = len - n]
                  /\ wait_queue' = Append(queue, p)
                  /\ wakeup_flags' = [wakeup_flags EXCEPT ![p] = "WT_INTERRUPTED"]
                  /\ sleeping' = sleeping \cup {p}

\* a process enters dev_stdin_read
dev_stdin_read(p, len) ==
    /\ pc[p] = "user" /\ p \notin exiting
    /\ ReadLoop(p, len, wait_queue)
    /\ UNCHANGED <<stdin_buffer, p_wpos, exiting, typed, lost>>

\* wait_current_del
unlinked(p) == RemoveFirst(wait_queue, p)

\* back from schedule(): woken for a character, try again
dev_stdin_read_again(p) ==
    /\ pc[p] = "read" /\ p \notin sleeping /\ wakeup_flags[p] = "WT_KBD"
    /\ ReadLoop(p, left[p], unlinked(p))
    /\ UNCHANGED <<stdin_buffer, p_wpos, exiting, typed, lost>>

\* back from schedule(): interrupted, return what was read
dev_stdin_read_break(p) ==
    /\ pc[p] = "read" /\ p \notin sleeping /\ wakeup_flags[p] # "WT_KBD"
    /\ Return(p)
    /\ left' = [left EXCEPT ![p] = 0]
    /\ wait_queue' = unlinked(p)
    /\ wakeup_flags' = [wakeup_flags EXCEPT ![p] = "0"]
    /\ UNCHANGED <<stdin_buffer, p_rpos, p_wpos, sleeping, exiting, typed, lost, delivered>>

\* do_kill; a process killed while it runs in user mode is outside this module
do_kill(p) ==
    /\ pc[p] = "read" /\ p \notin exiting
    /\ exiting' = exiting \cup {p}
    /\ sleeping' = sleeping \ {p}
    /\ UNCHANGED <<stdin_buffer, p_rpos, p_wpos, wait_queue, wakeup_flags, pc, left,
                   typed, lost, delivered>>

Next ==
    \/ dev_stdin_write
    \/ \E p \in Readers :
          \/ \E len \in 1..MaxLen : dev_stdin_read(p, len)
          \/ dev_stdin_read_again(p) \/ dev_stdin_read_break(p)
          \/ do_kill(p)

Spec == Init /\ [][Next]_vars
-----------------------------------------------------------------------------
Buffered == [i \in 1..(p_wpos - p_rpos) |-> At(p_rpos + i - 1)]

\* Every character typed is, exactly once, delivered, in the buffer, or lost to a
\* full buffer, whichever readers compete for it and however positions wrap; and as
\* long as none was lost the readers get them in the order of typing.
CharactersAccounted ==
    LET seen == delivered \o Buffered
    IN  /\ ToSet(seen) = (1..typed) \ lost
        /\ Len(seen) = typed - Cardinality(lost)
        /\ lost = {} => \A i \in 1..Len(delivered) : delivered[i] = i

\* No lost wake-up: nobody sleeps while there is something to read, and every sleeper
\* is in the queue.  The wait_t lives on the stack of dev_stdin_read: the queue refers
\* only to processes that are inside it, once each.
WaitQueueSound ==
    /\ sleeping # {} => p_rpos = p_wpos
    /\ sleeping \subseteq ToSet(wait_queue)
    /\ IsInjective(wait_queue)
    /\ \A p \in ToSet(wait_queue) : pc[p] = "read"

\* A read that was not interrupted gets all it asked for and no more.
ReadAccounted ==
    [][\A p \in Readers : pc[p] = "read" /\ pc'[p] # "read" /\ p \notin exiting =>
          p_rpos' - p_rpos = left[p]]_vars
=============================================================================
