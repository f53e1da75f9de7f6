------------------------------- MODULE MCVmm -------------------------------
(* Vmm for TLC: pages 1 to 7, two to a page table and four to a directory. *)
EXTENDS Vmm

Seg(start, end, flags) ==
    [vma |-> [vm_start |-> start, vm_end |-> end, vm_flags |-> flags], short |-> FALSE]
Text(start, end) == Seg(start, end, {"R", "X"})
Data(start, end) == Seg(start, end, {"R", "W"})
Short(seg) == [seg EXCEPT !.short = TRUE]

MCPrograms == {
    <<Text(2, 3), Data(3, 4)>>,        \* as tools/user.ld lays a program out
    <<Text(1, 4)>>,                    \* two page tables, one vma
    <<Text(1, 2), Data(2, 3)>>,        \* data in another page table, as in user/testbss.c
    <<Text(3, 5), Data(5, 6)>>,        \* two directories, one of them the stack's
    <<Data(3, 4), Text(2, 3)>>,        \* headers out of order
    <<Text(2, 4), Data(3, 4)>>,        \* overlap that mm_map sees
    <<Text(2, 4), Data(1, 3)>>,        \* overlap that it does not see
    <<Text(2, 3), Data(0, 1)>>,        \* below USERBASE
    <<Data(0, 1)>>,                    \* no segment mapped, as of a file that is no ELF
    <<Text(5, 7)>>, <<Text(7, 8)>>,    \* into the stack
    <<Text(2, 3), Short(Data(3, 4))>>, \* the file ends early
    <<Short(Text(1, 4))>>}
=============================================================================
