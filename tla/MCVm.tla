-------------------------------- MODULE MCVm --------------------------------
EXTENDS Vm
Seg(v, m, f, r) == [vaddr |-> v, memsz |-> m, filesz |-> f, readable |-> r]
MCImages == { <<>>, << Seg(0, 2, 1, TRUE) >>, << Seg(0, 0, 0, TRUE) >>,
              << Seg(0, 1, 1, TRUE), Seg(2, 2, 2, FALSE) >>, << Seg(1, 2, 1, TRUE) >> }
=============================================================================
