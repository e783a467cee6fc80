------------------------------- MODULE MCLocks ------------------------------
(***************************************************************************)
(* Mutual exclusion at two levels: the spinlocks, instruction by           *)
(* instruction, and the buffer cache with its sleeplocks.  A behaviour is  *)
(* one of the one or of the other, as part says; the part that does not    *)
(* run stays in an initial state.                                          *)
(***************************************************************************)
EXTENDS Bio, TLC

CONSTANTS Cpu, Lock, IntrLock, DEPTH

VARIABLES part, taken, owner, intr, noff, intena, on, active, spc, lk, old, held, before

Spin == INSTANCE Spinlock WITH Thread <- Proc, locked <- taken, pc <- spc

spin == <<taken, owner, intr, noff, intena, on, active, spc, lk, old, held, before>>

ASSUME Spin!SpinlockAssumption

MCInit == /\ Init /\ Spin!Init
          /\ \/ part = "bio"
             \/ part = "spinlock" /\ \A i \in Block : disk[i] = CHOOSE v \in Val : TRUE

BioStep == part = "bio" /\ Next /\ UNCHANGED <<part, spin>>
SpinStep == part = "spinlock" /\ Spin!Next /\ UNCHANGED <<part, vars>>

MCNext == BioStep \/ SpinStep

MCSpec == MCInit /\ [][MCNext]_<<part, vars, spin>>

\* Spinlocks exclude, with interrupts off (spinlock.c:31-85), and turn interrupts
\* on again at the outermost release and only there (spinlock.c:102-125).
MutualExclusion == part = "spinlock" => Spin!MutualExclusion
InterruptsRestored == [][part = "spinlock" => Spin!Restored]_spin

Sym == Permutations(Proc) \cup Permutations(Block)
=============================================================================
