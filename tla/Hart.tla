-------------------------------- MODULE Hart --------------------------------
(***************************************************************************)
(* The machine mode of the one hart the example programs run on, as far as *)
(* they use it: the global and the timer interrupt enable, the entry into  *)
(* and the return from the handler that include/riscv/riscv-irq.hpp        *)
(* installs, and wfi.  The registers are those of RiscvCsr, changed by its *)
(* accessors; what the hart itself does (Trap, Mret, wfi) is external, and *)
(* follows the RISC-V privileged architecture.                             *)
(*                                                                         *)
(* mip, the bits of the interrupts that are pending, is a parameter: it is *)
(* up to the composing module what the machine timer does.                 *)
(***************************************************************************)
EXTENDS RiscvCsr

CONSTANT Spurious  (* whether wfi may return with nothing pending          *)

ASSUME SpuriousAssumption == Spurious \in BOOLEAN

VARIABLES
  mstatus,   (* its bits                                                   *)
  mie,       (* its bits                                                   *)
  mcause,    (* cause of the last trap: an interrupt, and its number       *)
  installed, (* what the constructor of irq::handler has written           *)
  inHandler  (* the hart is in the handler                                 *)

hartVars == <<mstatus, mie, mcause, installed, inHandler>>

(* include/riscv/riscv-interrupts.hpp: an interrupt's number is the number *)
(* of its bit in mip and mie too.                                          *)
msi == 3
mti == 7
mei == 11

Vector == {"_execute_handler", "mscratch", "mtvec"}

(* main() is entered with no interrupt enabled in mie.                     *)
HartInit ==
  /\ mstatus \in {{}, mstatus_data.mie.mask}
  /\ mie = {}
  /\ mcause = [interrupt |-> FALSE, code |-> 0]
  /\ installed = {}
  /\ inHandler = FALSE

Enabled(reg, f) == f.mask \subseteq reg

(* An interrupt is to be taken.  The hart looks at this after every        *)
(* instruction, right after one that changes mstatus or mie too.           *)
Interruptible(mip) ==
  /\ mip \cap mie # {}
  /\ Enabled(mstatus, mstatus_data.mie)

(* The one that is taken: external before software before timer.           *)
Taken(mip) ==
  CASE mei \in mip \cap mie -> mei
    [] mei \notin mip \cap mie /\ msi \in mip \cap mie -> msi
    [] OTHER -> mti

(* main executes its next instruction.                                     *)
MainRuns(mip) == ~ inHandler /\ ~ Interruptible(mip)

(* riscv::csrs.mstatus.mie.clr(), .set(), riscv::csrs.mie.mti.set()        *)
GlobalDisable ==
  /\ mstatus' = clr(mstatus, mstatus_data.mie)
  /\ UNCHANGED <<mie, mcause, installed, inHandler>>

GlobalEnable ==
  /\ mstatus' = set(mstatus, mstatus_data.mie)
  /\ UNCHANGED <<mie, mcause, installed, inHandler>>

TimerEnable ==
  /\ mie' = set(mie, mie_data.mti)
  /\ UNCHANGED <<mstatus, mcause, installed, inHandler>>

(* riscv::csrs.mie.mti.clr(), by the handler.                              *)
TimerDisable ==
  /\ mie' = clr(mie, mie_data.mti)
  /\ UNCHANGED <<mstatus, mcause, installed, inHandler>>

(* One of the writes of the constructor irq::handler.                      *)
Install(v) ==
  /\ installed' = installed \cup {v}
  /\ UNCHANGED <<mstatus, mie, mcause, inHandler>>

(* Interrupt entry: mpie takes mie, and mie is cleared.                    *)
Trap(mip) ==
  /\ ~ inHandler
  /\ Interruptible(mip)
  /\ inHandler' = TRUE
  /\ mstatus' = clr(set(mstatus, mstatus_data.mpie), mstatus_data.mie)
  /\ mcause' = [interrupt |-> TRUE, code |-> Taken(mip)]
  /\ UNCHANGED <<mie, installed>>

(* mret at the end of entry(): mie takes mpie, and mpie is set.            *)
Mret ==
  /\ inHandler' = FALSE
  /\ mstatus' = set(IF Enabled(mstatus, mstatus_data.mpie)
                    THEN set(mstatus, mstatus_data.mie)
                    ELSE clr(mstatus, mstatus_data.mie),
                    mstatus_data.mpie)
  /\ UNCHANGED <<mie, mcause, installed>>

(* wfi goes on when an interrupt enabled in mie is pending, whatever       *)
(* mstatus.mie says.                                                       *)
wfi(mip) ==
  /\ Spurious \/ mip \cap mie # {}
  /\ UNCHANGED hartVars
=============================================================================
