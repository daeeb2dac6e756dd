----------------------------- MODULE CsrAccess -----------------------------
(***************************************************************************)
(* One control and status register, accessed by the main program and by an *)
(* interrupt handler through the classes of include/riscv/riscv-csr.hpp.   *)
(*                                                                         *)
(* Every method of a register, and set() and clr() of a field, is a single *)
(* instruction.  write() and read_write() of a field are two ("NOTE - not  *)
(* atomic"): an interrupt may come between them, and its handler may       *)
(* change the register.                                                    *)
(***************************************************************************)
EXTENDS RiscvCsr, FiniteSets

CONSTANTS
  Csr,         (* the registers looked at                                  *)
  Operand,     (* values and masks main gives to a register's methods      *)
  FieldValue,  (* values main writes to fields                             *)
  MaxIrq,      (* bound: interrupts between the two instructions           *)
  Idle         (* main is not inside write() of a field                    *)

ASSUME CsrAccessAssumption ==
  /\ Csr \subseteq DOMAIN csrs
  /\ Operand \subseteq SUBSET uint_xlen_t
  /\ FieldValue \subseteq SUBSET uint_xlen_t
  /\ MaxIrq \in Nat

VARIABLES
  csr,      (* the register, chosen once                                   *)
  value,    (* what it holds                                               *)
  writing,  (* the field write main is inside: field, value and org_value  *)
  irqs      (* interrupts since main read org_value                        *)

csrVars == <<csr, value, writing, irqs>>

Reg == csrs[csr]

CsrInit ==
  /\ csr \in Csr
  /\ value \in {{}, Reg.ops.datatype}
  /\ writing = Idle
  /\ irqs = 0

Insn == {"csrrw", "csrrs", "csrrc"}

(* read() of the register or of a field leaves everything as it is.        *)
Read == UNCHANGED csrVars

(* write(m), set(m), clr(m), read_write(m), read_set_bits(m) and           *)
(* read_clr_bits(m), whose parameter has the register's type: what the     *)
(* reading ones return is left out.                                        *)
Modify(insn, m) ==
  /\ writing = Idle
  /\ Reg.writable
  /\ m \subseteq Reg.ops.datatype
  /\ value' = Execute(insn, value, m)
  /\ UNCHANGED <<csr, writing, irqs>>

(* The same for a constant: write_const<m>() and so on.                    *)
ModifyConst(insn, m) ==
  /\ writing = Idle
  /\ Reg.writable
  /\ m \subseteq Reg.ops.datatype
  /\ value' = Const(insn, value, m)
  /\ UNCHANGED <<csr, writing, irqs>>

(* set() and clr() of a field.                                             *)
SetField(f) ==
  /\ writing = Idle
  /\ value' = set(value, f)
  /\ UNCHANGED <<csr, writing, irqs>>

ClrField(f) ==
  /\ writing = Idle
  /\ value' = clr(value, f)
  /\ UNCHANGED <<csr, writing, irqs>>

(* write(v) of a field: org_value is read ...                              *)
WriteReads(f, v) ==
  /\ writing = Idle
  /\ writing' = [field |-> f, v |-> v, org_value |-> value]
  /\ irqs' = 0
  /\ UNCHANGED <<csr, value>>

(* ... and new_value written.                                              *)
WriteStores ==
  /\ writing # Idle
  /\ value' = new_value(writing.org_value, writing.field, writing.v)
  /\ writing' = Idle
  /\ UNCHANGED <<csr, irqs>>

(* The handler sets or clears a field between the two (elsewhere that is   *)
(* the same as main doing so).                                             *)
Interrupt(f) ==
  /\ writing # Idle
  /\ irqs < MaxIrq
  /\ value' \in {set(value, f), clr(value, f)}
  /\ irqs' = irqs + 1
  /\ UNCHANGED <<csr, writing>>

CsrNext ==
  \/ \E insn \in Insn, m \in Operand : Modify(insn, m) \/ ModifyConst(insn, m)
  \/ \E f \in Reg.fields : SetField(f) \/ ClrField(f) \/ Interrupt(f)
  \/ \E f \in Reg.fields, v \in FieldValue :
       v \subseteq 0 .. f.width - 1 /\ WriteReads(f, v)
  \/ WriteStores
  \/ Read

CsrSpec == CsrInit /\ [][CsrNext]_csrVars

(* main executes its next instruction at last.                             *)
FairCsrSpec == CsrSpec /\ WF_csrVars(WriteStores)

-----------------------------------------------------------------------------
(* The bits between BIT_OFFSET and BIT_OFFSET + BIT_WIDTH.                 *)
Extent(f) == f.offset .. f.offset + f.width - 1

Changed(a, b) == (a \ b) \cup (b \ a)

CsrTypeOK ==
  /\ csr \in Csr
  /\ value \subseteq Reg.ops.datatype
  /\ irqs \in 0 .. MaxIrq
  /\ writing # Idle => /\ writing.field \in Reg.fields
                       /\ writing.v \subseteq 0 .. writing.field.width - 1
                       /\ writing.org_value \subseteq Reg.ops.datatype

(* The interface lets nobody write a register that is noted as read only,  *)
(* for which the hart would trap.                                          *)
ReadOnlyKept ==
  [][ value' # value =>
        Reg.ops.writes /\ Reg.ops.priv \in {"URW", "SRW", "HRW", "MRW", "DRW"} ]_csrVars

(* A field access changes no bit of another field, except that the write   *)
(* of a field takes back what an interrupt handler has changed in between: *)
(* then the bits outside the field are as main read them.                  *)
OthersKept ==
  [][ /\ \A f \in Reg.fields :
           SetField(f) \/ ClrField(f) => Changed(value, value') \subseteq Extent(f)
      /\ WriteStores =>
           /\ Changed(writing.org_value, value') \subseteq Extent(writing.field)
           /\ irqs = 0 => Changed(value, value') \subseteq Extent(writing.field) ]_csrVars

(* A constant operand has the effect of the same operand in a register,    *)
(* whichever instruction is chosen for it.                                 *)
ConstAsRegister ==
  [][ \A insn \in Insn, m \in Operand :
        ModifyConst(insn, m) => value' = Execute(insn, value, m) ]_csrVars

(* "Read-modify-write to write a field." and "Read a given field value     *)
(* from a CSR" (riscv-csr.hpp): a field holds what was written to it.      *)
FieldReadsBack ==
  [][ WriteStores => read(value', writing.field) = writing.v ]_csrVars
=============================================================================
